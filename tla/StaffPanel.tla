---------------------------- MODULE StaffPanel ----------------------------
(***************************************************************************)
(* The operator panel of the browser clients: the auth store of the Vue    *)
(* client (the Svelte client's is its twin), the card that shows it, the   *)
(* session cookie of the browser, and the API's side of the four calls     *)
(* the store makes.                                                        *)
(*                                                                         *)
(* An action of the store is a task that waits for one call at a time and  *)
(* gives it up after 45 seconds; the request may reach the API all the     *)
(* same.  A call carries the cookie as it was when the call was sent.  The *)
(* browser obeys the head of an answer, Set-Cookie with it, before the     *)
(* store has read its body: other answers come in between.  Other pages of *)
(* the browser share the cookie.  The texts of refusals and the number of  *)
(* audit rows are left out.                                                *)
(***************************************************************************)
EXTENDS Naturals

CONSTANTS User,     \* people with a staff account
          Session,  \* sessions the API may make
          Task,     \* actions of the store that may run at a time
          MaxLoads, \* how often the page is loaded
          Nobody    \* no user, no session

ASSUME PanelAssumption ==
  /\ Nobody \notin User \cup Session
  /\ MaxLoads \in Nat

VARIABLES sess,       \* sess[s]: the row in sessions
          holder,     \* holder[s]: sessions.user_id
          cookie,     \* the session cookie of the browser
          loads,      \* how often the page was loaded
          status,     \* the fields of the store
          user,
          submitting,
          notice,     \* whether it says why the user was signed out
          audit,      \* whether it has an audit trail
          task,       \* task[t]: a running action of the store
          shared,     \* whether another page has changed the cookie since
                      \* the page was loaded or last got one
          taken       \* whether since then a late answer has cleared it: one
                      \* of a sign-out sent with another cookie

api == <<sess, holder>>
store == <<status, user, submitting, notice, audit>>
jar == <<cookie, shared, taken>>
vars == <<api, jar, loads, store, task>>

Nothing == [does |-> "nothing", call |-> "none", sent |-> Nobody,
            for |-> Nobody, stage |-> "none", reply |-> "none",
            made |-> Nobody]

TaskRecord ==
  [does : {"nothing", "resume", "signIn", "signOut", "loadAudit"},
   call : {"none", "me", "login", "logout", "audit"},
   sent : Session \cup {Nobody},
   for : User \cup {Nobody},
   stage : {"none", "asked", "answered", "arrived", "adrift"},
   reply : {"none", "granted", "refused", "failed"},
   made : Session \cup {Nobody}]

TypeOK ==
  /\ sess \in [Session -> {"none", "live", "ended"}]
  /\ holder \in [Session -> User \cup {Nobody}]
  /\ cookie \in Session \cup {Nobody}
  /\ loads \in 0 .. MaxLoads
  /\ status \in {"unknown", "signedOut", "signedIn"}
  /\ user \in User \cup {Nobody}
  /\ {submitting, notice, audit, shared, taken} \subseteq BOOLEAN
  /\ task \in [Task -> TaskRecord]

Init ==
  /\ sess = [s \in Session |-> "none"]
  /\ holder = [s \in Session |-> Nobody]
  /\ cookie = Nobody
  /\ loads = 0
  /\ status = "unknown"
  /\ user = Nobody
  /\ submitting = FALSE
  /\ notice = FALSE
  /\ audit = FALSE
  /\ task = [t \in Task |-> Nothing]
  /\ shared = FALSE
  /\ taken = FALSE

\* The action of the store waits: for the head of an answer, then its body.
Waiting(r) == r.stage \in {"asked", "answered", "arrived"}

Live(s) == s # Nobody /\ sess[s] = "live"

\* The session the next insert makes.
Unused(s) == sess[s] = "none" /\ s = CHOOSE x \in Session : sess[x] = "none"

----------------------------------------------------------------------------
(* What the user does.                                                     *)

\* The call of an action, sent with the cookie the browser then has.
Asking(does, call, who, with) ==
  [Nothing EXCEPT !.does = does, !.call = call, !.for = who, !.sent = with,
                  !.stage = "asked"]

\* A task for a new action.
Spare(t) == task[t] = Nothing /\ t = CHOOSE x \in Task : task[x] = Nothing

\* A request that changes something reaches the API even when the page has
\* stopped waiting for it; of a read nobody waits for there is nothing left.
Forsaken(r) ==
  IF r.stage \in {"asked", "adrift"} /\ r.call \in {"login", "logout"}
  THEN [r EXCEPT !.stage = "adrift"]
  ELSE Nothing

Start(does, call, who, with) ==
  \E t \in Task :
    Spare(t) /\ task' = [task EXCEPT ![t] = Asking(does, call, who, with)]

\* The page is loaded, or loaded again: a new store, whose panel resumes
\* once; what the old one was waiting for is of no interest any more.
Load ==
  /\ loads < MaxLoads
  /\ loads' = loads + 1
  /\ status' = "unknown"
  /\ user' = Nobody
  /\ submitting' = FALSE
  /\ notice' = FALSE
  /\ audit' = FALSE
  /\ \E t \in Task :
       /\ Spare(t)
       /\ task' = [x \in Task |->
                     IF x = t THEN Asking("resume", "me", Nobody, cookie)
                     ELSE Forsaken(task[x])]
  /\ shared' = FALSE
  /\ taken' = FALSE
  /\ UNCHANGED <<api, cookie>>

\* Slip: the form is there while the session is still being checked.
FormAtOnce == status # "signedIn"

FormShown == status = "signedOut"

\* Login does not look at the cookie it is sent.
SignIn(u) ==
  /\ FormShown
  /\ ~submitting
  /\ Start("signIn", "login", u, Nobody)
  /\ submitting' = TRUE
  /\ notice' = FALSE
  /\ UNCHANGED <<api, jar, loads, status, user, audit>>

\* Nothing disables the button while a sign-out is under way.
SignOut ==
  /\ status = "signedIn"
  /\ Start("signOut", "logout", Nobody, cookie)
  /\ UNCHANGED <<api, jar, loads, store>>

\* The refresh button of the audit trail.
Refresh ==
  /\ status = "signedIn"
  /\ audit
  /\ Start("loadAudit", "audit", Nobody, cookie)
  /\ UNCHANGED <<api, jar, loads, store>>

----------------------------------------------------------------------------
(* The API.                                                                *)

Reaches(t, call) == task[t].call = call /\ task[t].stage \in {"asked", "adrift"}

\* The reply goes to whoever still waits for it.
Reply(t, reply, made) ==
  task' = [task EXCEPT ![t] =
             IF @.stage = "adrift" THEN Nothing
             ELSE [@ EXCEPT !.stage = "answered", !.reply = reply,
                            !.made = made]]

ServeRead(t) ==
  /\ \E call \in {"me", "audit"} : Reaches(t, call)
  /\ Reply(t, IF Live(task[t].sent) THEN "granted" ELSE "refused", Nobody)
  /\ UNCHANGED api

\* The right password: a session; the handler may still fail after that.
ServeLogin(t) ==
  /\ Reaches(t, "login")
  /\ \E s \in Session :
       /\ Unused(s)
       /\ sess' = [sess EXCEPT ![s] = "live"]
       /\ holder' = [holder EXCEPT ![s] = task[t].for]
       /\ Reply(t, "granted", s) \/ Reply(t, "failed", Nobody)

RefuseLogin(t) ==
  /\ Reaches(t, "login")
  /\ Reply(t, "refused", Nobody)
  /\ UNCHANGED api

ServeLogout(t) ==
  /\ Reaches(t, "logout")
  /\ sess' = [s \in Session |-> IF s = task[t].sent THEN "ended" ELSE sess[s]]
  /\ Reply(t, "granted", Nobody)
  /\ UNCHANGED holder

\* The API fails before it has changed anything, or refuses the role.
ServeFails(t) ==
  /\ \E call \in {"me", "audit", "login", "logout"} : Reaches(t, call)
  /\ Reply(t, "failed", Nobody)
  /\ UNCHANGED api

\* A request nobody waits for never arrives.
Lost(t) ==
  /\ task[t].stage = "adrift"
  /\ task' = [task EXCEPT ![t] = Nothing]
  /\ UNCHANGED api

Api ==
  /\ \E t \in Task :
       \/ ServeRead(t) \/ ServeLogin(t) \/ RefuseLogin(t)
       \/ ServeLogout(t) \/ ServeFails(t) \/ Lost(t)
  /\ UNCHANGED <<jar, loads, store>>

----------------------------------------------------------------------------
(* The answers.                                                            *)

\* The answers whose head changes the cookie.
BringsCookie(t) ==
  \/ task[t].made # Nobody
  \/ task[t].call = "logout" /\ task[t].reply = "granted"

\* fetch() has its response: a sign-in has set the cookie, a sign-out has
\* cleared it, whosever it has become.  The store learns of it in a step of
\* its own.  Nobody but the action sees the head of another answer.
HeadArrives(t) ==
  /\ task[t].stage = "answered"
  /\ BringsCookie(t)
  /\ cookie' = task[t].made
  /\ IF task[t].made # Nobody
     THEN shared' = FALSE /\ taken' = FALSE
     ELSE /\ taken' = (taken \/ cookie \notin {Nobody, task[t].sent})
          /\ UNCHANGED shared
  /\ task' = [task EXCEPT ![t].stage = "arrived"]
  /\ UNCHANGED <<api, loads, store>>

\* The action a task ran is over.
Over(t) == task' = [task EXCEPT ![t] = Nothing]

\* The action goes on to load the audit trail.
GoesOn(t) ==
  task' = [task EXCEPT ![t] = Asking(@.does, "audit", Nobody, cookie)]

\* Slip: submitting is reset only where the sign-in went well.
ResetOnSuccess(t) ==
  submitting' = (submitting /\ ~(task[t].does = "signIn"
                                 /\ task[t].reply = "granted"))

\* The finally block of signIn.
Finally(t) == submitting' = (submitting /\ task[t].does # "signIn")

\* Slip: a sign-out that failed changes nothing.
StayUnlessGranted(t) ==
  IF task[t].reply = "granted"
  THEN /\ status' = "signedOut" /\ user' = Nobody
       /\ audit' = FALSE /\ notice' = FALSE
  ELSE UNCHANGED <<status, user, audit, notice>>

\* The end of signOut, whatever became of the call.
ClearLocally(t) ==
  /\ status' = "signedOut" /\ user' = Nobody
  /\ audit' = FALSE /\ notice' = FALSE

\* What the action does when its call throws.
Throws(t) ==
  /\ CASE task[t].call = "me" -> status' = "signedOut"
                                 /\ UNCHANGED <<user, audit, notice>>
       [] task[t].call = "logout" -> ClearLocally(t)
       [] OTHER -> UNCHANGED <<status, user, audit, notice>>
  /\ Finally(t)

ResumeAnswered(t) ==
  /\ task[t].call = "me"
  /\ UNCHANGED <<submitting, notice, audit>>
  /\ \/ /\ task[t].reply = "granted"
        /\ user' = holder[task[t].sent]
        /\ status' = "signedIn"
        /\ GoesOn(t)
     \/ /\ task[t].reply = "refused"
        /\ user' = Nobody
        /\ status' = "signedOut"
        /\ Over(t)

SignInAnswered(t) ==
  /\ task[t].call = "login"
  /\ task[t].reply = "granted"
  /\ user' = task[t].for
  /\ status' = "signedIn"
  /\ GoesOn(t)
  /\ UNCHANGED <<submitting, notice, audit>>

SignOutAnswered(t) ==
  /\ task[t].call = "logout"
  /\ task[t].reply = "granted"
  /\ ClearLocally(t)
  /\ Over(t)
  /\ UNCHANGED submitting

\* Slip: any answer but the rows is taken for the end of the session.
AnyRefusal(t) == task[t].reply # "granted"

SessionExpired(t) == task[t].reply = "refused"

AuditAnswered(t) ==
  /\ task[t].call = "audit"
  /\ \/ /\ task[t].reply = "granted"
        /\ audit' = TRUE
        /\ UNCHANGED <<status, user, notice>>
     \/ /\ SessionExpired(t)
        /\ user' = Nobody
        /\ audit' = FALSE
        /\ status' = "signedOut"
        /\ notice' = TRUE
  /\ Finally(t)
  /\ Over(t)

\* The reply is an error, or its body does not parse: the action sees a
\* failure.  A 401 and the answer of a sign-out are acted on without a body.
Failed(t) ==
  /\ \/ task[t].reply = "failed"
     \/ task[t].reply = "refused" /\ task[t].call = "login"
     \/ task[t].reply = "granted" /\ task[t].call # "logout"
  /\ Throws(t)
  /\ Over(t)

Answered(t) ==
  /\ task[t].stage = IF BringsCookie(t) THEN "arrived" ELSE "answered"
  /\ \/ ResumeAnswered(t) \/ SignInAnswered(t) \/ SignOutAnswered(t)
     \/ AuditAnswered(t) \/ Failed(t)
  /\ UNCHANGED <<api, jar, loads>>

\* The 45 seconds are over, or the network is down, with the head or the body
\* still to come.
GiveUp(t) ==
  /\ Waiting(task[t])
  /\ Throws(t)
  /\ task' = [task EXCEPT ![t] = Forsaken(@)]
  /\ UNCHANGED <<api, jar, loads>>

Settle(t) == HeadArrives(t) \/ Answered(t) \/ GiveUp(t)

----------------------------------------------------------------------------
(* The rest of the world.                                                  *)

\* An administrator revokes a session, or it expires: then the browser drops
\* the cookie too, sooner or later.
End(s) ==
  /\ sess[s] = "live"
  /\ sess' = [sess EXCEPT ![s] = "ended"]
  /\ cookie' \in IF cookie = s THEN {s, Nobody} ELSE {cookie}
  /\ UNCHANGED <<holder, loads, store, task, shared, taken>>

\* Another page of this browser signs somebody in, or out.
OtherPage ==
  /\ \/ \E s \in Session, u \in User :
          /\ Unused(s)
          /\ sess' = [sess EXCEPT ![s] = "live"]
          /\ holder' = [holder EXCEPT ![s] = u]
          /\ cookie' = s
     \/ /\ Live(cookie)
        /\ sess' = [sess EXCEPT ![cookie] = "ended"]
        /\ cookie' = Nobody
        /\ UNCHANGED holder
  /\ shared' = TRUE
  /\ UNCHANGED <<loads, store, task, taken>>

World == OtherPage \/ \E s \in Session : End(s)

Next ==
  \/ Load \/ SignOut \/ Refresh
  \/ \E u \in User : SignIn(u)
  \/ Api
  \/ \E t \in Task : Settle(t)
  \/ World

Spec == Init /\ [][Next]_vars

\* Every fetch of the store has a timer of 45 seconds.
Fairness == \A t \in Task : WF_vars(Settle(t))

FairSpec == Spec /\ Fairness

----------------------------------------------------------------------------
(* What the panel promises.                                                *)

\* The browser never acts as anybody but the user the panel shows: as long
\* as no other page has changed the cookie behind its back, the cookie is a
\* session of that user.  It may be gone, with a session of his that has
\* ended; a session of his may live on without its cookie only where the late
\* answer of a sign-out, asked for under an earlier cookie, has cleared it.
\* Several answers may be under way, each with a cookie, a user or both, and
\* a cookie may be cleared between the head and the body of the sign-in that
\* brought it.
ActsAsShown ==
  status = "signedIn" /\ ~shared =>
    IF cookie # Nobody THEN holder[cookie] = user
    ELSE taken \/ \E s \in Session : holder[s] = user /\ sess[s] = "ended"

\* Nobody is signed out unasked but for a session that has ended, and then
\* the panel says so: an API that fails or is silent signs nobody out.
LeavesForCause ==
  [][status = "signedIn" /\ status' = "signedOut" =>
       \E t \in Task :
         /\ Waiting(task[t]) /\ ~Waiting(task'[t])
         /\ \/ task[t].does = "signOut"
            \/ notice' /\ ~Live(task[t].sent)]_vars

\* The panel does not hang: the check of the session comes to an end, and
\* the sign-in button does not stay disabled.
NeverHangs ==
  /\ (loads > 0 /\ status = "unknown") ~> (status # "unknown")
  /\ submitting ~> ~submitting

\* A sign-out takes the user off the panel, whatever the API answers.
LeavesWhenAsked ==
  (\E t \in Task : task[t].does = "signOut" /\ task[t].stage = "asked")
    ~> (status # "signedIn")
============================================================================
