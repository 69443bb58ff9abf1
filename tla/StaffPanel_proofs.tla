-------------------------- MODULE StaffPanel_proofs --------------------------
(***************************************************************************)
(* Proofs about StaffPanel, for any number of people, sessions, page loads *)
(* and actions under way at a time.                                        *)
(*                                                                         *)
(* ActsAsShown is about several answers that may come in any order, so it  *)
(* rests on which answers can still come: while the session is being       *)
(* checked nothing but that check is waited for, and no sign-in is waited  *)
(* for unless the panel is signed out and its button disabled (Turns).     *)
(* Between the head and the body of a sign-in its cookie may be cleared,   *)
(* by an end of its session or by a late sign-out, and never becomes       *)
(* another one (HoldsTheCookie).  What an answer says of a session stays   *)
(* true, because a session is made once, keeps its holder, and ends for    *)
(* good (Grows).                                                           *)
(***************************************************************************)
EXTENDS StaffPanel, TLAPS

\* The API has answered, and the action has not yet acted on it.
Replied(r) == r.stage \in {"answered", "arrived"}

\* What the record of an action can be on its own.
Sound(r) ==
  Waiting(r) =>
    /\ r.call = "me" => r.does = "resume"
    /\ r.call = "login" => r.does = "signIn"
    /\ r.call = "logout" => r.does = "signOut"
    /\ r.stage = "asked" => r.made = Nobody
    /\ r.made # Nobody => r.call = "login"
    /\ r.call = "login" /\ Replied(r) /\ r.reply = "granted" => r.made # Nobody
    /\ r.call = "login" /\ r.stage = "arrived" => r.made # Nobody
    /\ r.call = "me" /\ Replied(r) /\ r.reply = "granted" => r.sent # Nobody

\* A session the browser or an answer speaks of has been made; the one a
\* sign-in made is its user's; a refused read was refused for a reason; and a
\* sign-out that went well has ended the session it was sent with.
Backed(r) ==
  /\ r.sent # Nobody => sess[r.sent] # "none"
  /\ r.made # Nobody => sess[r.made] # "none" /\ holder[r.made] = r.for
  /\ Replied(r) /\ r.call = "audit" /\ r.reply = "refused" => ~Live(r.sent)
  /\ Replied(r) /\ r.call = "logout" /\ r.reply = "granted" /\ r.sent # Nobody
       => sess[r.sent] = "ended"

Records == \A t \in Task : Sound(task[t])

Made ==
  /\ cookie # Nobody => sess[cookie] # "none"
  /\ \A t \in Task : Backed(task[t])

\* Whose turn it is.
Turns ==
  \A t \in Task : Waiting(task[t]) =>
    /\ task[t].call = "me" => status = "unknown"
    /\ task[t].call = "login" => status = "signedOut"
    /\ task[t].does = "signIn" => submitting
    /\ status = "unknown" => task[t].call = "me"
    /\ \A x \in Task : Waiting(task[x]) =>
         /\ status = "unknown" => t = x
         /\ task[t].does = "signIn" /\ task[x].does = "signIn" => t = x

\* The check of the session was sent with the cookie the browser still has,
\* or that has run out since.
ChecksTheCookie ==
  \A t \in Task :
    status = "unknown" /\ ~shared /\ Waiting(task[t]) /\ task[t].sent # Nobody
      => \/ cookie = task[t].sent
         \/ cookie = Nobody /\ sess[task[t].sent] = "ended"

\* The cookie a sign-in brought is still there when its body is read, or it
\* was cleared, by the end of its session or by the answer of a sign-out.
HoldsTheCookie ==
  \A t \in Task :
    ~shared /\ task[t].stage = "arrived" /\ task[t].call = "login"
      => \/ cookie = task[t].made
         \/ cookie = Nobody /\ (taken \/ sess[task[t].made] = "ended")

Inductive ==
  /\ TypeOK
  /\ Records
  /\ Made
  /\ Turns
  /\ ChecksTheCookie
  /\ HoldsTheCookie
  /\ ActsAsShown

-----------------------------------------------------------------------------
(* Records *)

LEMMA NobodyIs == Nobody \notin User /\ Nobody \notin Session
BY PanelAssumption

Dids  == {"nothing", "resume", "signIn", "signOut", "loadAudit"}
Calls == {"none", "me", "login", "logout", "audit"}

LEMMA NothingIs ==
  /\ Nothing \in TaskRecord
  /\ ~Waiting(Nothing)
  /\ Nothing.sent = Nobody /\ Nothing.made = Nobody /\ Nothing.stage = "none"
BY DEF Nothing, TaskRecord, Waiting

LEMMA AskingIs ==
  ASSUME NEW does \in Dids, NEW call \in Calls,
         NEW who \in User \cup {Nobody}, NEW with \in Session \cup {Nobody}
  PROVE  /\ Asking(does, call, who, with) \in TaskRecord
         /\ Asking(does, call, who, with).does = does
         /\ Asking(does, call, who, with).call = call
         /\ Asking(does, call, who, with).sent = with
         /\ Asking(does, call, who, with).for = who
         /\ Asking(does, call, who, with).stage = "asked"
         /\ Asking(does, call, who, with).made = Nobody
BY DEF Asking, Nothing, TaskRecord, Dids, Calls

LEMMA AuditIs ==
  ASSUME NEW does \in Dids, NEW with \in Session \cup {Nobody},
         NEW r, r = Asking(does, "audit", Nobody, with)
  PROVE  /\ r \in TaskRecord
         /\ r.does = does /\ r.call = "audit" /\ r.stage = "asked"
         /\ r.sent = with /\ r.made = Nobody
BY AskingIs DEF Calls

\* A record with an answer.
With(r, reply, made) == [r EXCEPT !.stage = "answered", !.reply = reply, !.made = made]

LEMMA WithIs ==
  ASSUME NEW r \in TaskRecord, NEW reply \in {"granted", "refused", "failed"},
         NEW made \in Session \cup {Nobody}
  PROVE  /\ With(r, reply, made) \in TaskRecord
         /\ With(r, reply, made).does = r.does
         /\ With(r, reply, made).call = r.call
         /\ With(r, reply, made).sent = r.sent
         /\ With(r, reply, made).for = r.for
         /\ With(r, reply, made).stage = "answered"
         /\ With(r, reply, made).reply = reply
         /\ With(r, reply, made).made = made
BY DEF With, TaskRecord

\* A record whose answer has begun to arrive.
Head(r) == [r EXCEPT !.stage = "arrived"]

LEMMA HeadIs ==
  ASSUME NEW r \in TaskRecord
  PROVE  /\ Head(r) \in TaskRecord /\ Head(r).stage = "arrived"
         /\ Head(r).does = r.does /\ Head(r).call = r.call /\ Head(r).sent = r.sent
         /\ Head(r).for = r.for /\ Head(r).reply = r.reply /\ Head(r).made = r.made
BY DEF Head, TaskRecord

\* The page has stopped waiting for it, but the API may still get it.
Adrift(r) == [r EXCEPT !.stage = "adrift"]

LEMMA AdriftIs ==
  ASSUME NEW r \in TaskRecord
  PROVE  /\ Adrift(r) \in TaskRecord
         /\ ~Waiting(Adrift(r)) /\ Adrift(r).stage = "adrift"
         /\ Adrift(r).sent = r.sent /\ Adrift(r).made = r.made /\ Adrift(r).for = r.for
BY DEF Adrift, TaskRecord, Waiting

LEMMA ForsakenIs == \A r : Forsaken(r) \in {Nothing, Adrift(r)}
BY DEF Forsaken, Adrift

\* The record of x is what it was, or nobody waits for it.
Kept(x) == task'[x] \in {task[x], Nothing, Adrift(task[x])}

LEMMA KeptIs ==
  ASSUME TypeOK, NEW x \in Task, Kept(x)
  PROVE  /\ task'[x] \in TaskRecord
         /\ Waiting(task'[x]) => task'[x] = task[x]
<1>1. task[x] \in TaskRecord
  BY DEF TypeOK
<1>2. QED
  BY <1>1, NothingIs, AdriftIs DEF Kept

-----------------------------------------------------------------------------
(* Sessions: what has been said of one stays true *)

Grows ==
  \A s \in Session : sess[s] # "none" =>
    /\ sess'[s] # "none"
    /\ holder'[s] = holder[s]
    /\ sess[s] = "ended" => sess'[s] = "ended"

LEMMA GrowsStep == TypeOK /\ [Next]_vars => Grows
<1> SUFFICES ASSUME TypeOK, [Next]_vars PROVE Grows
  OBVIOUS
<1>1. sess \in [Session -> {"none", "live", "ended"}] /\ holder \in [Session -> User \cup {Nobody}]
  BY DEF TypeOK
<1>2. CASE UNCHANGED api
  BY <1>2 DEF api, Grows
<1>3. ASSUME NEW s \in Session, Unused(s), sess' = [sess EXCEPT ![s] = "live"],
             NEW u, holder' = [holder EXCEPT ![s] = u]
      PROVE  Grows
  BY <1>1, <1>3 DEF Grows, Unused
<1>4. ASSUME NEW s \in Session \cup {Nobody},
             sess' = [x \in Session |-> IF x = s THEN "ended" ELSE sess[x]], holder' = holder
      PROVE  Grows
  BY <1>1, <1>4 DEF Grows
<1>5. CASE Api
  <2>1. PICK t \in Task : \/ ServeRead(t) \/ ServeLogin(t) \/ RefuseLogin(t)
                          \/ ServeLogout(t) \/ ServeFails(t) \/ Lost(t)
    BY <1>5 DEF Api
  <2>2. CASE ServeLogin(t)
    BY <1>3, <2>2 DEF ServeLogin
  <2>3. CASE ServeLogout(t)
    <3>1. task[t].sent \in Session \cup {Nobody}
      BY DEF TypeOK, TaskRecord
    <3>2. QED
      BY <1>4, <2>3, <3>1 DEF ServeLogout
  <2>4. CASE ServeRead(t) \/ RefuseLogin(t) \/ ServeFails(t) \/ Lost(t)
    BY <1>2, <2>4 DEF ServeRead, RefuseLogin, ServeFails, Lost
  <2>5. QED
    BY <2>1, <2>2, <2>3, <2>4
<1>6. CASE World
  <2>1. ASSUME NEW s \in Session, End(s) PROVE Grows
    BY <1>1, <2>1 DEF End, Grows
  <2>2. CASE OtherPage
    <3>1. CASE \E s \in Session, u \in User :
                 Unused(s) /\ sess' = [sess EXCEPT ![s] = "live"] /\ holder' = [holder EXCEPT ![s] = u]
      BY <1>3, <3>1
    <3>2. CASE Live(cookie) /\ sess' = [sess EXCEPT ![cookie] = "ended"] /\ UNCHANGED holder
      BY <1>1, <3>2 DEF Grows, Live
    <3>3. QED
      BY <2>2, <3>1, <3>2 DEF OtherPage
  <2>3. QED
    BY <1>6, <2>1, <2>2 DEF World
<1>7. CASE Load \/ SignOut \/ Refresh \/ \E u \in User : SignIn(u)
  BY <1>2, <1>7 DEF Load, SignOut, Refresh, SignIn
<1>8. CASE \E t \in Task : Settle(t)
  BY <1>2, <1>8 DEF Settle, HeadArrives, Answered, GiveUp
<1>9. CASE UNCHANGED vars
  BY <1>2, <1>9 DEF vars
<1>10. QED
  BY <1>5, <1>6, <1>7, <1>8, <1>9 DEF Next

-----------------------------------------------------------------------------
(* The steps, by what they do to the records and to the panel *)

\* A page load asks whose session it is, and waits for nothing else.
Loads(t) ==
  /\ task' \in [Task -> TaskRecord]
  /\ task'[t] = Asking("resume", "me", Nobody, cookie)
  /\ \A x \in Task \ {t} : Kept(x) /\ ~Waiting(task'[x])
  /\ status' = "unknown" /\ user' = Nobody
  /\ submitting' = FALSE /\ notice' = FALSE /\ audit' = FALSE
  /\ shared' = FALSE /\ taken' = FALSE
  /\ loads' \in 0 .. MaxLoads
  /\ UNCHANGED <<sess, holder, cookie>>

LEMMA LoadIs ==
  ASSUME TypeOK, Load
  PROVE  \E t \in Task : Loads(t)
<1>1. PICK t \in Task : task' = [x \in Task |-> IF x = t THEN Asking("resume", "me", Nobody, cookie)
                                               ELSE Forsaken(task[x])]
  BY DEF Load
<1>2. task'[t] = Asking("resume", "me", Nobody, cookie)
  BY <1>1
<1>3. task'[t] \in TaskRecord
  <2>1. "resume" \in Dids /\ "me" \in Calls /\ cookie \in Session \cup {Nobody}
    BY DEF TypeOK, Dids, Calls
  <2>2. QED
    BY <1>2, <2>1, AskingIs
<1>4. ASSUME NEW x \in Task \ {t}
      PROVE  Kept(x) /\ ~Waiting(task'[x]) /\ task'[x] \in TaskRecord
  <2>1. task'[x] = Forsaken(task[x]) /\ task[x] \in TaskRecord
    BY <1>1 DEF TypeOK
  <2>2. QED
    BY <2>1, ForsakenIs, NothingIs, AdriftIs DEF Kept
<1>5. task' \in [Task -> TaskRecord]
  BY <1>1, <1>3, <1>4
<1>6. loads' \in 0 .. MaxLoads
  BY PanelAssumption DEF Load, TypeOK
<1>7. QED
  BY <1>2, <1>4, <1>5, <1>6 DEF Load, Loads, api

\* The cookie a call is sent with, as far as the API looks at it.
Carried(call) == IF call = "login" THEN Nobody ELSE cookie

\* The user clicks, in a panel that is signed out or signed in.
Begins(t, does, call, who) ==
  /\ ~Waiting(task[t])
  /\ task' = [task EXCEPT ![t] = Asking(does, call, who, Carried(call))]
  /\ \/ /\ does = "signIn" /\ call = "login" /\ who \in User
        /\ status = "signedOut" /\ ~submitting /\ submitting' = TRUE /\ notice' = FALSE
     \/ /\ <<does, call>> \in {<<"signOut", "logout">>, <<"loadAudit", "audit">>} /\ who = Nobody
        /\ status = "signedIn" /\ UNCHANGED <<submitting, notice>>
  /\ UNCHANGED <<sess, holder, cookie, shared, taken, loads, status, user, audit>>

LEMMA BeginIs ==
  ASSUME SignOut \/ Refresh \/ \E u \in User : SignIn(u)
  PROVE  \E t \in Task, does \in Dids, call \in Calls, who \in User \cup {Nobody} :
           Begins(t, does, call, who)
<1> USE DEF Start, Spare, Begins, Carried, api, jar, store, Dids, Calls
<1>1. \A t : task[t] = Nothing => ~Waiting(task[t])
  BY NothingIs
<1>2. CASE SignOut
  <2>1. PICK t \in Task : Begins(t, "signOut", "logout", Nobody)
    BY <1>1, <1>2 DEF SignOut
  <2>2. QED
    BY <2>1
<1>3. CASE Refresh
  <2>1. PICK t \in Task : Begins(t, "loadAudit", "audit", Nobody)
    BY <1>1, <1>3 DEF Refresh
  <2>2. QED
    BY <2>1
<1>4. CASE \E u \in User : SignIn(u)
  <2>1. PICK u \in User : SignIn(u)
    BY <1>4
  <2>2. PICK t \in Task : Begins(t, "signIn", "login", u)
    BY <1>1, <2>1 DEF SignIn, FormShown
  <2>3. QED
    BY <2>2
<1>5. QED
  BY <1>2, <1>3, <1>4

SessionTypes ==
  /\ sess \in [Session -> {"none", "live", "ended"}]
  /\ holder \in [Session -> User \cup {Nobody}]

Replies == {"granted", "refused", "failed"}

\* What the API may answer to r, with the sessions it leaves behind.
Tells(r, reply, made) ==
  /\ made # Nobody => r.call = "login" /\ sess'[made] # "none" /\ holder'[made] = r.for
  /\ r.call = "login" /\ reply = "granted" => made # Nobody
  /\ r.call = "me" /\ reply = "granted" => r.sent # Nobody
  /\ r.call = "audit" /\ reply = "refused" => r.sent = Nobody \/ sess'[r.sent] # "live"
  /\ r.call = "logout" /\ reply = "granted" /\ r.sent # Nobody => sess'[r.sent] = "ended"

\* The API answers t, if anybody waits for it, and changes nothing but sessions.
Serves(t) ==
  /\ SessionTypes'
  /\ \E r \in TaskRecord :
       /\ task' = [task EXCEPT ![t] = r]
       /\ \/ r = Nothing
          \/ \E reply \in Replies, made \in Session \cup {Nobody} :
               /\ task[t].stage = "asked"
               /\ r = With(task[t], reply, made)
               /\ Tells(task[t], reply, made)
  /\ UNCHANGED <<cookie, shared, taken, loads, status, user, submitting, notice, audit>>

LEMMA ReplyIs ==
  ASSUME TypeOK, NEW t \in Task, NEW reply \in Replies, NEW made \in Session \cup {Nobody},
         Reply(t, reply, made), task[t].stage \in {"asked", "adrift"}, SessionTypes',
         Tells(task[t], reply, made),
         UNCHANGED <<cookie, shared, taken, loads, status, user, submitting, notice, audit>>
  PROVE  Serves(t)
<1>1. task \in [Task -> TaskRecord] /\ task[t] \in TaskRecord
  BY DEF TypeOK
<1>2. CASE task[t].stage = "adrift"
  <2>1. task' = [task EXCEPT ![t] = Nothing]
    BY <1>2 DEF Reply
  <2>2. QED
    BY <2>1, NothingIs DEF Serves
<1>3. CASE task[t].stage = "asked"
  <2>1. task' = [task EXCEPT ![t] = With(task[t], reply, made)]
    BY <1>1, <1>3 DEF Reply, With
  <2>2. With(task[t], reply, made) \in TaskRecord
    BY <1>1, WithIs DEF Replies
  <2>3. QED
    BY <1>3, <2>1, <2>2 DEF Serves
<1>4. QED
  BY <1>2, <1>3

LEMMA ApiIs ==
  ASSUME TypeOK, Api
  PROVE  \E t \in Task : Serves(t)
<1>1. PICK t \in Task : \/ ServeRead(t) \/ ServeLogin(t) \/ RefuseLogin(t)
                        \/ ServeLogout(t) \/ ServeFails(t) \/ Lost(t)
  BY DEF Api
<1>2. UNCHANGED <<cookie, shared, taken, loads, status, user, submitting, notice, audit>>
  BY DEF Api, store, jar
<1>3. SessionTypes /\ task \in [Task -> TaskRecord] /\ task[t] \in TaskRecord
  BY DEF TypeOK, SessionTypes
<1>4. /\ task[t].sent \in Session \cup {Nobody} /\ task[t].for \in User \cup {Nobody}
      /\ "granted" \in Replies /\ "refused" \in Replies /\ "failed" \in Replies
  BY <1>3 DEF TaskRecord, Replies
<1>5. CASE ServeRead(t)
  <2>1. /\ task[t].stage \in {"asked", "adrift"} /\ task[t].call # "login" /\ UNCHANGED api
        /\ Reply(t, IF Live(task[t].sent) THEN "granted" ELSE "refused", Nobody)
    BY <1>5 DEF ServeRead, Reaches
  <2>2. PICK reply \in Replies : reply = IF Live(task[t].sent) THEN "granted" ELSE "refused"
    BY DEF Replies
  <2>3. SessionTypes' /\ Tells(task[t], reply, Nobody)
    <3>1. task[t].call \in {"me", "audit"}
      BY <1>5 DEF ServeRead, Reaches
    <3>2. QED
      BY <1>3, <2>1, <2>2, <3>1 DEF Tells, Live, api, SessionTypes
  <2>4. QED
    BY <1>2, <2>1, <2>2, <2>3, ReplyIs
<1>6. CASE ServeLogin(t)
  <2>1. PICK s \in Session :
          /\ sess' = [sess EXCEPT ![s] = "live"] /\ holder' = [holder EXCEPT ![s] = task[t].for]
          /\ Reply(t, "granted", s) \/ Reply(t, "failed", Nobody)
    BY <1>6 DEF ServeLogin
  <2>2. task[t].stage \in {"asked", "adrift"} /\ task[t].call = "login"
    BY <1>6 DEF ServeLogin, Reaches
  <2>3. SessionTypes' /\ sess'[s] # "none" /\ holder'[s] = task[t].for
    BY <1>3, <1>4, <2>1 DEF SessionTypes
  <2>4. Tells(task[t], "granted", s) /\ Tells(task[t], "failed", Nobody)
    BY <2>2, <2>3, NobodyIs DEF Tells
  <2>5. CASE Reply(t, "granted", s)
    BY <1>2, <1>4, <2>2, <2>3, <2>4, <2>5, ReplyIs
  <2>6. CASE Reply(t, "failed", Nobody)
    BY <1>2, <1>4, <2>2, <2>3, <2>4, <2>6, ReplyIs
  <2>7. QED
    BY <2>1, <2>5, <2>6
<1>7. CASE RefuseLogin(t)
  <2>1. /\ task[t].stage \in {"asked", "adrift"} /\ task[t].call = "login" /\ UNCHANGED api
        /\ Reply(t, "refused", Nobody)
    BY <1>7 DEF RefuseLogin, Reaches
  <2>2. SessionTypes' /\ Tells(task[t], "refused", Nobody)
    BY <1>3, <2>1 DEF Tells, api, SessionTypes
  <2>3. QED
    BY <1>2, <1>4, <2>1, <2>2, ReplyIs
<1>8. CASE ServeLogout(t)
  <2>1. /\ task[t].stage \in {"asked", "adrift"} /\ task[t].call = "logout"
        /\ Reply(t, "granted", Nobody)
        /\ sess' = [s \in Session |-> IF s = task[t].sent THEN "ended" ELSE sess[s]]
        /\ holder' = holder
    BY <1>8 DEF ServeLogout, Reaches
  <2>2. SessionTypes' /\ Tells(task[t], "granted", Nobody)
    BY <1>3, <1>4, <2>1 DEF Tells, SessionTypes
  <2>3. QED
    BY <1>2, <1>4, <2>1, <2>2, ReplyIs
<1>9. CASE ServeFails(t)
  <2>1. /\ task[t].stage \in {"asked", "adrift"} /\ UNCHANGED api
        /\ Reply(t, "failed", Nobody)
    BY <1>9 DEF ServeFails, Reaches
  <2>2. SessionTypes' /\ Tells(task[t], "failed", Nobody)
    BY <1>3, <2>1 DEF Tells, api, SessionTypes
  <2>3. QED
    BY <1>2, <1>4, <2>1, <2>2, ReplyIs
<1>10. CASE Lost(t)
  <2>1. task' = [task EXCEPT ![t] = Nothing] /\ SessionTypes'
    BY <1>3, <1>10 DEF Lost, api, SessionTypes
  <2>2. QED
    BY <1>2, <2>1, NothingIs DEF Serves
<1>11. QED
  BY <1>1, <1>5, <1>6, <1>7, <1>8, <1>9, <1>10

\* The head of an answer sets or clears the cookie.
Heads(t) ==
  /\ task[t].stage = "answered"
  /\ task' = [task EXCEPT ![t] = Head(task[t])]
  /\ \/ /\ task[t].made # Nobody
        /\ cookie' = task[t].made /\ shared' = FALSE /\ taken' = FALSE
     \/ /\ task[t].made = Nobody /\ task[t].call = "logout" /\ task[t].reply = "granted"
        /\ cookie' = Nobody /\ shared' = shared
        /\ taken' = (taken \/ cookie \notin {Nobody, task[t].sent})
  /\ UNCHANGED <<sess, holder, loads, status, user, submitting, notice, audit>>

LEMMA HeadArrivesIs ==
  ASSUME TypeOK, NEW t \in Task, HeadArrives(t)
  PROVE  Heads(t)
<1>1. task' = [task EXCEPT ![t] = Head(task[t])]
  BY DEF HeadArrives, Head, TypeOK
<1>2. CASE task[t].made # Nobody
  BY <1>1, <1>2 DEF HeadArrives, Heads, api, store
<1>3. CASE task[t].made = Nobody
  <2>1. task[t].call = "logout" /\ task[t].reply = "granted"
    BY <1>3 DEF HeadArrives, BringsCookie
  <2>2. shared' = shared /\ taken' = (taken \/ cookie \notin {Nobody, task[t].sent})
    BY <1>3 DEF HeadArrives
  <2>3. QED
    BY <1>1, <1>3, <2>1, <2>2 DEF HeadArrives, Heads, api, store
<1>4. QED
  BY <1>2, <1>3

\* An answer signs the panel in, and its action goes on to load the trail.
GoesIn(t) ==
  /\ Replied(task[t]) /\ task[t].reply = "granted"
  /\ task' = [task EXCEPT ![t] = Asking(task[t].does, "audit", Nobody, cookie)]
  /\ status' = "signedIn"
  /\ \/ task[t].call = "me" /\ user' = holder[task[t].sent]
     \/ task[t].call = "login" /\ task[t].stage = "arrived" /\ user' = task[t].for
  /\ UNCHANGED <<sess, holder, cookie, shared, taken, loads, submitting, notice, audit>>

\* Nobody waits for t any more; it leaves the panel as it was, but for the
\* audit trail, or leaves it signed out.
Ends(t) ==
  /\ Waiting(task[t])
  /\ \E r \in {Nothing, Adrift(task[t])} : task' = [task EXCEPT ![t] = r]
  /\ submitting' \in BOOLEAN /\ audit' \in BOOLEAN /\ notice' \in BOOLEAN
  /\ task[t].does # "signIn" => submitting' = submitting
  /\ \/ UNCHANGED <<status, user>>
     \/ /\ status' = "signedOut" /\ user' \in {user, Nobody}
        /\ \/ task[t].call \in {"me", "logout"}
           \/ /\ task[t].call = "audit" /\ Replied(task[t]) /\ task[t].reply = "refused"
              /\ notice' = TRUE
  /\ UNCHANGED <<sess, holder, cookie, shared, taken, loads>>

LEMMA FinallyIs ==
  ASSUME TypeOK, NEW t \in Task, Finally(t)
  PROVE  submitting' \in BOOLEAN /\ (task[t].does # "signIn" => submitting' = submitting)
<1>1. submitting \in BOOLEAN
  BY DEF TypeOK
<1>2. QED
  BY <1>1, Zenon DEF Finally

\* A call that throws leaves a signed-in panel alone, unless it is a sign-out.
LEMMA ThrowsIs ==
  ASSUME TypeOK, NEW t \in Task, Throws(t)
  PROVE  /\ submitting' \in BOOLEAN /\ audit' \in BOOLEAN /\ notice' \in BOOLEAN
         /\ task[t].does # "signIn" => submitting' = submitting
         /\ \/ task[t].call \notin {"me", "logout"} /\ UNCHANGED <<status, user>>
            \/ /\ task[t].call \in {"me", "logout"}
               /\ status' = "signedOut" /\ user' \in {user, Nobody}
<1>1. Finally(t) /\ audit \in BOOLEAN /\ notice \in BOOLEAN
  BY DEF Throws, TypeOK
<1>2. submitting' \in BOOLEAN /\ (task[t].does # "signIn" => submitting' = submitting)
  BY <1>1, FinallyIs
<1>3. CASE task[t].call = "me"
  <2>1. status' = "signedOut" /\ user' = user /\ audit' = audit /\ notice' = notice
    BY <1>3 DEF Throws
  <2>2. QED
    BY <1>1, <1>2, <1>3, <2>1
<1>4. CASE task[t].call = "logout"
  <2>1. status' = "signedOut" /\ user' = Nobody /\ audit' = FALSE /\ notice' = FALSE
    BY <1>4 DEF Throws, ClearLocally
  <2>2. QED
    BY <1>2, <1>4, <2>1
<1>5. CASE task[t].call \notin {"me", "logout"}
  <2>1. status' = status /\ user' = user /\ audit' = audit /\ notice' = notice
    BY <1>5 DEF Throws
  <2>2. QED
    BY <1>1, <1>2, <1>5, <2>1
<1>6. QED
  BY <1>3, <1>4, <1>5

LEMMA SettleIs ==
  ASSUME TypeOK, Records, NEW t \in Task, Settle(t)
  PROVE  Heads(t) \/ GoesIn(t) \/ Ends(t)
<1> SUFFICES ASSUME Answered(t) \/ GiveUp(t) PROVE GoesIn(t) \/ Ends(t)
  BY HeadArrivesIs DEF Settle
<1>1. Waiting(task[t]) /\ UNCHANGED <<sess, holder, cookie, shared, taken, loads>>
  BY DEF Answered, GiveUp, Waiting, api, jar
<1>2. submitting \in BOOLEAN /\ audit \in BOOLEAN /\ notice \in BOOLEAN
  BY DEF TypeOK
<1>3. /\ task[t].call = "me" => task[t].does = "resume"
      /\ task[t].call = "logout" => task[t].does = "signOut"
      /\ task[t].made # Nobody => task[t].call = "login"
  BY <1>1 DEF Records, Sound
<1>4. \A r : task' = [task EXCEPT ![t] = r] /\ r \in {Nothing, Adrift(task[t])}
        => \E q \in {Nothing, Adrift(task[t])} : task' = [task EXCEPT ![t] = q]
  OBVIOUS
<1>5. Over(t) => \E q \in {Nothing, Adrift(task[t])} : task' = [task EXCEPT ![t] = q]
  BY <1>4 DEF Over
<1>6. CASE GiveUp(t)
  <2>1. Throws(t) /\ task' = [task EXCEPT ![t] = Forsaken(task[t])]
    BY <1>6 DEF GiveUp, TypeOK
  <2>2. \E q \in {Nothing, Adrift(task[t])} : task' = [task EXCEPT ![t] = q]
    BY <1>4, <2>1, ForsakenIs
  <2>3. QED
    BY <1>1, <2>1, <2>2, ThrowsIs DEF Ends
<1>7. CASE Answered(t)
  <2>1. /\ Replied(task[t])
        /\ task[t].made # Nobody => task[t].stage = "arrived"
    BY <1>7 DEF Answered, BringsCookie, Replied
  <2>2. CASE ResumeAnswered(t)
    <3>1. CASE task[t].reply = "granted" /\ GoesOn(t) /\ status' = "signedIn" /\ user' = holder[task[t].sent]
      BY <1>1, <2>1, <2>2, <3>1 DEF ResumeAnswered, GoesOn, GoesIn, TypeOK
    <3>2. CASE user' = Nobody /\ status' = "signedOut" /\ Over(t)
      BY <1>1, <1>2, <1>3, <1>5, <2>2, <3>2 DEF ResumeAnswered, Ends
    <3>3. QED
      BY <2>2, <3>1, <3>2 DEF ResumeAnswered
  <2>3. CASE SignInAnswered(t)
    <3>1. task[t].made # Nobody
      BY <1>1, <2>1, <2>3 DEF SignInAnswered, Records, Sound
    <3>2. QED
      BY <1>1, <2>1, <2>3, <3>1 DEF SignInAnswered, GoesOn, GoesIn, TypeOK
  <2>4. CASE SignOutAnswered(t)
    BY <1>1, <1>2, <1>3, <1>5, <2>4 DEF SignOutAnswered, ClearLocally, Ends
  <2>5. CASE AuditAnswered(t)
    <3>1. Finally(t) /\ Over(t) /\ task[t].call = "audit"
      BY <2>5 DEF AuditAnswered
    <3>2. submitting' \in BOOLEAN /\ (task[t].does # "signIn" => submitting' = submitting)
      BY <3>1, FinallyIs
    <3>3. CASE audit' = TRUE /\ UNCHANGED <<status, user, notice>>
      BY <1>1, <1>2, <1>5, <3>1, <3>2, <3>3 DEF Ends
    <3>4. CASE SessionExpired(t) /\ user' = Nobody /\ audit' = FALSE /\ status' = "signedOut" /\ notice' = TRUE
      BY <1>1, <1>5, <2>1, <3>1, <3>2, <3>4 DEF Ends, SessionExpired
    <3>5. QED
      BY <2>5, <3>3, <3>4 DEF AuditAnswered
  <2>6. CASE Failed(t)
    <3>1. Throws(t) /\ Over(t)
      BY <2>6 DEF Failed
    <3>2. QED
      BY <1>1, <1>5, <3>1, ThrowsIs DEF Ends
  <2>7. QED
    BY <1>7, <2>2, <2>3, <2>4, <2>5, <2>6 DEF Answered
<1>8. QED
  BY <1>6, <1>7 DEF Settle

\* The world changes the cookie and sessions, and no record and no field of
\* the store.
Aside ==
  /\ SessionTypes' /\ cookie' \in Session \cup {Nobody}
  /\ \/ shared' = TRUE
     \/ /\ shared' = shared
        /\ \/ cookie' = cookie
           \/ cookie # Nobody /\ cookie' = Nobody /\ sess'[cookie] = "ended"
  /\ cookie' # Nobody => cookie' = cookie \/ sess'[cookie'] # "none"
  /\ UNCHANGED <<task, taken, loads, status, user, submitting, notice, audit>>

LEMMA WorldIs ==
  ASSUME TypeOK, World \/ UNCHANGED vars
  PROVE  Aside
<1>1. SessionTypes /\ cookie \in Session \cup {Nobody}
  BY DEF TypeOK, SessionTypes
<1>2. CASE UNCHANGED vars
  BY <1>1, <1>2 DEF vars, api, jar, store, Aside, SessionTypes
<1>3. ASSUME NEW s \in Session, End(s) PROVE Aside
  <2>1. cookie' = cookie \/ (cookie = s /\ cookie' = Nobody)
    BY <1>3 DEF End
  <2>2. sess' \in [Session -> {"none", "live", "ended"}] /\ sess'[s] = "ended" /\ holder' = holder
    BY <1>1, <1>3 DEF End, SessionTypes
  <2>3. QED
    BY <1>1, <1>3, <2>1, <2>2, NobodyIs DEF End, Aside, SessionTypes, store
<1>4. CASE OtherPage
  <2>1. shared' = TRUE /\ UNCHANGED <<task, taken, loads, status, user, submitting, notice, audit>>
    BY <1>4 DEF OtherPage, store
  <2>2. ASSUME NEW s \in Session, NEW u \in User,
               sess' = [sess EXCEPT ![s] = "live"], holder' = [holder EXCEPT ![s] = u], cookie' = s
        PROVE  Aside
    BY <1>1, <2>1, <2>2 DEF Aside, SessionTypes
  <2>3. CASE Live(cookie) /\ sess' = [sess EXCEPT ![cookie] = "ended"] /\ cookie' = Nobody /\ UNCHANGED holder
    BY <1>1, <2>1, <2>3 DEF Aside, SessionTypes
  <2>4. QED
    BY <1>4, <2>2, <2>3 DEF OtherPage
<1>5. QED
  BY <1>2, <1>3, <1>4 DEF World

\* Every step is one of these.
LEMMA StepIs ==
  ASSUME TypeOK, Records, [Next]_vars
  PROVE  \/ \E t \in Task : Loads(t) \/ Serves(t) \/ Heads(t) \/ GoesIn(t) \/ Ends(t)
         \/ \E t \in Task, does \in Dids, call \in Calls, who \in User \cup {Nobody} :
              Begins(t, does, call, who)
         \/ Aside
<1>1. CASE Load
  BY <1>1, LoadIs
<1>2. CASE SignOut \/ Refresh \/ \E u \in User : SignIn(u)
  BY <1>2, BeginIs
<1>3. CASE Api
  BY <1>3, ApiIs
<1>4. CASE \E t \in Task : Settle(t)
  BY <1>4, SettleIs
<1>5. CASE World \/ UNCHANGED vars
  BY <1>5, WorldIs
<1>6. QED
  BY <1>1, <1>2, <1>3, <1>4, <1>5 DEF Next

-----------------------------------------------------------------------------
(* Types, and the records one by one *)

LEMMA TypesAre ==
  TypeOK <=> /\ SessionTypes
             /\ cookie \in Session \cup {Nobody} /\ loads \in 0 .. MaxLoads
             /\ status \in {"unknown", "signedOut", "signedIn"} /\ user \in User \cup {Nobody}
             /\ submitting \in BOOLEAN /\ notice \in BOOLEAN
             /\ audit \in BOOLEAN /\ shared \in BOOLEAN /\ taken \in BOOLEAN
             /\ task \in [Task -> TaskRecord]
BY DEF TypeOK, SessionTypes

\* A task that goes on after signing in asks with what the browser then has.
LEMMA GoesInIs ==
  ASSUME TypeOK, Records, NEW t \in Task, GoesIn(t)
  PROVE  /\ user' \in User \cup {Nobody}
         /\ task'[t] \in TaskRecord
         /\ task'[t].does = task[t].does /\ task'[t].call = "audit" /\ task'[t].stage = "asked"
         /\ task'[t].sent = cookie' /\ task'[t].made = Nobody
         /\ task[t].call = "me" => task[t].does = "resume" /\ task[t].sent # Nobody
         /\ task[t].call = "login" => task[t].does = "signIn" /\ task[t].made # Nobody
<1>1. SessionTypes /\ cookie \in Session \cup {Nobody} /\ task \in [Task -> TaskRecord]
  BY TypesAre
<1>2. /\ task[t].does \in Dids /\ task[t].made \in Session \cup {Nobody}
      /\ task[t].sent \in Session \cup {Nobody} /\ task[t].for \in User \cup {Nobody}
  BY <1>1 DEF TaskRecord, Dids
<1>3. /\ task[t].call = "me" => task[t].does = "resume" /\ task[t].sent # Nobody
      /\ task[t].call = "login" => task[t].does = "signIn" /\ task[t].made # Nobody
  BY DEF Records, Sound, Waiting, Replied, GoesIn
<1>4. user' \in User \cup {Nobody}
  BY <1>1, <1>2, <1>3 DEF GoesIn, SessionTypes
<1>5. task'[t] = Asking(task[t].does, "audit", Nobody, cookie)
  BY <1>1 DEF GoesIn
<1>6. cookie' = cookie
  BY DEF GoesIn
<1>7. task[t].does \in Dids /\ cookie \in Session \cup {Nobody}
  BY <1>1, <1>2
<1>8. task'[t] \in TaskRecord
  BY <1>5, <1>7, AuditIs
<1>9. task'[t].does = task[t].does /\ task'[t].call = "audit" /\ task'[t].stage = "asked"
  BY <1>5, <1>7, AuditIs
<1>10. task'[t].sent = cookie /\ task'[t].made = Nobody
  BY <1>5, <1>7, AuditIs
<1>11. task'[t].sent = cookie'
  BY <1>6, <1>10
<1>12. QED
  BY <1>3, <1>4, <1>8, <1>9, <1>10, <1>11

LEMMA TypeStep == TypeOK /\ Records /\ [Next]_vars => TypeOK'
<1> SUFFICES ASSUME TypeOK, Records, [Next]_vars PROVE TypeOK'
  OBVIOUS
<1>1. /\ SessionTypes /\ cookie \in Session \cup {Nobody} /\ loads \in 0 .. MaxLoads
      /\ status \in {"unknown", "signedOut", "signedIn"} /\ user \in User \cup {Nobody}
      /\ submitting \in BOOLEAN /\ notice \in BOOLEAN /\ audit \in BOOLEAN
      /\ shared \in BOOLEAN /\ taken \in BOOLEAN
      /\ task \in [Task -> TaskRecord]
  BY TypesAre
<1> SUFFICES
      /\ SessionTypes' /\ cookie' \in Session \cup {Nobody} /\ loads' \in 0 .. MaxLoads
      /\ status' \in {"unknown", "signedOut", "signedIn"} /\ user' \in User \cup {Nobody}
      /\ submitting' \in BOOLEAN /\ notice' \in BOOLEAN /\ audit' \in BOOLEAN
      /\ shared' \in BOOLEAN /\ taken' \in BOOLEAN
      /\ task' \in [Task -> TaskRecord]
  BY DEF TypeOK, SessionTypes
<1>2. ASSUME NEW t \in Task, Loads(t) PROVE SessionTypes' /\ task' \in [Task -> TaskRecord]
  BY <1>1, <1>2 DEF Loads, SessionTypes
<1>3. CASE \E t \in Task : Loads(t)
  BY <1>1, <1>2, <1>3 DEF Loads
<1>4. ASSUME NEW t \in Task, NEW does \in Dids, NEW call \in Calls,
             NEW who \in User \cup {Nobody}, Begins(t, does, call, who)
      PROVE  /\ SessionTypes' /\ task' \in [Task -> TaskRecord]
             /\ submitting' \in BOOLEAN /\ notice' \in BOOLEAN
  <2>1. Asking(does, call, who, Carried(call)) \in TaskRecord
    BY <1>1, AskingIs DEF Carried
  <2>2. SessionTypes' /\ task' \in [Task -> TaskRecord]
    BY <1>1, <1>4, <2>1 DEF Begins, SessionTypes
  <2>3. submitting' \in BOOLEAN /\ notice' \in BOOLEAN
    BY <1>1, <1>4 DEF Begins
  <2>4. QED
    BY <2>2, <2>3
<1>5. CASE \E t \in Task, does \in Dids, call \in Calls, who \in User \cup {Nobody} :
             Begins(t, does, call, who)
  <2>1. UNCHANGED <<cookie, shared, taken, loads, status, user, audit>>
    BY <1>5 DEF Begins
  <2>2. QED
    BY <1>1, <1>4, <1>5, <2>1
<1>6. CASE \E t \in Task : Serves(t)
  BY <1>1, <1>6 DEF Serves
<1>7. CASE \E t \in Task : GoesIn(t)
  <2>1. PICK t \in Task : GoesIn(t)
    BY <1>7
  <2>2. user' \in User \cup {Nobody} /\ task'[t] \in TaskRecord
    BY <2>1, GoesInIs
  <2>3. task' \in [Task -> TaskRecord]
    BY <1>1, <2>1, <2>2 DEF GoesIn
  <2>4. QED
    BY <1>1, <2>1, <2>2, <2>3 DEF GoesIn, SessionTypes
<1>8. CASE \E t \in Task : Ends(t)
  <2>1. PICK t \in Task : Ends(t)
    BY <1>8
  <2>2. task[t] \in TaskRecord
    BY <1>1
  <2>3. PICK r \in {Nothing, Adrift(task[t])} : task' = [task EXCEPT ![t] = r]
    BY <2>1 DEF Ends
  <2>4. r \in TaskRecord
    BY <2>2, <2>3, NothingIs, AdriftIs
  <2>5. task' \in [Task -> TaskRecord]
    BY <1>1, <2>3, <2>4
  <2>6. user' \in User \cup {Nobody} /\ status' \in {"unknown", "signedOut", "signedIn"}
    BY <1>1, <2>1, <2>2 DEF Ends
  <2>7. QED
    BY <1>1, <2>1, <2>5, <2>6 DEF Ends, SessionTypes
<1>9. CASE Aside
  BY <1>1, <1>9 DEF Aside
<1>10. CASE \E t \in Task : Heads(t)
  <2>1. PICK t \in Task : Heads(t)
    BY <1>10
  <2>2. task[t].made \in Session \cup {Nobody} /\ Head(task[t]) \in TaskRecord
    BY <1>1, HeadIs DEF TaskRecord
  <2>3. task' \in [Task -> TaskRecord]
    BY <1>1, <2>1, <2>2 DEF Heads
  <2>4. cookie' \in Session \cup {Nobody} /\ shared' \in BOOLEAN
    BY <1>1, <2>1, <2>2 DEF Heads
  <2>5. taken' \in BOOLEAN
    BY <1>1, <2>1 DEF Heads
  <2>6. QED
    BY <1>1, <2>1, <2>3, <2>4, <2>5 DEF Heads, SessionTypes
<1>11. QED
  BY <1>3, <1>5, <1>6, <1>7, <1>8, <1>9, <1>10, StepIs

\* How one record may change: an action begins, is answered, goes on, or is
\* no longer waited for.
Changes(x) ==
  \/ Kept(x)
  \/ /\ task'[x].stage = "asked" /\ task'[x].made = Nobody /\ task'[x].sent \in {cookie', Nobody}
     /\ \/ <<task'[x].does, task'[x].call>> \in
              {<<"resume", "me">>, <<"signIn", "login">>, <<"signOut", "logout">>}
        \/ task'[x].call = "audit"
  \/ /\ task[x].stage = "asked" /\ cookie' = cookie
     /\ \E reply \in Replies, made \in Session \cup {Nobody} :
          task'[x] = With(task[x], reply, made) /\ Tells(task[x], reply, made)
  \/ /\ task[x].stage = "answered" /\ task'[x] = Head(task[x])
     /\ task[x].call = "login" => task[x].made # Nobody

LEMMA ChangesStep ==
  ASSUME TypeOK, Records, [Next]_vars
  PROVE  \A x \in Task : Changes(x)
<1>1. cookie \in Session \cup {Nobody} /\ task \in [Task -> TaskRecord]
  BY TypesAre
<1>2. ASSUME NEW t \in Task, Loads(t) PROVE \A x \in Task : Changes(x)
  <2>1. "resume" \in Dids /\ "me" \in Calls
    BY DEF Dids, Calls
  <2>2. Changes(t)
    BY <1>1, <1>2, <2>1, AskingIs DEF Loads, Changes
  <2>3. QED
    BY <1>2, <2>2 DEF Loads, Changes
<1>3. ASSUME NEW t \in Task, NEW does \in Dids, NEW call \in Calls,
             NEW who \in User \cup {Nobody}, Begins(t, does, call, who)
      PROVE  \A x \in Task : Changes(x)
  <2>1. task'[t] = Asking(does, call, who, Carried(call)) /\ cookie' = cookie
    BY <1>1, <1>3 DEF Begins
  <2>2. Changes(t)
    BY <1>1, <1>3, <2>1, AskingIs DEF Begins, Carried, Changes
  <2>3. \A x \in Task \ {t} : Kept(x)
    BY <1>1, <1>3 DEF Begins, Kept
  <2>4. QED
    BY <2>2, <2>3 DEF Changes
<1>4. ASSUME NEW t \in Task, Serves(t) PROVE \A x \in Task : Changes(x)
  BY <1>1, <1>4 DEF Serves, Changes, Kept
<1>5. ASSUME NEW t \in Task, GoesIn(t) PROVE \A x \in Task : Changes(x)
  BY <1>1, <1>5, GoesInIs DEF GoesIn, Changes, Kept
<1>6. ASSUME NEW t \in Task, Ends(t) PROVE \A x \in Task : Changes(x)
  BY <1>1, <1>6 DEF Ends, Changes, Kept
<1>7. CASE Aside
  BY <1>7 DEF Aside, Changes, Kept
<1>8. ASSUME NEW t \in Task, Heads(t) PROVE \A x \in Task : Changes(x)
  BY <1>1, <1>8 DEF Heads, Changes, Kept
<1>9. QED
  BY <1>2, <1>3, <1>4, <1>5, <1>6, <1>7, <1>8, StepIs

LEMMA RecordsStep == TypeOK /\ Records /\ [Next]_vars => Records'
<1> SUFFICES ASSUME TypeOK, Records, [Next]_vars, NEW x \in Task PROVE Sound(task'[x])
  BY DEF Records
<1>1. Changes(x) /\ task[x] \in TaskRecord /\ Sound(task[x])
  BY ChangesStep, TypesAre DEF Records
<1>2. CASE Kept(x)
  BY <1>1, <1>2, KeptIs DEF Sound
<1>3. ASSUME NEW reply \in Replies, NEW made \in Session \cup {Nobody},
             task'[x] = With(task[x], reply, made), Tells(task[x], reply, made),
             task[x].stage = "asked"
      PROVE  Sound(task'[x])
  <2>1. /\ task'[x].does = task[x].does /\ task'[x].call = task[x].call
        /\ task'[x].sent = task[x].sent
        /\ task'[x].stage = "answered" /\ task'[x].reply = reply /\ task'[x].made = made
    BY <1>1, <1>3, WithIs DEF Replies
  <2>2. /\ made # Nobody => task[x].call = "login"
        /\ task[x].call = "login" /\ reply = "granted" => made # Nobody
        /\ task[x].call = "me" /\ reply = "granted" => task[x].sent # Nobody
    BY <1>3 DEF Tells
  <2>3. QED
    BY <1>1, <1>3, <2>1, <2>2 DEF Sound, Waiting, Replied
<1>4. CASE /\ task'[x].stage = "asked" /\ task'[x].made = Nobody
           /\ \/ <<task'[x].does, task'[x].call>> \in
                    {<<"resume", "me">>, <<"signIn", "login">>, <<"signOut", "logout">>}
              \/ task'[x].call = "audit"
  BY <1>4 DEF Sound, Replied
<1>5. CASE /\ task[x].stage = "answered" /\ task'[x] = Head(task[x])
           /\ task[x].call = "login" => task[x].made # Nobody
  BY <1>1, <1>5, HeadIs DEF Sound, Waiting, Replied
<1>6. QED
  BY <1>1, <1>2, <1>3, <1>4, <1>5 DEF Changes

-----------------------------------------------------------------------------
(* What the answers say stays true *)

LEMMA MadeStep == TypeOK /\ Records /\ Made /\ [Next]_vars => Made'
<1> SUFFICES ASSUME TypeOK, Records, Made, [Next]_vars PROVE Made'
  OBVIOUS
<1>1. Grows
  BY GrowsStep
<1>2. SessionTypes /\ cookie \in Session \cup {Nobody} /\ task \in [Task -> TaskRecord]
  BY TypesAre
<1>3. SessionTypes' /\ cookie' \in Session \cup {Nobody}
  BY TypeStep DEF TypeOK, SessionTypes
<1>4. \A x \in Task : task[x].sent \in Session \cup {Nobody} /\ task[x].made \in Session \cup {Nobody}
  BY <1>2 DEF TaskRecord
<1>5. \A x \in Task : task[x].made # Nobody => sess'[task[x].made] # "none"
  BY <1>1, <1>4 DEF Grows, Made, Backed
<1>6. cookie' # Nobody => sess'[cookie'] # "none"
  <2>1. cookie # Nobody => sess'[cookie] # "none"
    BY <1>1, <1>2 DEF Grows, Made
  <2>2. \/ cookie' = cookie \/ cookie' = Nobody
        \/ \E t \in Task : cookie' = task[t].made
        \/ sess'[cookie'] # "none"
    BY StepIs DEF Loads, Serves, Heads, GoesIn, Ends, Begins, Aside
  <2>3. QED
    BY <1>5, <2>1, <2>2
<1>7. ASSUME NEW x \in Task PROVE Backed(task[x])'
  <2>1. Changes(x) /\ Backed(task[x]) /\ task[x] \in TaskRecord
    BY <1>2, ChangesStep DEF Made
  <2> DEFINE Fine(r) ==
        /\ r.sent # Nobody => sess'[r.sent] # "none"
        /\ r.made # Nobody => sess'[r.made] # "none" /\ holder'[r.made] = r.for
        /\ Replied(r) /\ r.call = "audit" /\ r.reply = "refused"
             => r.sent = Nobody \/ sess'[r.sent] # "live"
        /\ Replied(r) /\ r.call = "logout" /\ r.reply = "granted" /\ r.sent # Nobody
             => sess'[r.sent] = "ended"
  <2>2. SUFFICES Fine(task'[x])
    BY DEF Backed, Live, Replied
  <2>3. Fine(task[x])
    <3>1. /\ task[x].sent # Nobody => sess'[task[x].sent] # "none"
          /\ task[x].made # Nobody =>
               sess'[task[x].made] # "none" /\ holder'[task[x].made] = task[x].for
      BY <1>1, <1>4, <2>1 DEF Grows, Backed
    <3>2. Replied(task[x]) /\ task[x].call = "audit" /\ task[x].reply = "refused"
            => task[x].sent = Nobody \/ sess'[task[x].sent] # "live"
      BY <1>1, <1>2, <1>4, <2>1 DEF Grows, Backed, Live, SessionTypes
    <3>3. ASSUME Replied(task[x]), task[x].call = "logout",
                 task[x].reply = "granted", task[x].sent # Nobody
          PROVE  sess'[task[x].sent] = "ended"
      <4>1. task[x].sent \in Session /\ sess[task[x].sent] = "ended"
        BY <1>4, <2>1, <3>3 DEF Backed
      <4>2. QED
        BY <1>1, <4>1 DEF Grows
    <3>4. QED
      BY <3>1, <3>2, <3>3
  <2>4. CASE task'[x] = task[x]
    BY <2>3, <2>4
  <2>5. CASE task'[x] = Nothing
    BY <2>5, NothingIs DEF Replied
  <2>6. CASE task'[x] = Adrift(task[x])
    BY <2>1, <2>3, <2>6, AdriftIs DEF Replied
  <2>7. CASE /\ task'[x].stage = "asked" /\ task'[x].made = Nobody
             /\ task'[x].sent \in {cookie', Nobody}
    BY <1>6, <2>7 DEF Replied
  <2>8. ASSUME NEW reply \in Replies, NEW made \in Session \cup {Nobody},
               task'[x] = With(task[x], reply, made), Tells(task[x], reply, made)
        PROVE  Fine(task'[x])
    <3>1. /\ task'[x].call = task[x].call /\ task'[x].reply = reply /\ task'[x].made = made
          /\ task'[x].sent = task[x].sent /\ task'[x].for = task[x].for
      BY <2>1, <2>8, WithIs DEF Replies
    <3>2. QED
      BY <2>3, <2>8, <3>1 DEF Tells
  <2>9. CASE task[x].stage = "answered" /\ task'[x] = Head(task[x])
    BY <2>1, <2>3, <2>9, HeadIs DEF Replied
  <2>10. QED
    BY <2>1, <2>4, <2>5, <2>6, <2>7, <2>8, <2>9 DEF Changes, Kept
<1>8. QED
  BY <1>6, <1>7 DEF Made

-----------------------------------------------------------------------------
(* Whose turn it is *)

\* The actions waited for are among those waited for before, and the same.
Fewer == \A x \in Task : Waiting(task'[x]) =>
           /\ Waiting(task[x])
           /\ task'[x].does = task[x].does /\ task'[x].call = task[x].call
           /\ task'[x].sent = task[x].sent

\* The same of all tasks but t.
FewerBut(t) == \A x \in Task \ {t} : Waiting(task'[x]) =>
                 Waiting(task[x]) /\ task'[x] = task[x]

LEMMA ServesIs ==
  ASSUME TypeOK, NEW t \in Task, Serves(t)
  PROVE  Fewer
<1>1. task \in [Task -> TaskRecord] /\ task[t] \in TaskRecord
  BY TypesAre
<1>2. PICK r \in TaskRecord :
        /\ task' = [task EXCEPT ![t] = r]
        /\ \/ r = Nothing
           \/ \E reply \in Replies, made \in Session \cup {Nobody} :
                task[t].stage = "asked" /\ r = With(task[t], reply, made)
  BY DEF Serves
<1>3. Waiting(r) => /\ Waiting(task[t])
                    /\ r.does = task[t].does /\ r.call = task[t].call /\ r.sent = task[t].sent
  <2>1. CASE r = Nothing
    BY <2>1, NothingIs
  <2>2. ASSUME NEW reply \in Replies, NEW made \in Session \cup {Nobody},
               task[t].stage = "asked", r = With(task[t], reply, made)
        PROVE  /\ Waiting(task[t])
               /\ r.does = task[t].does /\ r.call = task[t].call /\ r.sent = task[t].sent
    BY <1>1, <2>2, WithIs DEF Waiting, Replies
  <2>3. QED
    BY <1>2, <2>1, <2>2
<1>4. QED
  BY <1>1, <1>2, <1>3 DEF Fewer

LEMMA HeadsIs ==
  ASSUME TypeOK, NEW t \in Task, Heads(t)
  PROVE  Fewer
<1>1. task \in [Task -> TaskRecord] /\ task[t] \in TaskRecord
  BY TypesAre
<1>2. \A x \in Task : task'[x] = IF x = t THEN Head(task[t]) ELSE task[x]
  BY <1>1 DEF Heads
<1>3. Waiting(task[t])
  BY DEF Heads, Waiting
<1>4. QED
  BY <1>1, <1>2, <1>3, HeadIs DEF Fewer

LEMMA EndsIs ==
  ASSUME TypeOK, NEW t \in Task, Ends(t)
  PROVE  ~Waiting(task'[t]) /\ FewerBut(t)
<1>1. task \in [Task -> TaskRecord] /\ task[t] \in TaskRecord
  BY TypesAre
<1>2. PICK r \in {Nothing, Adrift(task[t])} : task' = [task EXCEPT ![t] = r]
  BY DEF Ends
<1>3. QED
  BY <1>1, <1>2, NothingIs, AdriftIs DEF FewerBut

LEMMA TurnsStep == TypeOK /\ Records /\ Turns /\ [Next]_vars => Turns'
<1> SUFFICES ASSUME TypeOK, Records, Turns, [Next]_vars PROVE Turns'
  OBVIOUS
<1>1. task \in [Task -> TaskRecord] /\ cookie \in Session \cup {Nobody}
  BY TypesAre
<1>2. ASSUME Fewer, UNCHANGED <<status, submitting>> PROVE Turns'
  BY <1>2 DEF Fewer, Turns
<1>3. ASSUME NEW t \in Task, Loads(t) PROVE Turns'
  <2>1. "resume" \in Dids /\ "me" \in Calls
    BY DEF Dids, Calls
  <2>2. task'[t].does = "resume" /\ task'[t].call = "me" /\ status' = "unknown"
    BY <1>1, <1>3, <2>1, AskingIs DEF Loads
  <2>3. \A x \in Task : Waiting(task'[x]) => x = t
    BY <1>3 DEF Loads
  <2>4. QED
    BY <2>2, <2>3 DEF Turns
<1>4. ASSUME NEW t \in Task, NEW does \in Dids, NEW call \in Calls,
             NEW who \in User \cup {Nobody}, Begins(t, does, call, who)
      PROVE  Turns'
  <2>1. task'[t].does = does /\ task'[t].call = call
    BY <1>1, <1>4, AskingIs DEF Begins, Carried
  <2>2. FewerBut(t) /\ status' = status
    BY <1>1, <1>4 DEF Begins, FewerBut
  <2>3. CASE /\ does = "signIn" /\ call = "login" /\ status = "signedOut"
             /\ ~submitting /\ submitting'
    <3>1. \A x \in Task \ {t} : Waiting(task'[x]) =>
            task'[x].does # "signIn" /\ task'[x].call # "me"
      BY <2>2, <2>3 DEF FewerBut, Turns
    <3>2. QED
      BY <2>1, <2>2, <2>3, <3>1 DEF Turns
  <2>4. CASE /\ does # "signIn" /\ call \notin {"me", "login"} /\ status = "signedIn"
             /\ submitting' = submitting
    <3>1. \A x \in Task \ {t} : Waiting(task'[x]) => Waiting(task[x]) /\ task'[x] = task[x]
      BY <2>2 DEF FewerBut
    <3>2. QED
      BY <2>1, <2>2, <2>4, <3>1 DEF Turns
  <2>5. QED
    BY <1>4, <2>3, <2>4 DEF Begins
<1>5. ASSUME NEW t \in Task, Serves(t) PROVE Turns'
  BY <1>2, <1>5, ServesIs DEF Serves
<1>6. ASSUME NEW t \in Task, GoesIn(t) PROVE Turns'
  <2>1. /\ task'[t].does = task[t].does /\ task'[t].call = "audit"
        /\ task[t].call = "me" => task[t].does = "resume"
        /\ task[t].call = "login" => task[t].does = "signIn"
    BY <1>6, GoesInIs
  <2>2. /\ Waiting(task[t]) /\ task[t].call \in {"me", "login"}
        /\ status' = "signedIn" /\ submitting' = submitting
    BY <1>6 DEF GoesIn, Waiting, Replied
  <2>3. \A x \in Task \ {t} : task'[x] = task[x]
    BY <1>1, <1>6 DEF GoesIn
  <2>4. ASSUME NEW x \in Task \ {t}, Waiting(task[x])
        PROVE  task[x].call # "me" /\ task[x].call # "login"
    <3>1. task[x].call = "login" => task[x].does = "signIn"
      BY <2>4 DEF Records, Sound
    <3>2. QED
      BY <2>1, <2>2, <2>4, <3>1 DEF Turns
  <2>5. QED
    BY <2>1, <2>2, <2>3, <2>4 DEF Turns
<1>7. ASSUME NEW t \in Task, Ends(t) PROVE Turns'
  <2>1. ~Waiting(task'[t]) /\ Waiting(task[t]) /\ FewerBut(t)
    BY <1>7, EndsIs DEF Ends
  <2>2. /\ task[t].does # "signIn" => submitting' = submitting
        /\ status' = status \/ (status' = "signedOut" /\ task[t].call \in {"me", "logout", "audit"})
    BY <1>7 DEF Ends
  <2>3. status' # status => status' = "signedOut"
    BY <2>2
  <2>4. ASSUME NEW x \in Task, Waiting(task'[x])
        PROVE  x # t /\ Waiting(task[x]) /\ task'[x] = task[x]
    BY <2>1, <2>4 DEF FewerBut
  <2>5. ASSUME NEW x \in Task, Waiting(task'[x])
        PROVE  /\ status # "unknown"
               /\ task[x].does = "signIn" => submitting'
               /\ task[x].call = "me" => FALSE
               /\ task[x].call = "login" => status = "signedOut"
    BY <2>1, <2>2, <2>4, <2>5 DEF Turns
  <2>6. QED
    BY <2>3, <2>4, <2>5 DEF Turns
<1>8. CASE Aside
  BY <1>2, <1>8 DEF Aside, Fewer
<1>9. ASSUME NEW t \in Task, Heads(t) PROVE Turns'
  BY <1>2, <1>9, HeadsIs DEF Heads
<1>10. QED
  BY <1>3, <1>4, <1>5, <1>6, <1>7, <1>8, <1>9, StepIs

-----------------------------------------------------------------------------
(* Whose cookie it is *)

LEMMA ChecksStep == TypeOK /\ Records /\ Turns /\ ChecksTheCookie /\ [Next]_vars => ChecksTheCookie'
<1> SUFFICES ASSUME TypeOK, Records, Turns, ChecksTheCookie, [Next]_vars PROVE ChecksTheCookie'
  OBVIOUS
<1>1. /\ SessionTypes /\ cookie \in Session \cup {Nobody} /\ task \in [Task -> TaskRecord]
      /\ shared \in BOOLEAN /\ Grows
  BY TypesAre, GrowsStep
<1>2. \A x \in Task : task[x].sent \in Session \cup {Nobody}
  BY <1>1 DEF TaskRecord
<1>3. \A x \in Task : task[x].sent # Nobody /\ sess[task[x].sent] = "ended"
                       => sess'[task[x].sent] = "ended"
  BY <1>1, <1>2 DEF Grows
<1>4. ASSUME NEW t \in Task, Loads(t) PROVE ChecksTheCookie'
  <2>1. "resume" \in Dids /\ "me" \in Calls
    BY DEF Dids, Calls
  <2>2. task'[t].sent = cookie' /\ (\A x \in Task : Waiting(task'[x]) => x = t)
    BY <1>1, <1>4, <2>1, AskingIs DEF Loads
  <2>3. QED
    BY <2>2 DEF ChecksTheCookie
<1>5. CASE \E t \in Task : Serves(t)
  <2>1. Fewer /\ UNCHANGED <<status, shared, cookie>>
    BY <1>5, ServesIs DEF Serves
  <2>2. QED
    BY <1>3, <2>1 DEF Fewer, ChecksTheCookie
<1>6. CASE \E t \in Task, does \in Dids, call \in Calls, who \in User \cup {Nobody} :
             Begins(t, does, call, who)
  <2>1. status' # "unknown"
    BY <1>6 DEF Begins
  <2>2. QED
    BY <2>1 DEF ChecksTheCookie
<1>7. ASSUME NEW t \in Task, GoesIn(t) PROVE ChecksTheCookie'
  BY <1>7 DEF GoesIn, ChecksTheCookie
<1>8. ASSUME NEW t \in Task, Ends(t) PROVE ChecksTheCookie'
  <2>1. ~Waiting(task'[t]) /\ Waiting(task[t]) /\ FewerBut(t)
    BY <1>8, EndsIs DEF Ends
  <2>2. status' = status \/ status' # "unknown"
    BY <1>8 DEF Ends
  <2>3. \A x \in Task : status' = "unknown" => ~Waiting(task'[x])
    BY <2>1, <2>2 DEF FewerBut, Turns
  <2>4. QED
    BY <2>3 DEF ChecksTheCookie
<1>9. CASE Aside
  BY <1>1, <1>2, <1>3, <1>9 DEF Aside, ChecksTheCookie
<1>10. ASSUME NEW t \in Task, Heads(t) PROVE ChecksTheCookie'
  <2>1. Waiting(task[t]) /\ task[t].call # "me"
    BY <1>1, <1>10 DEF Heads, Waiting, Records, Sound
  <2>2. status' # "unknown"
    BY <1>10, <2>1 DEF Heads, Turns
  <2>3. QED
    BY <2>2 DEF ChecksTheCookie
<1>11. QED
  BY <1>4, <1>5, <1>6, <1>7, <1>8, <1>9, <1>10, StepIs

LEMMA HoldsStep ==
  TypeOK /\ Records /\ Made /\ Turns /\ HoldsTheCookie /\ [Next]_vars => HoldsTheCookie'
<1> SUFFICES ASSUME TypeOK, Records, Made, Turns, HoldsTheCookie, [Next]_vars
             PROVE  HoldsTheCookie'
  OBVIOUS
<1>1. /\ SessionTypes /\ cookie \in Session \cup {Nobody} /\ task \in [Task -> TaskRecord]
      /\ shared \in BOOLEAN /\ taken \in BOOLEAN /\ Grows
  BY TypesAre, GrowsStep
<1> DEFINE Fetched(r) == r.stage = "arrived" /\ r.call = "login"
           Holds(r) == \/ cookie = r.made
                       \/ cookie = Nobody /\ (taken \/ sess[r.made] = "ended")
           HoldsNext(r) == \/ cookie' = r.made
                           \/ cookie' = Nobody /\ (taken' \/ sess'[r.made] = "ended")
<1>2. ASSUME NEW x \in Task, Fetched(task[x]), ~shared
      PROVE  task[x].made \in Session /\ Holds(task[x])
  <2>1. task[x].made # Nobody
    BY <1>2 DEF Records, Sound, Waiting
  <2>2. task[x].made \in Session
    BY <1>1, <2>1 DEF TaskRecord
  <2>3. QED
    BY <1>2, <2>2 DEF HoldsTheCookie
<1>3. \A s \in Session : sess[s] = "ended" => sess'[s] = "ended"
  BY <1>1 DEF Grows
<1>4. \A x \in Task : Fetched(task'[x]) =>
        task'[x] = task[x] \/ (task[x].stage = "answered" /\ task'[x] = Head(task[x]))
  <2>1. SUFFICES ASSUME NEW x \in Task, Fetched(task'[x])
                 PROVE  task'[x] = task[x] \/ (task[x].stage = "answered" /\ task'[x] = Head(task[x]))
    OBVIOUS
  <2>2. Changes(x) /\ task[x] \in TaskRecord
    BY <1>1, ChangesStep
  <2>3. CASE Kept(x)
    BY <2>1, <2>3, KeptIs DEF Waiting
  <2>4. ASSUME NEW reply \in Replies, NEW made \in Session \cup {Nobody},
               task'[x] = With(task[x], reply, made)
        PROVE  FALSE
    BY <2>1, <2>2, <2>4, WithIs DEF Replies
  <2>5. QED
    BY <2>1, <2>2, <2>3, <2>4 DEF Changes
<1>5. ASSUME NEW x \in Task, Fetched(task[x]), ~shared, UNCHANGED <<cookie, taken>>
      PROVE  HoldsNext(task[x])
  BY <1>2, <1>3, <1>5
<1>6. ASSUME \A x \in Task : Fetched(task'[x]) => task'[x] = task[x],
             UNCHANGED <<cookie, shared, taken>>
      PROVE  HoldsTheCookie'
  BY <1>5, <1>6 DEF HoldsTheCookie
<1>7. ASSUME NEW t \in Task, Loads(t) PROVE HoldsTheCookie'
  <2>1. "resume" \in Dids /\ "me" \in Calls
    BY DEF Dids, Calls
  <2>2. task'[t].stage = "asked"
    BY <1>1, <1>7, <2>1, AskingIs DEF Loads
  <2>3. \A x \in Task : ~Fetched(task'[x])
    BY <1>7, <2>2 DEF Loads, Waiting
  <2>4. QED
    BY <2>3 DEF HoldsTheCookie
<1>8. ASSUME NEW t \in Task,
             \/ Serves(t) \/ GoesIn(t) \/ Ends(t)
             \/ \E does \in Dids, call \in Calls, who \in User \cup {Nobody} :
                  Begins(t, does, call, who)
      PROVE  HoldsTheCookie'
  <2>1. UNCHANGED <<cookie, shared, taken>>
    BY <1>8 DEF Serves, GoesIn, Ends, Begins
  <2>2. \A x \in Task \ {t} : task'[x] = task[x]
    BY <1>1, <1>8 DEF Serves, GoesIn, Ends, Begins
  <2>3. task'[t] # Head(task[t]) \/ task[t].stage # "answered"
    <3>1. CASE Serves(t)
      <4>1. task'[t] = Nothing \/ task[t].stage = "asked"
        BY <1>1, <3>1 DEF Serves
      <4>2. QED
        BY <1>1, <4>1, NothingIs, HeadIs
    <3>2. CASE GoesIn(t)
      BY <1>1, <3>2, GoesInIs, HeadIs
    <3>3. CASE Ends(t)
      BY <1>1, <3>3, EndsIs, HeadIs DEF Waiting
    <3>4. CASE \E does \in Dids, call \in Calls, who \in User \cup {Nobody} :
                 Begins(t, does, call, who)
      BY <3>4 DEF Begins, Waiting
    <3>5. QED
      BY <1>8, <3>1, <3>2, <3>3, <3>4
  <2>4. QED
    BY <1>4, <1>6, <2>1, <2>2, <2>3
<1>9. ASSUME NEW t \in Task, Heads(t) PROVE HoldsTheCookie'
  <2>1. /\ \A x \in Task \ {t} : task'[x] = task[x]
        /\ task'[t] = Head(task[t]) /\ task[t] \in TaskRecord
        /\ task[t].stage = "answered" /\ Waiting(task[t])
    BY <1>1, <1>9 DEF Heads, Waiting
  <2>2. task'[t].made = task[t].made /\ task'[t].call = task[t].call
    BY <2>1, HeadIs
  <2>3. CASE task[t].made # Nobody
    <3>1. cookie' = task[t].made /\ task[t].call = "login" /\ task[t].does = "signIn"
      BY <1>9, <2>1, <2>3 DEF Heads, Records, Sound
    <3>2. ASSUME NEW x \in Task \ {t} PROVE ~Fetched(task'[x])
      <4>1. SUFFICES ASSUME Fetched(task[x]) PROVE FALSE
        BY <2>1
      <4>2. Waiting(task[x]) /\ task[x].does = "signIn"
        BY <4>1 DEF Records, Sound, Waiting
      <4>3. QED
        BY <2>1, <3>1, <4>2 DEF Turns
    <3>3. QED
      BY <2>2, <3>1, <3>2 DEF HoldsTheCookie
  <2>4. CASE task[t].made = Nobody
    <3>1. /\ task[t].call = "logout" /\ task[t].reply = "granted"
          /\ cookie' = Nobody /\ shared' = shared
          /\ taken' = (taken \/ cookie \notin {Nobody, task[t].sent})
          /\ sess' = sess
      BY <1>9, <2>4 DEF Heads
    <3>2. task[t].sent # Nobody => sess'[task[t].sent] = "ended"
      BY <2>1, <3>1 DEF Made, Backed, Replied
    <3>3. ASSUME NEW x \in Task, Fetched(task'[x]), ~shared'
          PROVE  HoldsNext(task'[x])
      <4>1. x # t /\ task'[x] = task[x]
        BY <2>1, <2>2, <3>1, <3>3
      <4>2. task[x].made \in Session /\ Holds(task[x])
        BY <1>2, <3>1, <3>3, <4>1
      <4>3. CASE cookie = Nobody
        BY <3>1, <4>1, <4>2, <4>3, NobodyIs
      <4>4. CASE cookie # Nobody
        BY <3>1, <3>2, <4>1, <4>2, <4>4
      <4>5. QED
        BY <4>3, <4>4
    <3>4. QED
      BY <3>3 DEF HoldsTheCookie
  <2>5. QED
    BY <2>3, <2>4
<1>10. CASE Aside
  <2>1. UNCHANGED <<task, taken>>
    BY <1>10 DEF Aside
  <2>2. SUFFICES ASSUME NEW x \in Task, Fetched(task[x]), ~shared'
                 PROVE  HoldsNext(task[x])
    BY <2>1 DEF HoldsTheCookie
  <2>3. ~shared
    BY <1>10, <2>2 DEF Aside
  <2>4. CASE cookie' = cookie
    BY <1>5, <2>1, <2>2, <2>3, <2>4
  <2>5. CASE cookie # Nobody /\ cookie' = Nobody /\ sess'[cookie] = "ended"
    BY <1>2, <2>2, <2>3, <2>5
  <2>6. QED
    BY <1>10, <2>2, <2>4, <2>5 DEF Aside
<1>11. QED
  BY <1>7, <1>8, <1>9, <1>10, StepIs

\* The cookie is the user's, or gone for one of the two reasons.
Shown ==
  IF cookie # Nobody THEN holder[cookie] = user
  ELSE taken \/ \E s \in Session : holder[s] = user /\ sess[s] = "ended"

LEMMA ShownIs == ActsAsShown <=> (status = "signedIn" /\ ~shared => Shown)
BY DEF ActsAsShown, Shown

\* What the panel shows stays right while the panel and the cookie stay.
LEMMA StillShows ==
  ASSUME TypeOK, Made, Grows, Shown, UNCHANGED <<cookie, taken, user>>
  PROVE  Shown'
<1>1. cookie \in Session \cup {Nobody}
  BY TypesAre
<1>2. CASE cookie # Nobody
  BY <1>1, <1>2 DEF Made, Grows, Shown
<1>3. CASE cookie = Nobody /\ taken
  BY <1>3 DEF Shown
<1>4. CASE cookie = Nobody /\ ~taken
  <2>1. PICK s \in Session : holder[s] = user /\ sess[s] = "ended"
    BY <1>4 DEF Shown
  <2>2. holder'[s] = user /\ sess'[s] = "ended"
    BY <2>1 DEF Grows
  <2>3. QED
    BY <1>4, <2>2 DEF Shown
<1>5. QED
  BY <1>2, <1>3, <1>4

LEMMA ShowsStep == Inductive /\ [Next]_vars => ActsAsShown'
<1> SUFFICES ASSUME Inductive, [Next]_vars, status' = "signedIn", ~shared'
             PROVE  Shown'
  BY DEF ActsAsShown, Shown
<1>1. /\ TypeOK /\ Records /\ Made /\ Turns /\ ChecksTheCookie /\ HoldsTheCookie /\ Grows
      /\ cookie \in Session \cup {Nobody} /\ task \in [Task -> TaskRecord]
      /\ status = "signedIn" /\ ~shared => Shown
  BY TypesAre, GrowsStep, ShownIs DEF Inductive
<1>2. CASE \E t \in Task : Loads(t)
  BY <1>2 DEF Loads
<1>3. ASSUME NEW t \in Task,
             \/ Serves(t) \/ Ends(t)
             \/ \E does \in Dids, call \in Calls, who \in User \cup {Nobody} :
                  Begins(t, does, call, who)
      PROVE  Shown'
  <2>1. UNCHANGED <<status, user, cookie, shared, taken>>
    BY <1>3 DEF Serves, Ends, Begins
  <2>2. QED
    BY <1>1, <2>1, StillShows
<1>4. ASSUME NEW t \in Task, GoesIn(t) PROVE Shown'
  <2>1. /\ task[t].call = "me" => task[t].sent \in Session
        /\ task[t].call = "login" => task[t].made \in Session
    BY <1>1, <1>4, GoesInIs DEF TaskRecord
  <2>2. Waiting(task[t]) /\ UNCHANGED <<sess, holder, cookie, shared, taken>>
    BY <1>4 DEF GoesIn, Waiting, Replied
  <2>3. CASE task[t].call = "me" /\ user' = holder[task[t].sent]
    <3>1. status = "unknown" /\ ~shared
      BY <1>1, <2>2, <2>3 DEF Turns
    <3>2. \/ cookie = task[t].sent
          \/ cookie = Nobody /\ sess[task[t].sent] = "ended"
      BY <2>1, <1>1, <2>2, <2>3, <3>1, NobodyIs DEF ChecksTheCookie
    <3>3. QED
      BY <2>1, <2>2, <2>3, <3>2, NobodyIs DEF Shown
  <2>4. CASE task[t].call = "login" /\ task[t].stage = "arrived" /\ user' = task[t].for
    <3>1. holder[task[t].made] = user'
      BY <1>1, <2>1, <2>4, NobodyIs DEF Made, Backed
    <3>2. \/ cookie = task[t].made
          \/ cookie = Nobody /\ (taken \/ sess[task[t].made] = "ended")
      BY <1>1, <2>2, <2>4 DEF HoldsTheCookie
    <3>3. QED
      BY <2>1, <2>2, <2>4, <3>1, <3>2, NobodyIs DEF Shown
  <2>5. QED
    BY <1>4, <2>3, <2>4 DEF GoesIn
<1>5. ASSUME NEW t \in Task, Heads(t) PROVE Shown'
  <2>1. Waiting(task[t]) /\ task[t].stage = "answered" /\ UNCHANGED <<sess, holder, status, user>>
    BY <1>5 DEF Heads, Waiting
  <2>2. task[t].call # "login"
    BY <1>1, <2>1 DEF Turns
  <2>3. task[t].made = Nobody
    BY <1>1, <2>1, <2>2 DEF Records, Sound
  <2>4. /\ task[t].call = "logout" /\ task[t].reply = "granted"
        /\ cookie' = Nobody /\ shared' = shared
        /\ taken' = (taken \/ cookie \notin {Nobody, task[t].sent})
    BY <1>5, <2>3 DEF Heads
  <2>5. Shown
    BY <1>1, <2>1, <2>4
  <2>6. CASE cookie = Nobody
    BY <2>1, <2>4, <2>5, <2>6 DEF Shown
  <2>7. CASE cookie # Nobody /\ cookie = task[t].sent
    <3>1. sess[cookie] = "ended" /\ holder[cookie] = user /\ cookie \in Session
      BY <1>1, <2>1, <2>4, <2>5, <2>7 DEF Made, Backed, Replied, Shown
    <3>2. QED
      BY <2>1, <2>4, <3>1 DEF Shown
  <2>8. CASE cookie # Nobody /\ cookie # task[t].sent
    BY <2>4, <2>8 DEF Shown
  <2>9. QED
    BY <2>6, <2>7, <2>8
<1>6. CASE Aside
  <2>1. UNCHANGED <<status, user, taken>> /\ ~shared
    BY <1>6 DEF Aside
  <2>2. CASE cookie' = cookie
    BY <1>1, <2>1, <2>2, StillShows
  <2>3. CASE cookie # Nobody /\ cookie' = Nobody /\ sess'[cookie] = "ended"
    <3>1. holder[cookie] = user /\ sess[cookie] # "none" /\ cookie \in Session
      BY <1>1, <2>1, <2>3 DEF Shown, Made
    <3>2. holder'[cookie] = user'
      BY <1>1, <2>1, <3>1 DEF Grows
    <3>3. QED
      BY <2>3, <3>1, <3>2 DEF Shown
  <2>4. QED
    BY <1>6, <2>2, <2>3 DEF Aside
<1>7. QED
  BY <1>1, <1>2, <1>3, <1>4, <1>5, <1>6, StepIs

-----------------------------------------------------------------------------
(* The theorems *)

LEMMA InductiveInit == Init => Inductive
<1> SUFFICES ASSUME Init PROVE Inductive
  OBVIOUS
<1>1. \A t \in Task : task[t] = Nothing
  BY DEF Init
<1>2. TypeOK
  <2>1. SessionTypes /\ task \in [Task -> TaskRecord]
    BY NothingIs DEF Init, SessionTypes
  <2>2. loads \in 0 .. MaxLoads
    BY PanelAssumption DEF Init
  <2>3. QED
    BY <2>1, <2>2, TypesAre DEF Init
<1>3. \A t \in Task : ~Waiting(task[t])
  BY <1>1, NothingIs
<1>4. Records /\ Turns /\ ChecksTheCookie /\ HoldsTheCookie
  BY <1>3 DEF Records, Sound, Turns, ChecksTheCookie, HoldsTheCookie, Waiting
<1>5. Made
  BY <1>1, NothingIs DEF Init, Made, Backed, Replied
<1>6. ActsAsShown
  BY DEF Init, ActsAsShown
<1>7. QED
  BY <1>2, <1>4, <1>5, <1>6 DEF Inductive

LEMMA InductiveStep == Inductive /\ [Next]_vars => Inductive'
BY TypeStep, RecordsStep, MadeStep, TurnsStep, ChecksStep, HoldsStep, ShowsStep
   DEF Inductive

\* The panel, the records of its actions and the browser's cookie keep to
\* what they were made for, in any order of clicks, answers, time-outs and
\* page loads: while the session is being checked nothing else is waited
\* for, one sign-in at most is under way, and what an answer says of a
\* session stays true until it is read.
THEOREM InductiveHolds == Spec => []Inductive
<1>1. QED
  BY InductiveInit, InductiveStep, PTL DEF Spec

\* Unless another page has changed the cookie, the browser acts as the user
\* the panel shows or as nobody, and as nobody only where his session has
\* ended or a sign-out asked for earlier has cleared his cookie: whichever
\* answers of the store (auth.ts) are late, given up or overtaken by others,
\* and whatever comes between the head and the body of a sign-in.
THEOREM ActsAsShownHolds == Spec => []ActsAsShown
<1>1. Inductive => ActsAsShown
  BY DEF Inductive
<1>2. QED
  BY <1>1, InductiveHolds, PTL

LEMMA LeavesStep ==
  ASSUME Inductive, [Next]_vars, status = "signedIn", status' = "signedOut"
  PROVE  \E t \in Task :
           /\ Waiting(task[t]) /\ ~Waiting(task'[t])
           /\ \/ task[t].does = "signOut"
              \/ notice' /\ ~Live(task[t].sent)
<1>1. TypeOK /\ Records /\ Made /\ Turns
  BY DEF Inductive
<1>2. PICK t \in Task : Ends(t)
  BY <1>1, StepIs DEF Loads, Serves, Heads, GoesIn, Begins, Aside
<1>3. Waiting(task[t]) /\ ~Waiting(task'[t])
  BY <1>1, <1>2, EndsIs DEF Ends
<1>4. task[t].call # "me"
  BY <1>1, <1>3 DEF Turns
<1>5. \/ task[t].call = "logout"
      \/ /\ task[t].call = "audit" /\ Replied(task[t]) /\ task[t].reply = "refused"
         /\ notice' = TRUE
  BY <1>2, <1>4 DEF Ends
<1>6. CASE task[t].call = "logout"
  <2>1. task[t].does = "signOut"
    BY <1>1, <1>3, <1>6 DEF Records, Sound
  <2>2. QED
    BY <1>3, <2>1 DEF Waiting
<1>7. CASE /\ task[t].call = "audit" /\ Replied(task[t]) /\ task[t].reply = "refused"
           /\ notice' = TRUE
  <2>1. ~Live(task[t].sent)
    BY <1>1, <1>7 DEF Made, Backed
  <2>2. QED
    BY <1>3, <1>7, <2>1 DEF Waiting
<1>8. QED
  BY <1>5, <1>6, <1>7

\* Nobody is signed out unasked but for a session that has ended, and then
\* the panel says so: a failing or silent API leaves a signed-in panel as
\* it is (loadAudit and signOut of auth.ts).
THEOREM LeavesForCauseHolds == Spec => LeavesForCause
<1>1. Inductive /\ [Next]_vars =>
        [status = "signedIn" /\ status' = "signedOut" =>
           \E t \in Task :
             /\ Waiting(task[t]) /\ ~Waiting(task'[t])
             /\ \/ task[t].does = "signOut"
                \/ notice' /\ ~Live(task[t].sent)]_vars
  BY LeavesStep
<1>2. QED
  BY <1>1, InductiveHolds, PTL DEF Spec, LeavesForCause
==============================================================================
