------------------------------- MODULE Lanes -------------------------------
(***************************************************************************)
(* The two lanes to the database over one pool of connections.  A call in  *)
(* the service lane (query, checkHealth) borrows a connection for one      *)
(* statement of the owning role, which sees every row.  A call in the      *)
(* request lane (queryAsUser) adopts zerofayyz_request for the span of one *)
(* transaction, on behalf of one person, and the policies of migration 007 *)
(* decide which rows there are.                                            *)
(*                                                                         *)
(* Every statement is awaited on its own and may fail, with or without its *)
(* connection, and the connection goes to another call as soon as it is    *)
(* back in the pool.                                                       *)
(***************************************************************************)
EXTENDS Integers, FiniteSets

CONSTANTS Call,     \* calls of query, checkHealth and queryAsUser
          Asks,     \* Asks[r]: lane, table, and the person r is made for
          Conn,     \* places in the pool
          User,     \* people
          Row,      \* rows of every table
          Owner,    \* Owner[x]: whose row x is
          Attempts, \* COLD_START_ATTEMPTS
          NoConn,   \* no connection checked out
          Nobody    \* app.user_id and app.role unset

Table == {"users", "payments", "transactions", "sessions", "refund_requests", "audit_logs"}
Role == {"customer", "viewer", "operator", "admin"}
Staff == Role \ {"customer"}
Person == [user : User, role : Role]

ASSUME LanesAssumption ==
  /\ Asks \in [Call -> [lane : {"service", "request"}, table : Table, person : Person]]
  /\ Owner \in [Row -> User]
  /\ Attempts \in Nat \ {0}
  /\ NoConn \notin Conn
  /\ Nobody \notin Person

VARIABLES pc,      \* pc[r]: the statement r awaits
          tries,   \* tries[r]: failed attempts to connect
          conn,    \* conn[r]: the client r has checked out
          place,   \* place[c]: what the pool knows of c
          broken,  \* broken[c]: the connection is lost
          role,    \* role[c]: the role statements on c run as
          context, \* context[c]: app.user_id and app.role
          seen,    \* seen[r]: the rows r has read
          closed   \* whether the pool has been ended

session == <<role, context>>
vars == <<pc, tries, conn, place, broken, session, seen, closed>>

Steps == {"connect", "begin", "set_config", "set_role", "run", "commit", "rollback"}
Ends == {"returned", "thrown"}

TypeOK ==
  /\ pc \in [Call -> Steps \cup Ends]
  /\ tries \in [Call -> 0 .. Attempts]
  /\ conn \in [Call -> Conn \cup {NoConn}]
  /\ place \in [Conn -> {"free", "idle", "out"}]
  /\ broken \in [Conn -> BOOLEAN]
  /\ role \in [Conn -> {"service", "request"}]
  /\ context \in [Conn -> Person \cup {Nobody}]
  /\ seen \in [Call -> SUBSET Row]
  /\ closed \in BOOLEAN

Init ==
  /\ pc = [r \in Call |-> "connect"]
  /\ tries = [r \in Call |-> 0]
  /\ conn = [r \in Call |-> NoConn]
  /\ place = [c \in Conn |-> "free"]
  /\ broken = [c \in Conn |-> FALSE]
  /\ role = [c \in Conn |-> "service"]
  /\ context = [c \in Conn |-> Nobody]
  /\ seen = [r \in Call |-> {}]
  /\ closed = FALSE

-----------------------------------------------------------------------------
(* Migration 007 *)

\* The roles a policy admits to every row of its table.
ReadsAll ==
  [t \in Table |-> IF t = "sessions" THEN {"admin"}
                   ELSE IF t = "refund_requests" THEN {"operator", "admin"} ELSE Staff]

Admits(t, p, x) ==
  \/ p.role \in ReadsAll[t]
  \/ t # "audit_logs" /\ Owner[x] = p.user

\* What a SELECT over t returns on c: a request without a context sees nothing.
Visible(c, t) ==
  {x \in Row : \/ role[c] = "service"
               \/ context[c] # Nobody /\ Admits(t, context[c], x)}

-----------------------------------------------------------------------------
(* checkout *)

Goto(r, step) == pc' = [pc EXCEPT ![r] = step]

Service(r) == Asks[r].lane = "service"

\* An idle connection first, a new one when there is none.
Checkout(r, c) ==
  /\ pc[r] = "connect"
  /\ ~closed
  /\ \/ place[c] = "idle" /\ UNCHANGED <<broken, session>>
     \/ /\ place[c] = "free"
        /\ \A d \in Conn : place[d] # "idle"
        /\ broken' = [broken EXCEPT ![c] = FALSE]
        /\ role' = [role EXCEPT ![c] = "service"]
        /\ context' = [context EXCEPT ![c] = Nobody]
  /\ place' = [place EXCEPT ![c] = "out"]
  /\ conn' = [conn EXCEPT ![r] = c]
  /\ Goto(r, IF Service(r) THEN "run" ELSE "begin")
  /\ UNCHANGED <<tries, seen, closed>>

\* connectWithWake: another attempt, if the compute seems to be waking.
ConnectFails(r) ==
  /\ pc[r] = "connect"
  /\ tries[r] < Attempts
  /\ tries' = [tries EXCEPT ![r] = @ + 1]
  /\ \/ tries[r] + 1 < Attempts /\ ~closed /\ UNCHANGED pc
     \/ Goto(r, "thrown")
  /\ UNCHANGED <<conn, place, broken, session, seen, closed>>

-----------------------------------------------------------------------------
(* release *)

\* client.release(): a lost connection is removed, and so are all once the
\* pool has been ended.
Release(r, lost, ends) ==
  /\ place' = [place EXCEPT ![conn[r]] = IF lost \/ closed THEN "free" ELSE "idle"]
  /\ conn' = [conn EXCEPT ![r] = NoConn]
  /\ Goto(r, ends)

-----------------------------------------------------------------------------
(* The statements *)

Sound(r) == ~broken[conn[r]]

Begin(r) ==
  /\ pc[r] = "begin"
  /\ Sound(r)
  /\ Goto(r, "set_config")
  /\ UNCHANGED <<tries, conn, place, broken, session, seen, closed>>

SetConfig(r) ==
  /\ pc[r] = "set_config"
  /\ Sound(r)
  /\ context' = [context EXCEPT ![conn[r]] = Asks[r].person]
  /\ Goto(r, "set_role")
  /\ UNCHANGED <<tries, conn, place, broken, role, seen, closed>>

\* SET LOCAL ROLE.  Slip: the statement is left out.
KeepRole(c) == UNCHANGED role

AdoptRole(c) == role' = [role EXCEPT ![c] = "request"]

SetRole(r) ==
  /\ pc[r] = "set_role"
  /\ Sound(r)
  /\ AdoptRole(conn[r])
  /\ Goto(r, "run")
  /\ UNCHANGED <<tries, conn, place, broken, context, seen, closed>>

Read(r) == seen' = [seen EXCEPT ![r] = Visible(conn[r], Asks[r].table)]

\* A service call gives its connection back at once (finally).
Run(r) ==
  /\ pc[r] = "run"
  /\ Sound(r)
  /\ Read(r)
  /\ \/ Service(r) /\ Release(r, FALSE, "returned")
     \/ ~Service(r) /\ Goto(r, "commit") /\ UNCHANGED <<place, conn>>
  /\ UNCHANGED <<tries, broken, session, closed>>

\* The end of a transaction takes what was local to it.
EndTransaction(c) ==
  /\ role' = [role EXCEPT ![c] = "service"]
  /\ context' = [context EXCEPT ![c] = Nobody]

Commit(r) ==
  /\ pc[r] = "commit"
  /\ Sound(r)
  /\ EndTransaction(conn[r])
  /\ Release(r, FALSE, "returned")
  /\ UNCHANGED <<tries, broken, seen, closed>>

\* A statement fails, and its connection may be gone with it.  query and
\* checkHealth release it (finally), queryAsUser goes to its catch.
QueryFails(r) ==
  /\ pc[r] = "run"
  /\ Service(r)
  /\ \E gone \in BOOLEAN : Release(r, gone, "thrown")
  /\ UNCHANGED <<tries, broken, session, seen, closed>>

StatementFails(r) ==
  /\ pc[r] \in {"begin", "set_config", "set_role", "run", "commit"}
  /\ ~Service(r)
  /\ \E gone \in BOOLEAN : broken' = [broken EXCEPT ![conn[r]] = gone]
  /\ Goto(r, "rollback")
  /\ UNCHANGED <<tries, conn, place, session, seen, closed>>

Rollback(r) ==
  /\ pc[r] = "rollback"
  /\ Sound(r)
  /\ EndTransaction(conn[r])
  /\ Release(r, FALSE, "thrown")
  /\ UNCHANGED <<tries, broken, seen, closed>>

\* client.release(true).  Slip: a connection of unknown state is given back.
ReleaseUnknown(r) == Release(r, broken[conn[r]], "thrown")

DropUnknown(r) ==
  /\ place' = [place EXCEPT ![conn[r]] = "free"]
  /\ conn' = [conn EXCEPT ![r] = NoConn]
  /\ Goto(r, "thrown")

RollbackFails(r) ==
  /\ pc[r] = "rollback"
  /\ DropUnknown(r)
  /\ UNCHANGED <<tries, broken, session, seen, closed>>

-----------------------------------------------------------------------------
(* The pool by itself *)

\* idleTimeoutMillis, or the error handler of an idle connection.
Reap(c) ==
  /\ place[c] = "idle"
  /\ place' = [place EXCEPT ![c] = "free"]
  /\ UNCHANGED <<pc, tries, conn, broken, session, seen, closed>>

Close ==
  /\ ~closed
  /\ closed' = TRUE
  /\ place' = [c \in Conn |-> IF place[c] = "idle" THEN "free" ELSE place[c]]
  /\ UNCHANGED <<pc, tries, conn, broken, session, seen>>

-----------------------------------------------------------------------------
Step(r) ==
  \/ ConnectFails(r) \/ Begin(r) \/ SetConfig(r) \/ SetRole(r) \/ Run(r) \/ Commit(r)
  \/ QueryFails(r) \/ StatementFails(r) \/ Rollback(r) \/ RollbackFails(r)

Next ==
  \/ \E r \in Call : Step(r) \/ \E c \in Conn : Checkout(r, c)
  \/ \E c \in Conn : Reap(c)
  \/ Close

Spec == Init /\ [][Next]_vars

-----------------------------------------------------------------------------
(* Safety *)

(***************************************************************************)
(* "A connection that might still be wearing the request role must never   *)
(* rejoin the pool": whatever fails, and wherever, an idle connection is   *)
(* the service role's, with no context attached.                           *)
(***************************************************************************)
CleanPool == \A c \in Conn : place[c] = "idle" => role[c] = "service" /\ context[c] = Nobody

(***************************************************************************)
(* "Nothing can leak between requests": a call in the request lane has     *)
(* read what the policies admit for its own person, and a call in the      *)
(* service lane every row, whoever used the connection before.             *)
(***************************************************************************)
Promised(r) == {x \in Row : Service(r) \/ Admits(Asks[r].table, Asks[r].person, x)}

ReadsItsOwn == \A r \in Call : pc[r] = "returned" => seen[r] = Promised(r)

(***************************************************************************)
(* A connection is lent to one call at a time, and no call keeps one that  *)
(* is over: nothing the pool has lent is lost to it.                       *)
(***************************************************************************)
LentOnce ==
  /\ \A c \in Conn : place[c] = "out" <=> \E r \in Call : conn[r] = c
  /\ \A r, q \in Call : conn[r] = conn[q] /\ conn[r] # NoConn => r = q
  /\ \A r \in Call : pc[r] \in Ends => conn[r] = NoConn
=============================================================================
