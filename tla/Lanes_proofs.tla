---------------------------- MODULE Lanes_proofs ----------------------------
(***************************************************************************)
(* Proofs about Lanes, for every number of calls and connections, and      *)
(* every assignment of lanes, tables, people and rows.                     *)
(*                                                                         *)
(* What a connection is wearing is known from where its borrower stands,   *)
(* with one exception: while a failed transaction awaits its ROLLBACK      *)
(* nothing is known.  From there a connection comes back to the pool only  *)
(* through a ROLLBACK that succeeded, which is why CleanPool holds.        *)
(***************************************************************************)
EXTENDS Lanes, TLAPS

Plain(c) == role[c] = "service" /\ context[c] = Nobody

\* What r's connection wears when r awaits a statement.
Dressed(r) ==
  LET c == conn[r]
  IN /\ pc[r] \in {"begin", "set_config"} => Plain(c)
     /\ pc[r] = "set_role" => role[c] = "service" /\ context[c] = Asks[r].person
     /\ pc[r] = "run" =>
          IF Service(r) THEN Plain(c)
                        ELSE role[c] = "request" /\ context[c] = Asks[r].person

\* Only the request lane takes the steps of a transaction.
InLane(r) == Service(r) => pc[r] \in {"connect", "run"} \cup Ends

Borrows(r) == conn[r] = NoConn <=> pc[r] \in {"connect"} \cup Ends

HasRead(r) == pc[r] \in {"commit", "returned"} => seen[r] = Promised(r)

Calls == \A r \in Call : Dressed(r) /\ InLane(r) /\ Borrows(r) /\ HasRead(r)

Inductive == TypeOK /\ Calls /\ LentOnce /\ CleanPool

LEMMA InitInductive == Init => Inductive
<1> SUFFICES ASSUME Init PROVE Inductive
  OBVIOUS
<1> USE LanesAssumption DEF Init
<1>1. closed \in BOOLEAN /\ broken \in [Conn -> BOOLEAN]
  OBVIOUS
<1>2. TypeOK
  BY <1>1 DEF TypeOK, Steps, Ends
<1>3. Calls
  BY DEF Calls, Dressed, InLane, Borrows, HasRead, Ends
<1>4. LentOnce /\ CleanPool
  BY DEF LentOnce, CleanPool, Ends
<1>5. QED
  BY <1>2, <1>3, <1>4 DEF Inductive

-----------------------------------------------------------------------------
(* What a SELECT returns *)

LEMMA ReadsPromised ==
  ASSUME TypeOK, NEW r \in Call, Dressed(r), pc[r] = "run", Read(r)
  PROVE  seen' = [seen EXCEPT ![r] = Promised(r)]
<1>1. CASE Service(r)
  BY <1>1 DEF Dressed, Plain, Read, Visible, Promised
<1>2. CASE ~Service(r)
  <2>1. Asks[r].person \in Person
    BY LanesAssumption
  <2>2. context[conn[r]] = Asks[r].person /\ role[conn[r]] = "request" /\ Asks[r].person # Nobody
    BY <1>2, <2>1, LanesAssumption DEF Dressed
  <2>3. Visible(conn[r], Asks[r].table) = Promised(r)
    BY <1>2, <2>2 DEF Visible, Promised
  <2>4. QED
    BY <2>3 DEF Read
<1>3. QED
  BY <1>1, <1>2

-----------------------------------------------------------------------------
(* Borrowing and giving back *)

\* A connection that is handed out is plain, and nobody else has it.
LEMMA CheckoutStep ==
  ASSUME Inductive, NEW r \in Call, NEW c \in Conn, Checkout(r, c)
  PROVE  Inductive'
<1> USE LanesAssumption DEF Inductive, Goto, session
<1>1. /\ pc[r] = "connect" /\ conn[r] = NoConn /\ place[c] # "out"
      /\ \A q \in Call : conn[q] # c
  BY DEF Checkout, Calls, Borrows, LentOnce
<1>2. /\ pc' = [pc EXCEPT ![r] = IF Service(r) THEN "run" ELSE "begin"]
      /\ conn' = [conn EXCEPT ![r] = c]
      /\ place' = [place EXCEPT ![c] = "out"]
      /\ UNCHANGED <<tries, seen, closed>>
  BY DEF Checkout
<1>3. /\ role' = [role EXCEPT ![c] = "service"]
      /\ context' = [context EXCEPT ![c] = Nobody]
      /\ broken' \in {broken, [broken EXCEPT ![c] = FALSE]}
  <2>1. CASE place[c] = "idle" /\ UNCHANGED <<broken, session>>
    BY <2>1 DEF CleanPool, TypeOK
  <2>2. CASE ~(place[c] = "idle" /\ UNCHANGED <<broken, session>>)
    BY <2>2 DEF Checkout
  <2>3. QED
    BY <2>1, <2>2
<1>4. TypeOK'
  <2>1. broken' \in [Conn -> BOOLEAN]
    BY <1>3 DEF TypeOK
  <2>2. QED
    BY <1>2, <1>3, <2>1 DEF TypeOK, Steps, Ends
<1>5. Calls'
  <2>1. ASSUME NEW q \in Call PROVE Dressed(q)' /\ InLane(q)' /\ Borrows(q)' /\ HasRead(q)'
    <3>1. CASE q = r
      BY <1>1, <1>2, <1>3, <3>1
      DEF TypeOK, Dressed, Plain, InLane, Borrows, HasRead, Service, Ends
    <3>2. CASE q # r
      <4>1. pc'[q] = pc[q] /\ conn'[q] = conn[q] /\ conn[q] # c
        BY <1>1, <1>2, <3>2 DEF TypeOK
      <4>2. /\ role'[conn[q]] = role[conn[q]] /\ context'[conn[q]] = context[conn[q]]
            /\ seen'[q] = seen[q]
        BY <1>2, <1>3, <4>1 DEF TypeOK
      <4>3. QED
        BY <4>1, <4>2
        DEF Calls, Dressed, Plain, InLane, Borrows, HasRead, Service, Promised
    <3>3. QED
      BY <3>1, <3>2
  <2>2. QED
    BY <2>1 DEF Calls
<1>6. LentOnce'
  BY <1>1, <1>2 DEF LentOnce, TypeOK, Ends
<1>7. CleanPool'
  BY <1>2, <1>3 DEF CleanPool, TypeOK
<1>8. QED
  BY <1>4, <1>5, <1>6, <1>7

\* r gives its connection back: to the pool only when it is plain by then.
LEMMA ReleaseStep ==
  ASSUME Inductive, NEW r \in Call, conn[r] # NoConn,
         NEW where \in {"free", "idle"}, NEW ends \in Ends,
         place' = [place EXCEPT ![conn[r]] = where],
         conn' = [conn EXCEPT ![r] = NoConn],
         Goto(r, ends),
         UNCHANGED <<tries, broken, closed>>,
         \/ UNCHANGED session
         \/ EndTransaction(conn[r]),
         where = "idle" => role'[conn[r]] = "service" /\ context'[conn[r]] = Nobody,
         \/ UNCHANGED seen
         \/ seen' = [seen EXCEPT ![r] = Promised(r)],
         ends = "returned" => seen'[r] = Promised(r)
  PROVE  Inductive'
<1> USE LanesAssumption DEF Inductive, Goto
<1>1. PICK c \in Conn : c = conn[r]
  BY DEF TypeOK
<1>2. \A q \in Call \ {r} : conn[q] # c
  BY <1>1 DEF LentOnce
<1>3. /\ \A d \in Conn \ {c} : role'[d] = role[d] /\ context'[d] = context[d]
      /\ role' \in [Conn -> {"service", "request"}]
      /\ context' \in [Conn -> Person \cup {Nobody}]
  BY <1>1 DEF TypeOK, session, EndTransaction
<1>4. TypeOK'
  <2>1. seen' \in [Call -> SUBSET Row]
    BY DEF TypeOK, Promised
  <2>2. pc' \in [Call -> Steps \cup Ends] /\ conn' \in [Call -> Conn \cup {NoConn}]
        /\ place' \in [Conn -> {"free", "idle", "out"}]
    BY DEF TypeOK
  <2>3. QED
    BY <1>3, <2>1, <2>2 DEF TypeOK
<1>5. Calls'
  <2>1. ASSUME NEW q \in Call PROVE Dressed(q)' /\ InLane(q)' /\ Borrows(q)' /\ HasRead(q)'
    <3>1. CASE q = r
      BY <3>1 DEF TypeOK, Dressed, InLane, Borrows, HasRead, Ends, Service, Promised
    <3>2. CASE q # r
      <4>1. pc'[q] = pc[q] /\ conn'[q] = conn[q] /\ conn[q] # c /\ seen'[q] = seen[q]
        BY <1>2, <3>2 DEF TypeOK
      <4>2. conn[q] \in Conn =>
              role'[conn[q]] = role[conn[q]] /\ context'[conn[q]] = context[conn[q]]
        BY <1>3, <4>1
      <4>3. conn[q] \notin Conn => conn[q] = NoConn /\ pc[q] \in {"connect"} \cup Ends
        BY DEF TypeOK, Calls, Borrows
      <4>4. QED
        BY <4>1, <4>2, <4>3
        DEF Calls, Dressed, Plain, InLane, Borrows, HasRead, Service, Promised, Ends
    <3>3. QED
      BY <3>1, <3>2
  <2>2. QED
    BY <2>1 DEF Calls
<1>6. LentOnce'
  BY <1>1, <1>2 DEF LentOnce, TypeOK, Ends
<1>7. CleanPool'
  BY <1>1, <1>3 DEF CleanPool, TypeOK
<1>8. QED
  BY <1>4, <1>5, <1>6, <1>7

\* r goes on to another statement on the same connection.
LEMMA OnwardStep ==
  ASSUME Inductive, NEW r \in Call, conn[r] # NoConn, ~Service(r),
         NEW step \in {"set_config", "set_role", "run", "commit", "rollback"},
         Goto(r, step),
         UNCHANGED <<tries, conn, place, closed>>,
         broken' \in [Conn -> BOOLEAN],
         role' \in {role, [role EXCEPT ![conn[r]] = "request"]},
         context' \in {context, [context EXCEPT ![conn[r]] = Asks[r].person]},
         seen' \in {seen, [seen EXCEPT ![r] = Promised(r)]},
         Dressed(r)', HasRead(r)'
  PROVE  Inductive'
<1> USE LanesAssumption DEF Inductive, Goto
<1>1. PICK c \in Conn : c = conn[r]
  BY DEF TypeOK
<1>2. \A q \in Call \ {r} : conn[q] # c
  BY <1>1 DEF LentOnce
<1>3. /\ \A d \in Conn \ {c} : role'[d] = role[d] /\ context'[d] = context[d]
      /\ role' \in [Conn -> {"service", "request"}]
      /\ context' \in [Conn -> Person \cup {Nobody}]
  <2>1. Asks[r].person \in Person
    OBVIOUS
  <2>2. QED
    BY <1>1, <2>1 DEF TypeOK
<1>4. TypeOK'
  <2>1. seen' \in [Call -> SUBSET Row]
    BY DEF TypeOK, Promised
  <2>2. pc' \in [Call -> Steps \cup Ends]
    BY DEF TypeOK, Steps
  <2>3. QED
    BY <1>3, <2>1, <2>2 DEF TypeOK
<1>5. Calls'
  <2>1. ASSUME NEW q \in Call PROVE Dressed(q)' /\ InLane(q)' /\ Borrows(q)' /\ HasRead(q)'
    <3>1. CASE q = r
      BY <3>1 DEF TypeOK, InLane, Borrows, Ends, Service
    <3>2. CASE q # r
      <4>1. pc'[q] = pc[q] /\ conn'[q] = conn[q] /\ conn[q] # c /\ seen'[q] = seen[q]
        BY <1>2, <3>2 DEF TypeOK
      <4>2. conn[q] \in Conn =>
              role'[conn[q]] = role[conn[q]] /\ context'[conn[q]] = context[conn[q]]
        BY <1>3, <4>1
      <4>3. conn[q] \notin Conn => conn[q] = NoConn /\ pc[q] \in {"connect"} \cup Ends
        BY DEF TypeOK, Calls, Borrows
      <4>4. QED
        BY <4>1, <4>2, <4>3
        DEF Calls, Dressed, Plain, InLane, Borrows, HasRead, Service, Promised, Ends
    <3>3. QED
      BY <3>1, <3>2
  <2>2. QED
    BY <2>1 DEF Calls
<1>6. LentOnce'
  <2>1. step \notin Ends
    BY DEF Ends
  <2>2. \A q \in Call : pc'[q] \in Ends => pc[q] \in Ends
    BY <2>1 DEF TypeOK
  <2>3. QED
    BY <2>2 DEF LentOnce
<1>7. CleanPool'
  BY <1>1, <1>3 DEF CleanPool, LentOnce
<1>8. QED
  BY <1>4, <1>5, <1>6, <1>7
-----------------------------------------------------------------------------
LEMMA InductiveStep == Inductive /\ [Next]_vars => Inductive'
<1> SUFFICES ASSUME Inductive, [Next]_vars PROVE Inductive'
  OBVIOUS
<1> USE LanesAssumption
<1>1. ASSUME NEW r \in Call, NEW c \in Conn, Checkout(r, c) PROVE Inductive'
  BY <1>1, CheckoutStep
<1>2. ASSUME NEW r \in Call, ConnectFails(r) PROVE Inductive'
  <2>1. PICK step \in {"connect", "thrown"} : pc' = [pc EXCEPT ![r] = step]
    <3>1. CASE UNCHANGED pc
      BY <1>2, <3>1 DEF ConnectFails, Inductive, TypeOK
    <3>2. CASE Goto(r, "thrown")
      BY <3>2 DEF Goto
    <3>3. QED
      BY <1>2, <3>1, <3>2 DEF ConnectFails
  <2>2. /\ pc[r] = "connect" /\ tries' \in [Call -> 0 .. Attempts]
        /\ UNCHANGED <<conn, place, broken, role, context, seen, closed>>
    BY <1>2 DEF ConnectFails, Inductive, TypeOK, session
  <2>3. TypeOK'
    BY <2>1, <2>2 DEF Inductive, TypeOK, Steps, Ends
  <2>4. Calls'
    BY <2>1, <2>2
    DEF Inductive, TypeOK, Calls, Dressed, Plain, InLane, Borrows, HasRead, Service, Promised, Ends
  <2>5. LentOnce' /\ CleanPool'
    BY <2>1, <2>2 DEF Inductive, TypeOK, Calls, Borrows, LentOnce, CleanPool, Ends
  <2>6. QED
    BY <2>3, <2>4, <2>5 DEF Inductive
<1>3. ASSUME NEW r \in Call, Begin(r) \/ SetConfig(r) \/ SetRole(r) PROVE Inductive'
  <2>1. /\ conn[r] # NoConn /\ ~Service(r) /\ Dressed(r) /\ conn[r] \in Conn
    BY <1>3
    DEF Begin, SetConfig, SetRole, Inductive, TypeOK, Calls, Borrows, InLane, Ends
  <2>2. CASE Begin(r)
    BY <2>1, <2>2, OnwardStep
    DEF Begin, Goto, session, Dressed, Plain, HasRead, Inductive, TypeOK, Service
  <2>3. CASE SetConfig(r)
    <3>1. Dressed(r)' /\ HasRead(r)'
      BY <2>1, <2>3 DEF SetConfig, Goto, Dressed, Plain, HasRead, Inductive, TypeOK, Service
    <3>2. QED
      BY <2>1, <2>3, <3>1, OnwardStep DEF SetConfig, Inductive, TypeOK
  <2>4. CASE SetRole(r)
    <3>1. Dressed(r)' /\ HasRead(r)'
      BY <2>1, <2>4
      DEF SetRole, AdoptRole, Goto, Dressed, Plain, HasRead, Inductive, TypeOK, Service
    <3>2. QED
      BY <2>1, <2>4, <3>1, OnwardStep DEF SetRole, AdoptRole, Inductive, TypeOK
  <2>5. QED
    BY <1>3, <2>2, <2>3, <2>4
<1>4. ASSUME NEW r \in Call, Run(r) PROVE Inductive'
  <2>1. /\ pc[r] = "run" /\ conn[r] # NoConn /\ conn[r] \in Conn /\ Dressed(r)
        /\ UNCHANGED <<tries, broken, role, context, closed>>
    BY <1>4 DEF Run, Inductive, TypeOK, Calls, Borrows, Ends, session
  <2>2. seen' = [seen EXCEPT ![r] = Promised(r)]
    BY <1>4, <2>1, ReadsPromised DEF Run, Inductive
  <2>3. seen'[r] = Promised(r)
    BY <2>2 DEF Inductive, TypeOK
  <2>4. CASE Service(r) /\ Release(r, FALSE, "returned")
    <3>1. PICK where \in {"free", "idle"} : place' = [place EXCEPT ![conn[r]] = where]
      BY <2>4 DEF Release
    <3>2. Plain(conn[r])
      BY <2>1, <2>4 DEF Dressed
    <3>3. QED
      BY <2>1, <2>2, <2>3, <2>4, <3>1, <3>2, ReleaseStep DEF Release, Ends, Plain, session
  <2>5. CASE ~Service(r) /\ Goto(r, "commit") /\ UNCHANGED <<place, conn>>
    <3>1. Dressed(r)' /\ HasRead(r)'
      BY <2>1, <2>3, <2>5 DEF Goto, Dressed, HasRead, Inductive, TypeOK, Promised, Service
    <3>2. QED
      BY <2>1, <2>2, <2>5, <3>1, OnwardStep DEF Inductive, TypeOK
  <2>6. QED
    BY <1>4, <2>4, <2>5 DEF Run
<1>5. ASSUME NEW r \in Call, Commit(r) \/ Rollback(r) PROVE Inductive'
  <2>1. PICK ends \in Ends : Release(r, FALSE, ends) /\ (ends = "returned" => pc[r] = "commit")
    BY <1>5 DEF Commit, Rollback, Ends
  <2>2. /\ conn[r] # NoConn /\ conn[r] \in Conn /\ HasRead(r)
        /\ UNCHANGED <<tries, broken, seen, closed>> /\ EndTransaction(conn[r])
    BY <1>5 DEF Commit, Rollback, Inductive, TypeOK, Calls, Borrows, Ends
  <2>3. PICK where \in {"free", "idle"} : place' = [place EXCEPT ![conn[r]] = where]
    BY <2>1 DEF Release
  <2>4. role'[conn[r]] = "service" /\ context'[conn[r]] = Nobody
    BY <2>2 DEF EndTransaction, Inductive, TypeOK
  <2>5. QED
    BY <2>1, <2>2, <2>3, <2>4, ReleaseStep DEF Release, HasRead
<1>6. ASSUME NEW r \in Call, QueryFails(r) PROVE Inductive'
  <2>1. /\ conn[r] # NoConn /\ conn[r] \in Conn /\ Plain(conn[r])
        /\ UNCHANGED <<tries, broken, session, seen, closed>>
    BY <1>6 DEF QueryFails, Inductive, TypeOK, Calls, Borrows, Dressed, Ends
  <2>2. PICK gone \in BOOLEAN : Release(r, gone, "thrown")
    BY <1>6 DEF QueryFails
  <2>3. PICK where \in {"free", "idle"} : place' = [place EXCEPT ![conn[r]] = where]
    BY <2>2 DEF Release
  <2>4. QED
    BY <2>1, <2>2, <2>3, ReleaseStep DEF Release, Plain, Ends, session
<1>7. ASSUME NEW r \in Call, StatementFails(r) PROVE Inductive'
  <2>1. conn[r] # NoConn /\ ~Service(r)
    BY <1>7 DEF StatementFails, Inductive, TypeOK, Calls, Borrows, Ends
  <2>2. Dressed(r)' /\ HasRead(r)'
    BY <1>7 DEF StatementFails, Goto, Dressed, HasRead, Inductive, TypeOK
  <2>3. broken' \in [Conn -> BOOLEAN]
    BY <1>7 DEF StatementFails, Inductive, TypeOK
  <2>4. QED
    BY <1>7, <2>1, <2>2, <2>3, OnwardStep DEF StatementFails, session
<1>8. ASSUME NEW r \in Call, RollbackFails(r) PROVE Inductive'
  <2>1. conn[r] # NoConn /\ UNCHANGED <<tries, broken, session, seen, closed>>
    BY <1>8 DEF RollbackFails, Inductive, TypeOK, Calls, Borrows, Ends
  <2>2. QED
    BY <1>8, <2>1, ReleaseStep DEF RollbackFails, DropUnknown, Ends
<1>9. ASSUME NEW c \in Conn, Reap(c) PROVE Inductive'
  BY <1>9
  DEF Reap, Inductive, TypeOK, Calls, Dressed, Plain, InLane, Borrows, HasRead, Service, Promised,
      LentOnce, CleanPool, session
<1>10. CASE Close
  <2>1. closed' \in BOOLEAN
    BY <1>10 DEF Close
  <2>2. QED
    BY <1>10, <2>1
    DEF Close, Inductive, TypeOK, Calls, Dressed, Plain, InLane, Borrows, HasRead, Service,
        Promised, LentOnce, CleanPool, session
<1>11. CASE UNCHANGED vars
  BY <1>11
  DEF vars, Inductive, TypeOK, Calls, Dressed, Plain, InLane, Borrows, HasRead, Service, Promised,
      LentOnce, CleanPool, session
<1>12. QED
  BY <1>1, <1>2, <1>3, <1>4, <1>5, <1>6, <1>7, <1>8, <1>9, <1>10, <1>11 DEF Next, Step

(***************************************************************************)
(* The inductive invariant: what every connection wears, whoever has it.   *)
(***************************************************************************)
THEOREM InductiveHolds == Spec => []Inductive
BY InitInductive, InductiveStep, PTL DEF Spec

(***************************************************************************)
(* Every reachable state is well typed.                                    *)
(***************************************************************************)
THEOREM TypeCorrect == Spec => []TypeOK
<1>1. Inductive => TypeOK
  BY DEF Inductive
<1>2. QED
  BY <1>1, InductiveHolds, PTL

(***************************************************************************)
(* No connection rejoins the pool in the request role or with a context,   *)
(* wherever a statement, a COMMIT or a ROLLBACK fails.                     *)
(***************************************************************************)
THEOREM CleanPoolHolds == Spec => []CleanPool
<1>1. Inductive => CleanPool
  BY DEF Inductive
<1>2. QED
  BY <1>1, InductiveHolds, PTL

(***************************************************************************)
(* Whoever used its connection before, a call reads the rows the policies  *)
(* admit for its own person, and the service lane reads every row.         *)
(***************************************************************************)
THEOREM ReadsItsOwnHolds == Spec => []ReadsItsOwn
<1>1. Inductive => ReadsItsOwn
  BY DEF Inductive, Calls, HasRead, ReadsItsOwn
<1>2. QED
  BY <1>1, InductiveHolds, PTL

(***************************************************************************)
(* A connection is lent to one call at a time, and always given back.      *)
(***************************************************************************)
THEOREM LentOnceHolds == Spec => []LentOnce
<1>1. Inductive => LentOnce
  BY DEF Inductive
<1>2. QED
  BY <1>1, InductiveHolds, PTL
=============================================================================
