------------------------------- MODULE Sqlite -------------------------------
(***************************************************************************)
(* gpcl::sqlite: database, statement, bind_proxy, step_result and          *)
(* transaction, over the connections and prepared statements of the SQLite *)
(* library.  A transaction is a guard: it rolls back what nobody committed.*)
(*                                                                         *)
(* The guard holds a pointer to the database object, which a program does  *)
(* not destroy before the guard; that object may be moved, though, and the *)
(* library may roll a transaction back on its own when a statement fails   *)
(* (disk full, deadlock).  Any call of the library may fail.               *)
(***************************************************************************)
EXTENDS Integers, FiniteSets

CONSTANTS
  Databases, Statements, Guards,   \* objects of the three classes
  Conns, Handles,                  \* sqlite3 * and sqlite3_stmt *: positive numbers
  Params, Columns                  \* the parameters and the columns of a statement

VARIABLES q, call   \* the objects and the library; the last call

vars == <<q, call>>

Null == 0
Gone == -1
None == ""          \* db_ == nullptr of a transaction
Out == "gone"       \* no such transaction object

NoConn == [open |-> FALSE, tx |-> FALSE, by |-> None]
NoStmt == [on |-> Null, state |-> "ready", bound |-> 0]

\* db, st: db_ and stmt_; conn, h: the library's side of them; g: db_ of the
\* guards; row: the step_result and its column.  Kept for the properties: stale,
\* the guards whose transaction the library ended or whose database was moved;
\* left, the connections that a failed COMMIT left in a transaction.
Init ==
  /\ q = [db |-> [d \in Databases |-> Gone], st |-> [s \in Statements |-> Gone],
          g |-> [t \in Guards |-> Out], conn |-> [c \in Conns |-> NoConn],
          h |-> [k \in Handles |-> NoStmt], row |-> [stmt |-> Null, col |-> 0],
          stale |-> {}, left |-> {}, end |-> "no"]
  /\ call = [name |-> "start", x |-> "", ok |-> TRUE]

Alive(objects, gone) == {x \in DOMAIN objects : objects[x] # gone}
Active(n) == {t \in Guards : n.g[t] \in Databases}
ConnOf(n, t) == n.db[n.g[t]]
OnConn(n, c) == {k \in Handles : n.h[k].on = c}
Result(n, ok) == [n |-> n, ok |-> ok]

-----------------------------------------------------------------------------
\* The library: what becomes of a transaction.
Ended(n, c) ==
  [n EXCEPT !.conn[c].tx = FALSE, !.conn[c].by = None, !.left = @ \ {c},
            !.stale = @ \cup {t \in Active(n) : n.conn[c].by = t}]
StepOutcomes(n, c) ==
  {Result(n, TRUE), Result(n, FALSE)} \cup
  (IF n.conn[c].tx THEN {Result(Ended(n, c), FALSE)} ELSE {})
Begin(n, c, t) ==
  {Result(n, FALSE)} \cup
  (IF n.conn[c].tx THEN {}
   ELSE {Result([n EXCEPT !.conn[c].tx = TRUE, !.conn[c].by = t], TRUE)})
Commit(n, c) ==
  IF ~n.conn[c].tx THEN {Result(n, FALSE)}
  ELSE {Result(Ended(n, c), TRUE), Result(Ended(n, c), FALSE), Result(n, FALSE)}
Rollback(n, c) ==
  IF n.conn[c].tx THEN {Result(Ended(n, c), TRUE)} ELSE {Result(n, FALSE)}

\* database::execute: a statement is prepared, stepped and finalized; a database
\* that was moved from has no connection to prepare it on.
execute(n, c, outcomes) == IF c = Null THEN {Result(n, FALSE)} ELSE outcomes

-----------------------------------------------------------------------------
Do(name, x, r) ==
  /\ q.end = "no"
  /\ q' = r.n
  /\ call' = [name |-> name, x |-> x, ok |-> r.ok]

\* database: the constructor, which does not close what it failed to open; the
\* move constructor, and the destructor, which insists that sqlite3_close succeeds.
Open(d) ==
  /\ q.db[d] = Gone
  /\ \/ \E c \in Conns :
          /\ ~q.conn[c].open
          /\ Do("open", d, Result([q EXCEPT !.db[d] = c, !.conn[c].open = TRUE], TRUE))
     \/ Do("open", d, Result(q, FALSE))
MoveDatabase(d, e) ==
  /\ q.db[d] = Gone /\ q.db[e] # Gone
  /\ Do("move database", d,
        Result([q EXCEPT !.db[d] = q.db[e], !.db[e] = Null,
                         !.stale = @ \cup {t \in Active(q) : q.g[t] = e}], TRUE))
close(n, d) ==
  LET c == n.db[d]
  IN  CASE c = Null -> [n EXCEPT !.db[d] = Gone]
        [] c # Null /\ OnConn(n, c) # {} -> [n EXCEPT !.end = "abort"]
        [] OTHER -> [n EXCEPT !.db[d] = Gone, !.conn[c] = NoConn, !.left = @ \ {c}]
DestroyDatabase(d) ==
  /\ q.db[d] # Gone
  /\ \A t \in Active(q) : q.g[t] # d
  /\ Do("close", d, Result(close(q, d), TRUE))
Execute(d) ==
  /\ q.db[d] # Gone
  /\ \E r \in execute(q, q.db[d], StepOutcomes(q, q.db[d])) : Do("execute", d, r)

-----------------------------------------------------------------------------
\* statement: constructors, destructor and assignment.
finalize(n, s) ==
  IF n.st[s] \notin Handles THEN n
  ELSE [n EXCEPT !.h[n.st[s]] = NoStmt,
                 !.row = IF @.stmt = n.st[s] THEN [stmt |-> Null, col |-> 0] ELSE @]
move_statement(n, s, r) == [n EXCEPT !.st[s] = n.st[r], !.st[r] = Null]

\* Mutant of assign_statement: the other statement keeps its pointer.
AssignShares(n, s, r) == [finalize(n, s) EXCEPT !.st[s] = n.st[r]]

\* *this is destroyed and constructed again; from itself, it ends up empty.
assign_statement(n, s, r) ==
  IF s = r THEN [finalize(n, s) EXCEPT !.st[s] = Null]
  ELSE move_statement(finalize(n, s), s, r)

Prepare(s, d) ==
  /\ q.st[s] = Gone /\ q.db[d] # Gone
  /\ \/ \E k \in Handles :
          /\ q.db[d] # Null /\ q.h[k].on = Null
          /\ Do("prepare", s,
                Result([q EXCEPT !.st[s] = k, !.h[k].on = q.db[d]], TRUE))
     \/ Do("prepare", s, Result(q, FALSE))
EmptyStatement(s) ==
  q.st[s] = Gone /\ Do("prepare", s, Result([q EXCEPT !.st[s] = Null], TRUE))
MoveStatement(s, r) ==
  /\ q.st[s] = Gone /\ q.st[r] # Gone
  /\ Do("move statement", s, Result(move_statement(q, s, r), TRUE))
AssignStatement(s, r) ==
  /\ q.st[s] # Gone /\ q.st[r] # Gone
  /\ Do("assign statement", s, Result(assign_statement(q, s, r), TRUE))
DestroyStatement(s) ==
  /\ q.st[s] # Gone
  /\ Do("finalize", s, Result([finalize(q, s) EXCEPT !.st[s] = Gone], TRUE))

\* step(): a row, the end, or an error, which reset() then throws once more.
Step(s) ==
  LET k == q.st[s]
      to(n, state) == [n EXCEPT !.h[k].state = state,
                                !.row = IF state = "row" THEN [stmt |-> k, col |-> 1]
                                        ELSE [stmt |-> Null, col |-> 0]]
  IN  /\ k \in Handles
      /\ \E r \in StepOutcomes(q, q.h[k].on), state \in {"row", "ready"} :
           Do("step", s, Result(to(r.n, IF r.ok THEN state ELSE "failed"), r.ok))
Reset(s) ==
  LET k == q.st[s]
  IN  /\ k \in Handles
      /\ Do("reset", s, Result([q EXCEPT !.h[k].state = "ready",
                                      !.row = IF @.stmt = k THEN [stmt |-> Null, col |-> 0]
                                              ELSE @],
                            q.h[k].state # "failed"))

\* binder() << x << ...: count values from parameter 1 on.  A statement that is
\* being stepped, or a parameter it has not, stops the chain with an exception.
Bind(s, count) ==
  LET k == q.st[s]
      fits == IF count < Params THEN count ELSE Params
  IN  /\ k \in Handles
      /\ IF q.h[k].state = "row" THEN Do("bind", s, Result(q, FALSE))
         ELSE Do("bind", s, Result([q EXCEPT !.h[k].bound = IF fits > @ THEN fits ELSE @],
                                count <= Params))

\* result >> x.  The library numbers the columns from 0.  A string cannot be
\* assigned from the null pointer that a column beyond the last one gives.
Fetch(text) ==
  LET beyond == q.row.col >= Columns
  IN  /\ q.row.stmt # Null /\ q.row.col <= Columns
      /\ Do("fetch", "", Result([q EXCEPT !.row.col = @ + 1,
                                     !.end = IF text /\ beyond THEN "crash" ELSE @],
                            ~beyond))

-----------------------------------------------------------------------------
\* transaction.  rollback() is noexcept, so a ROLLBACK that fails ends the program.
rollback(n, t) ==
  IF n.g[t] \notin Databases THEN {n}
  ELSE {IF r.ok THEN [r.n EXCEPT !.g[t] = None, !.stale = @ \ {t}]
        ELSE [r.n EXCEPT !.end = "terminate"] :
          r \in execute(n, ConnOf(n, t), Rollback(n, ConnOf(n, t)))}
\* The guard's transaction is the other guard's from now on.
HandOver(n, t, u) ==
  [n EXCEPT !.g[t] = n.g[u], !.g[u] = None,
            !.stale = IF u \in @ THEN (@ \ {u}) \cup {t} ELSE @,
            !.conn = [c \in Conns |-> [n.conn[c] EXCEPT !.by = IF @ = u THEN t ELSE @]]]


move_assign(n, t, u) ==
  {IF r.end # "no" \/ t = u THEN r ELSE HandOver(r, t, u) : r \in rollback(n, t)}

Guard(t) == q.g[t] = Out /\ Do("guard", t, Result([q EXCEPT !.g[t] = None], TRUE))

\* begin, also in the constructor, which makes no object when it throws.
BeginGuard(t, d) ==
  /\ q.g[t] \in {None, Out} /\ q.db[d] # Gone
  /\ \E r \in execute(q, q.db[d], Begin(q, q.db[d], t)) :
       Do("begin", t, Result(IF r.ok THEN [r.n EXCEPT !.g[t] = d] ELSE r.n, r.ok))
CommitGuard(t) ==
  /\ t \in Active(q)
  /\ \E r \in execute([q EXCEPT !.g[t] = None], ConnOf(q, t),
                      Commit([q EXCEPT !.g[t] = None], ConnOf(q, t))) :
       Do("commit", t, Result([r.n EXCEPT !.stale = @ \ {t},
                                       !.left = @ \cup {c \in Conns : r.n.conn[c].by = t}],
                           r.ok))
RollbackGuard(t) ==
  /\ t \in Active(q)
  /\ \E n \in rollback(q, t) : Do("rollback", t, Result(n, TRUE))
MoveGuard(t, u) ==
  /\ q.g[t] = Out /\ q.g[u] # Out
  /\ Do("move guard", t, Result(HandOver(q, t, u), TRUE))
MoveAssignGuard(t, u) ==
  /\ q.g[t] # Out /\ q.g[u] # Out
  /\ \E n \in move_assign(q, t, u) : Do("move assign guard", t, Result(n, TRUE))
DestroyGuard(t) ==
  /\ q.g[t] # Out
  /\ \E n \in rollback(q, t) :
       Do("destroy guard", t, Result(IF n.end = "no" THEN [n EXCEPT !.g[t] = Out] ELSE n, TRUE))

Next ==
  \/ \E d \in Databases :
       \/ Open(d) \/ DestroyDatabase(d) \/ Execute(d)
       \/ \E e \in Databases : MoveDatabase(d, e)
       \/ \E s \in Statements : Prepare(s, d)
       \/ \E t \in Guards : BeginGuard(t, d)
  \/ \E s \in Statements :
       \/ EmptyStatement(s) \/ DestroyStatement(s) \/ Step(s) \/ Reset(s)
       \/ \E count \in 1 .. Params + 1 : Bind(s, count)
       \/ \E r \in Statements : MoveStatement(s, r) \/ AssignStatement(s, r)
  \/ \E text \in BOOLEAN : Fetch(text)
  \/ \E t \in Guards :
       \/ Guard(t) \/ CommitGuard(t) \/ RollbackGuard(t) \/ DestroyGuard(t)
       \/ \E u \in Guards : MoveGuard(t, u) \/ MoveAssignGuard(t, u)

Spec == Init /\ [][Next]_vars

-----------------------------------------------------------------------------
\* Every prepared statement belongs to one object, which finalizes it, and every
\* connection to one database; so closing fails only over a statement that lives.
HandlesOwned ==
  /\ \A k \in Handles :
       Cardinality({s \in Statements : q.st[s] = k}) = IF q.h[k].on = Null THEN 0 ELSE 1
  /\ \A c \in Conns :
       Cardinality({d \in Databases : q.db[d] = c}) = IF q.conn[c].open THEN 1 ELSE 0
  /\ \A k \in Handles : q.h[k].on # Null => q.conn[q.h[k].on].open

\* An open transaction has the guard that began it, or was handed it, and will be
\* rolled back by that guard, unless its COMMIT failed; and an active guard has an
\* open transaction, unless the library ended it or the database was moved.
TransactionsGuarded ==
  /\ \A c \in Conns : q.conn[c].tx =>
       \/ c \in q.left
       \/ q.conn[c].by \in Active(q)
  /\ \A t \in Active(q) \ q.stale :
       /\ ConnOf(q, t) \in Conns
       /\ q.conn[ConnOf(q, t)].by = t

\* A guard that rolls back does not end the program, unless it is stale.
RollbackSafe ==
  q'.end = "terminate" /\ q.end = "no" => call'.x \in q.stale
=============================================================================
