--------------------------- MODULE DatabaseClient ---------------------------
(***************************************************************************)
(* The database client (database/src/client.ts): callers of one root       *)
(* client wait for the mutex of SQLite or for a connection of the Postgres *)
(* pool; a transaction is ambient in the async context of its callback,    *)
(* where further transactions of the root or of an inner client become     *)
(* savepoints; a task that the callback does not await inherits the        *)
(* context and may outlive it.                                             *)
(*                                                                         *)
(* The data are the writes that reach the database: a callback may make    *)
(* any sequence of statements and nested transactions, one at a time, and  *)
(* catch or throw what they reject with.                                   *)
(***************************************************************************)
EXTENDS Naturals, Sequences, FiniteSets, FiniteSetsExt

CONSTANTS Tasks,       \* async contexts that call the root client, once each
          PoolSize,    \* connections of the Postgres pool
          MaxSteps,    \* bound on the statements and nested calls of the callbacks
          MaxDepth,    \* bound on the transactions that are open in each other
          MaxChildren, \* bound on the tasks that callbacks do not await
          MaxFaults,   \* bound on connections lost at a COMMIT
          Adapters,    \* adapters that this instance checks
          None         \* no connection, no savepoint

VARIABLES adapter, \* DATABASE_DIALECT
          task,    \* the root client's callers
          child,   \* the task that a callback started and did not await
          queue,   \* who waits for the mutex, or for a connection, in order
          conn,    \* connections: on SQLite, the one handle
          db,      \* the writes that are committed
          steps, faults \* counters of the bounds

counters == <<steps, faults>>
vars == <<adapter, task, child, queue, conn, db, counters>>

ASSUME DatabaseClientConstants ==
    /\ PoolSize \in Nat \ {0}
    /\ MaxSteps \in Nat \ {0}
    /\ MaxDepth \in Nat \ {0}
    /\ MaxChildren \in Nat
    /\ MaxFaults \in Nat
    /\ Adapters \subseteq {"sqlite", "postgres"}
    /\ None \notin Nat

-----------------------------------------------------------------------------
Connections == 1 .. PoolSize

Write == Tasks \X (0 .. MaxSteps) \* 0: the child's

\* An open transaction of a caller, the outermost first.
Client == [depth : Nat,               \* #savepointDepth of a Postgres client
           via   : 0 .. MaxDepth,     \* the client that it was called on, 0 the root
           name  : Nat \cup {None},   \* its savepoint
           made  : SUBSET Write,      \* history: what it wrote, or a nested one that resolved
           spoilt : BOOLEAN]          \* history: a transaction nested in it was rejected

Task == [pc      : {"idle", "queued", "open", "ending", "ended"},
         call    : {"statement", "transaction"},
         conn    : Connections \cup {None},
         clients : Seq(Client),
         outcome : {"none", "resolved", "rejected", "unknown"},
         spared  : SUBSET Write, \* history: written by spoilt transactions that were rejected
         refused : BOOLEAN]      \* history: Postgres has refused a statement in its
                                 \* transaction, and no savepoint was rolled back to since

Savepoint == [name : Nat \cup {None}, writes : SUBSET Write]

Connection == [stack   : Seq(Savepoint), \* what is not committed, the BEGIN first
               aborted : BOOLEAN]        \* Postgres refuses all but a ROLLBACK

Child == [pc : {"none", "running", "calling", "ended"}, stray : BOOLEAN]

TypeOK ==
    /\ adapter \in Adapters
    /\ task \in [Tasks -> Task]
    /\ child \in [Tasks -> Child]
    /\ queue \in Seq(Tasks)
    /\ conn \in [Connections -> Connection]
    /\ db \in SUBSET Write
    /\ steps \in Nat
    /\ faults \in Nat

Idle == [stack |-> <<>>, aborted |-> FALSE]

Opened(via, name) ==
    [depth |-> 0, via |-> via, name |-> name, made |-> {}, spoilt |-> FALSE]

Init ==
    /\ adapter \in Adapters
    /\ task = [t \in Tasks |-> [pc |-> "idle", call |-> "statement", conn |-> None,
                                clients |-> <<>>, outcome |-> "none",
                                spared |-> {}, refused |-> FALSE]]
    /\ child = [t \in Tasks |-> [pc |-> "none", stray |-> FALSE]]
    /\ queue = <<>>
    /\ conn = [c \in Connections |-> Idle]
    /\ db = {}
    /\ steps = 0
    /\ faults = 0

-----------------------------------------------------------------------------
(* What a connection does.                                                 *)

At(stack, name) == Max({k \in DOMAIN stack : stack[k].name = name})

\* RELEASE: what came since the last savepoint of the name joins what was before.
Released(stack, name) ==
    LET k == At(stack, name) IN
    [SubSeq(stack, 1, k - 1) EXCEPT ![k - 1].writes =
        UNION {stack[j].writes : j \in k - 1 .. Len(stack)}]

\* ROLLBACK TO: what came since is undone, and the savepoint stays.
RolledBack(stack, name) ==
    LET k == At(stack, name) IN [SubSeq(stack, 1, k) EXCEPT ![k].writes = {}]

\* A nested transaction is rejected: SQLite releases the savepoint as well.
Undone(stack, name) ==
    IF adapter = "sqlite" THEN Released(RolledBack(stack, name), name)
    ELSE RolledBack(stack, name)

Written(stack, w) == [stack EXCEPT ![Len(stack)].writes = @ \cup {w}]

AllOf(stack) == UNION {stack[k].writes : k \in DOMAIN stack}

\* Mutation: a transaction's client never closes.
ClosedNever(t) == task[t].pc = "none"

\* The client of the transaction of t refuses calls.
Closed(t) == task[t].pc = "ended"

-----------------------------------------------------------------------------
(* The callers of the root client.                                         *)

Call(t, call) ==
    /\ task[t].pc = "idle"
    /\ task' = [task EXCEPT ![t].pc = "queued", ![t].call = call]
    /\ queue' = Append(queue, t)
    /\ UNCHANGED <<adapter, child, conn, db, counters>>

\* The mutex, or a connection, is free; no statement that was called before its
\* transaction had ended is still on its way.
Usable(c) ==
    /\ adapter = "sqlite" => c = 1
    /\ \A t \in Tasks : task[t].conn = c =>
           task[t].pc = "ended" /\ child[t].pc # "calling"

\* It is given to the one who waits longest: for a statement, which ends the
\* call, or for a BEGIN.
Serve(c) ==
    /\ queue # <<>>
    /\ Usable(c)
    /\ LET t == Head(queue)
           Ran(outcome, made) ==
               /\ task' = [task EXCEPT ![t].pc = "ended", ![t].outcome = outcome,
                                       ![t].clients = <<[Opened(0, None) EXCEPT !.made = made]>>]
               /\ db' = db \cup made
               /\ UNCHANGED conn
       IN \/ /\ task[t].call = "statement"
             /\ Ran("resolved", {<<t, 1>>}) \/ Ran("rejected", {})
          \/ /\ task[t].call = "transaction"
             /\ task' = [task EXCEPT ![t].pc = "open", ![t].conn = c,
                                     ![t].clients = <<Opened(0, None)>>]
             /\ conn' = [conn EXCEPT ![c].stack = <<[name |-> None, writes |-> {}]>>]
             /\ UNCHANGED db
    /\ queue' = Tail(queue)
    /\ UNCHANGED <<adapter, child, counters>>

-----------------------------------------------------------------------------
(* The callback of a transaction.                                          *)

Depth(t) == Len(task[t].clients)

Made(t) == task[t].clients[1].made

\* The callback is at its next step, which the server accepts or not.
Step(t, accepted) ==
    /\ task[t].pc = "open"
    /\ steps < MaxSteps
    /\ steps' = steps + 1
    /\ conn[task[t].conn].aborted = ~accepted

\* Mutation: a statement of the root client waits for the mutex.
StatementQueued(t) ==
    /\ Step(t, TRUE)
    /\ task' = [task EXCEPT ![t].pc = "queued", ![t].call = "statement"]
    /\ queue' = Append(queue, t)
    /\ UNCHANGED <<adapter, child, conn, db, faults>>

\* A statement, of the root or of an inner client: it runs on the connection of
\* the transaction.
Statement(t) ==
    /\ Step(t, TRUE)
    /\ LET w == <<t, steps'>> IN
       /\ task' = [task EXCEPT ![t].clients[Depth(t)].made = @ \cup {w}]
       /\ conn' = [conn EXCEPT ![task[t].conn].stack = Written(@, w)]
    /\ UNCHANGED <<adapter, child, queue, db, faults>>

\* The server refuses a statement: Postgres aborts the transaction with it.
Refuses(t) ==
    LET aborts == adapter = "postgres" IN
    /\ task' = [task EXCEPT ![t].refused = aborts]
    /\ conn' = [conn EXCEPT ![task[t].conn].aborted = aborts]

\* A statement is rejected.
StatementFails(t) ==
    /\ Step(t, TRUE)
    /\ Refuses(t)
    /\ UNCHANGED <<adapter, child, queue, db, faults>>

\* The client of a nested transaction is the same on SQLite, a new one on Postgres.
SavepointName(t, i) ==
    IF adapter = "sqlite" THEN Depth(t) - 1 ELSE task[t].clients[i].depth

\* transaction() is called on the i-th client, the first if it is the root.
Nest(t, i) ==
    /\ Step(t, TRUE)
    /\ Depth(t) < MaxDepth
    /\ LET name == SavepointName(t, i)
           clients == task[t].clients
       IN
       /\ task' = [task EXCEPT ![t].clients =
                      Append([clients EXCEPT ![i].depth = @ + 1], Opened(i, name))]
       /\ conn' = [conn EXCEPT ![task[t].conn].stack =
                      Append(@, [name |-> name, writes |-> {}])]
    /\ UNCHANGED <<adapter, child, queue, db, faults>>

\* The SAVEPOINT is refused, and the depth is not taken back.
NestRefused(t, i) ==
    /\ Step(t, FALSE)
    /\ task' = [task EXCEPT ![t].clients[i].depth = @ + 1]
    /\ UNCHANGED <<adapter, child, queue, conn, db, faults>>

\* The clients once the innermost has ended.
Popped(t, resolved) ==
    LET clients == task[t].clients
        inner == clients[Depth(t)]
        rest == SubSeq(clients, 1, Depth(t) - 1)
    IN [[rest EXCEPT ![inner.via].depth = @ - 1]
           EXCEPT ![Depth(t) - 1].made = IF resolved THEN @ \cup inner.made ELSE @,
                  ![Depth(t) - 1].spoilt = @ \/ ~resolved \/ inner.spoilt]

\* The callback of a nested transaction returns.
Resolve(t) ==
    /\ task[t].pc = "open"
    /\ Depth(t) > 1
    /\ ~conn[task[t].conn].aborted
    /\ task' = [task EXCEPT ![t].clients = Popped(t, TRUE)]
    /\ conn' = [conn EXCEPT ![task[t].conn].stack =
                   Released(@, task[t].clients[Depth(t)].name)]
    /\ UNCHANGED <<adapter, child, queue, db, counters>>

\* It throws, or its RELEASE is refused.
Reject(t) ==
    /\ task[t].pc = "open"
    /\ Depth(t) > 1
    /\ LET inner == task[t].clients[Depth(t)] IN
       /\ task' = [task EXCEPT ![t].clients = Popped(t, FALSE),
              ![t].spared = IF inner.spoilt THEN @ \cup inner.made ELSE @,
              ![t].refused = FALSE]
       /\ conn' = [conn EXCEPT ![task[t].conn] =
                      [stack |-> Undone(@.stack, inner.name), aborted |-> FALSE]]
    /\ UNCHANGED <<adapter, child, queue, db, counters>>

\* Mutation: the call is given a state that it does not have.
ReturnMisspelt(t, outcome) ==
    /\ task[t].pc = "open"
    /\ Depth(t) = 1
    /\ task' = [task EXCEPT ![t].pc = "closing", ![t].outcome = outcome]
    /\ UNCHANGED <<adapter, child, queue, conn, db, counters>>

\* The outermost callback settles: COMMIT or ROLLBACK comes next, after what has
\* been called before.
Return(t, outcome) ==
    /\ task[t].pc = "open"
    /\ Depth(t) = 1
    /\ child[t].pc # "calling"
    /\ task' = [task EXCEPT ![t].pc = "ending", ![t].outcome = outcome]
    /\ UNCHANGED <<adapter, child, queue, conn, db, counters>>

\* The transaction has ended with an outcome, and its writes are committed or not.
Ends(t, outcome, committed) ==
    /\ task' = [task EXCEPT ![t].pc = "ended", ![t].outcome = outcome,
                            ![t].clients = <<[Opened(0, None) EXCEPT !.made = Made(t)]>>]
    /\ db' = IF committed THEN db \cup AllOf(conn[task[t].conn].stack) ELSE db
    /\ conn' = [conn EXCEPT ![task[t].conn] = Idle]
    /\ UNCHANGED <<adapter, child, queue>>

\* COMMIT: of an aborted transaction it is a ROLLBACK, and no error.
Commit(t) ==
    /\ task[t].pc = "ending"
    /\ task[t].outcome = "resolved"
    /\ Ends(t, "resolved", ~conn[task[t].conn].aborted)
    /\ UNCHANGED counters

\* Mutation: the error of the COMMIT is not thrown again.
RollbackSilent(t) ==
    /\ task[t].pc = "ending"
    /\ Ends(t, task[t].outcome, FALSE)
    /\ UNCHANGED counters

\* ROLLBACK: after an error of the callback, or of the COMMIT.
Rollback(t) ==
    /\ task[t].pc = "ending"
    /\ Ends(t, "rejected", FALSE)
    /\ UNCHANGED counters

\* The connection is lost on the COMMIT, which is carried out or not.
LoseCommit(t, committed) ==
    /\ adapter = "postgres"
    /\ faults < MaxFaults
    /\ faults' = faults + 1
    /\ task[t].pc = "ending"
    /\ task[t].outcome = "resolved"
    /\ committed => ~conn[task[t].conn].aborted
    /\ Ends(t, "unknown", committed)
    /\ UNCHANGED steps

-----------------------------------------------------------------------------
(* A task that the callback starts and does not await.                     *)

Detach(t) ==
    /\ task[t].pc = "open"
    /\ child[t].pc = "none"
    /\ Cardinality({u \in Tasks : child[u].pc # "none"}) < MaxChildren
    /\ child' = [child EXCEPT ![t].pc = "running"]
    /\ UNCHANGED <<adapter, task, queue, conn, db, counters>>

\* It calls the root client, or the transaction's: refused if that is closed.
ChildCalls(t) ==
    /\ child[t].pc = "running"
    /\ child' = [child EXCEPT ![t].pc = IF Closed(t) THEN "ended" ELSE "calling"]
    /\ UNCHANGED <<adapter, task, queue, conn, db, counters>>

\* Its statement runs a microtask later on the connection, whatever is open there,
\* and may be refused.
ChildStatement(t) ==
    /\ child[t].pc = "calling"
    /\ LET c == task[t].conn
           w == <<t, 0>>
       IN \/ /\ conn[c].aborted \/ conn[c].stack = <<>>
             /\ child' = [child EXCEPT ![t].pc = "ended"]
             /\ UNCHANGED <<task, conn, db>>
          \/ /\ ~conn[c].aborted
             /\ conn[c].stack # <<>>
             /\ child' = [child EXCEPT ![t].pc = "ended"]
             /\ Refuses(t)
             /\ UNCHANGED db
          \/ /\ ~conn[c].aborted
             /\ conn[c].stack # <<>>
             /\ child' = [child EXCEPT ![t].pc = "ended"]
             /\ conn' = [conn EXCEPT ![c].stack = Written(@, w)]
             /\ task' = [task EXCEPT ![t].clients[Depth(t)].made = @ \cup {w}]
             /\ UNCHANGED db
          \/ /\ conn[c].stack = <<>>
             /\ child' = [child EXCEPT ![t] = [pc |-> "ended", stray |-> TRUE]]
             /\ db' = db \cup {w}
             /\ UNCHANGED <<task, conn>>
    /\ UNCHANGED <<adapter, queue, counters>>

-----------------------------------------------------------------------------
Callback(t) ==
    \/ Statement(t)
    \/ StatementFails(t)
    \/ \E i \in 1 .. Depth(t) : Nest(t, i) \/ NestRefused(t, i)
    \/ Resolve(t)
    \/ Reject(t)
    \/ \E outcome \in {"resolved", "rejected"} : Return(t, outcome)

End(t) ==
    \/ Commit(t)
    \/ Rollback(t)
    \/ \E committed \in BOOLEAN : LoseCommit(t, committed)

ChildStep(t) == ChildCalls(t) \/ ChildStatement(t)

Next ==
    \/ \E t \in Tasks :
        \/ \E call \in {"statement", "transaction"} : Call(t, call)
        \/ Callback(t)
        \/ End(t)
        \/ Detach(t)
        \/ ChildStep(t)
    \/ \E c \in Connections : Serve(c)

Spec == Init /\ [][Next]_vars

\* The mutex and the pool serve who waits, and every callback settles.
Fairness ==
    /\ WF_vars(\E c \in Connections : Serve(c))
    /\ \A t \in Tasks : WF_vars(Callback(t)) /\ WF_vars(End(t)) /\ WF_vars(ChildStep(t))

FairSpec == Spec /\ Fairness

-----------------------------------------------------------------------------
(* Properties.                                                             *)

\* A call that has resolved has all that it wrote in the database, and what its
\* nested transactions that resolved wrote.  Excepted is, on Postgres, a
\* transaction in which a statement was refused, whose error the callback caught
\* or the statement was of a task that it did not await, and no savepoint was
\* rolled back to since: its COMMIT is a ROLLBACK without an error, and the call
\* resolves with nothing kept.
ResolvedIsKept ==
    \A t \in Tasks : Closed(t) /\ task[t].outcome = "resolved" /\ ~task[t].refused
                     => Made(t) \subseteq db

\* The same without the exception: the transaction commits when the callback
\* resolves.
CommitsWhenResolved ==
    \A t \in Tasks : Closed(t) /\ task[t].outcome = "resolved" => Made(t) \subseteq db

\* Nothing else of a call is in the database: nothing before it has ended,
\* nothing of a rejected transaction, outermost or nested, or of one that Postgres
\* has aborted, and nothing that another's transaction has carried with it.
\* Excepted are a statement of a task that was called when the transaction was
\* ending and, on Postgres, what a nested transaction wrote in which another one
\* had been rejected.
NothingElseIsKept ==
    \A t \in Tasks : \A w \in db : w[1] = t =>
        \/ /\ Closed(t) /\ task[t].outcome \in {"resolved", "unknown"}
           /\ ~task[t].refused
           /\ \/ w \in Made(t)
              \/ adapter = "postgres" /\ w \in task[t].spared
        \/ child[t].stray /\ w = <<t, 0>>

\* The same without the last exception: a nested transaction that is rejected
\* leaves nothing.
NestedIsUndone ==
    \A t \in Tasks : \A w \in db : w[1] = t =>
        w \in Made(t) \/ child[t].stray

\* Every call of the root client ends: no statement and no transaction inside a
\* callback waits for what the callback itself holds, even if every connection is
\* taken.
EveryCallEnds == \A t \in Tasks : task[t].pc = "queued" ~> task[t].pc = "ended"

=============================================================================
