------------------------- MODULE DatabaseWorkerPool -------------------------
(***************************************************************************)
(* The asynchronous half of DatabaseWorkerPool: CommitTransaction enqueues *)
(* a TransactionTask on the activation queue, worker threads with one      *)
(* MySQLConnection each run it statement by statement                      *)
(* (MySQLConnection::ExecuteTransaction), a failed one is given up or      *)
(* tried again (TransactionTask::Execute), a lost connection is reopened   *)
(* in the middle (_HandleMySQLErrno), and Close shuts the pool down.       *)
(*                                                                         *)
(* The MySQL server and client library are external.  They are modelled by *)
(* what the code relies on: a connection starts in autocommit mode, START  *)
(* TRANSACTION commits what is open, a deadlock and a lost connection roll *)
(* the open transaction back, a refused COMMIT leaves nothing of it, and   *)
(* mysql_errno is the error of the last call.  ROLLBACK is refused only by *)
(* a lost connection.                                                      *)
(***************************************************************************)
EXTENDS Naturals, Sequences, FiniteSets

CONSTANTS
  Workers,     \* WorkerThreads: asynchronous connections and their threads
  Last,        \* transactions 1..Last are committed by callers, in this order
  Size,        \* Size[t]: number of statements of t
  Capacity,    \* requests below the high water mark of the queue
  Faults,      \* what may go wrong: "deadlock", "error", "lost"
  MaxFaults,   \* bound on the number of faults
  LoopBreaker  \* attempts after a deadlock

Txns == 1..Last

ASSUME PoolAssumption ==
  /\ IsFiniteSet(Workers) /\ Workers # {}
  /\ Last \in Nat /\ Capacity \in Nat \ {0}
  /\ Size \in [Txns -> Nat]
  /\ Faults \subseteq {"deadlock", "error", "lost"}
  /\ MaxFaults \in Nat /\ LoopBreaker \in Nat

VARIABLES
  pool,     \* "open", "closing", "closed"
  issued,   \* transactions handed to CommitTransaction so far
  queue,    \* the activation queue
  work,     \* per worker: where it is, its transaction, statement, attempt
  link,     \* per worker: m_Mysql is "up" or "null"
  trx,      \* per worker: the server has a transaction open for it
  temp,     \* per worker: statements executed in that transaction
  errno,    \* per worker: what mysql_errno returns
  rows,     \* statements whose effect is committed, as <<transaction, index>>
  result,   \* per transaction: what became of it
  commits,  \* history: <<worker, transaction>> in the order of the COMMITs
  cause,    \* history: the error that aborted a worker's last attempt
  hit,      \* history: transactions during which the connection was lost, or
            \* whose START TRANSACTION was refused
  refused,  \* history: transactions whose COMMIT the server refused
  faults

connection == <<link, trx, temp, errno>>
vars == <<pool, issued, queue, work, link, trx, temp, errno, rows, result,
          commits, cause, hit, refused, faults>>

Idle == [pc |-> "dequeue", txn |-> 0, stmt |-> 0, attempt |-> 0]
At(pc, t, k, n) == [pc |-> pc, txn |-> t, stmt |-> k, attempt |-> n]
Statements(t) == {t} \X (1..Size[t])

Init ==
  /\ pool = "open"
  /\ issued = 0
  /\ queue = <<>>
  /\ work = [w \in Workers |-> Idle]
  /\ link = [w \in Workers |-> "up"]
  /\ trx = [w \in Workers |-> FALSE]
  /\ temp = [w \in Workers |-> {}]
  /\ errno = [w \in Workers |-> "none"]
  /\ rows = {}
  /\ result = [t \in Txns |-> "pending"]
  /\ commits = <<>>
  /\ cause = [w \in Workers |-> "none"]
  /\ hit = {}
  /\ refused = {}
  /\ faults = 0

TypeOK ==
  /\ pool \in {"open", "closing", "closed"}
  /\ issued \in 0..Last
  /\ queue \in Seq(Txns)
  /\ work \in [Workers -> [pc : {"dequeue", "begin", "stmt", "commit", "rollback",
                                 "aborted", "exited"},
                           txn : 0..Last, stmt : Nat, attempt : 0..LoopBreaker]]
  /\ link \in [Workers -> {"up", "null"}]
  /\ trx \in [Workers -> BOOLEAN]
  /\ temp \in [Workers -> SUBSET (Txns \X Nat)]
  /\ errno \in [Workers -> {"none", "deadlock", "error"}]
  /\ rows \in SUBSET (Txns \X Nat)
  /\ result \in [Txns -> {"pending", "ok", "failed", "flushed"}]
  /\ commits \in Seq(Workers \X Txns)
  /\ cause \in [Workers -> {"none", "deadlock", "error", "lost"}]
  /\ hit \in SUBSET Txns
  /\ refused \in SUBSET Txns
  /\ faults \in 0..MaxFaults

-----------------------------------------------------------------------------
(* Callers *)

\* Mutant: requests are put in front.
CommitTransaction_AtHead ==
  /\ pool = "open"
  /\ issued < Last
  /\ Len(queue) < Capacity
  /\ issued' = issued + 1
  /\ queue' = <<issued + 1>> \o queue
  /\ UNCHANGED <<pool, work, connection, rows, result, commits, cause, hit, refused,
                 faults>>

\* DatabaseWorkerPool::CommitTransaction: Enqueue without a timeout blocks the
\* caller while the queue is full.
CommitTransaction ==
  /\ pool = "open"
  /\ issued < Last
  /\ Len(queue) < Capacity
  /\ issued' = issued + 1
  /\ queue' = Append(queue, issued + 1)
  /\ UNCHANGED <<pool, work, connection, rows, result, commits, cause, hit, refused,
                 faults>>

\* DatabaseWorkerPool::Close: closing the ACE queue deactivates and flushes it.
Close ==
  /\ pool = "open"
  /\ pool' = "closing"
  /\ queue' = <<>>
  /\ result' = [t \in Txns |-> IF \E i \in DOMAIN queue : queue[i] = t
                               THEN "flushed" ELSE result[t]]
  /\ UNCHANGED <<issued, work, connection, rows, commits, cause, hit, refused,
                 faults>>

\* worker->wait() for every asynchronous connection.
JoinWorkers ==
  /\ pool = "closing"
  /\ \A w \in Workers : work[w].pc = "exited"
  /\ pool' = "closed"
  /\ UNCHANGED <<issued, queue, work, connection, rows, result, commits, cause,
                 hit, refused, faults>>

-----------------------------------------------------------------------------
(* A worker thread: DatabaseWorker::svc *)

Go(w, pc) == work' = [work EXCEPT ![w] = At(pc, @.txn, @.stmt, @.attempt)]

\* The transaction is settled, its statements are cleaned up.
Settle(w, outcome) ==
  /\ work' = [work EXCEPT ![w] = Idle]
  /\ result' = [result EXCEPT ![work[w].txn] = outcome]

\* An empty transaction is not executed at all.
StartAttempt(t, n) == At(IF Size[t] = 0 THEN "aborted" ELSE "begin", t, 1, n)

Dequeue(w) ==
  /\ work[w].pc = "dequeue"
  /\ pool = "open"
  /\ queue # <<>>
  /\ queue' = Tail(queue)
  /\ work' = [work EXCEPT ![w] = StartAttempt(Head(queue), 0)]
  /\ UNCHANGED <<pool, issued, connection, rows, result, commits, cause, hit, refused,
                 faults>>

\* The dequeue fails once the queue is closed.
ExitThread(w) ==
  /\ work[w].pc = "dequeue"
  /\ pool # "open"
  /\ Go(w, "exited")
  /\ UNCHANGED <<pool, issued, queue, connection, rows, result, commits, cause,
                 hit, refused, faults>>

\* MySQLConnection::BeginTransaction; its result is not looked at.
Begin(w) ==
  /\ work[w].pc = "begin"
  /\ Go(w, "stmt")
  /\ IF link[w] = "up"
     THEN /\ rows' = rows \cup temp[w]
          /\ trx' = [trx EXCEPT ![w] = TRUE]
          /\ temp' = [temp EXCEPT ![w] = {}]
          /\ errno' = [errno EXCEPT ![w] = "none"]
     ELSE UNCHANGED <<trx, temp, errno, rows>>
  /\ UNCHANGED <<pool, issued, queue, link, result, commits, cause, hit, refused,
                 faults>>

\* The server refuses START TRANSACTION: the attempt goes on in autocommit mode.
BeginRefused(w) ==
  /\ work[w].pc = "begin"
  /\ link[w] = "up"
  /\ "error" \in Faults
  /\ faults < MaxFaults
  /\ faults' = faults + 1
  /\ Go(w, "stmt")
  /\ errno' = [errno EXCEPT ![w] = "error"]
  /\ hit' = hit \cup {work[w].txn}
  /\ UNCHANGED <<pool, issued, queue, link, trx, temp, rows, result, commits, cause,
                 refused>>

NextStatement(w) ==
  LET j == work[w]
  IN  work' = [work EXCEPT ![w] =
                 IF j.stmt = Size[j.txn] THEN At("commit", j.txn, j.stmt, j.attempt)
                 ELSE At("stmt", j.txn, j.stmt + 1, j.attempt)]

\* Execute of the next statement: part of the open transaction, or committed
\* at once when the connection is in autocommit mode.
Statement(w) ==
  /\ work[w].pc = "stmt"
  /\ link[w] = "up"
  /\ LET effect == {<<work[w].txn, work[w].stmt>>}
     IN  IF trx[w]
         THEN temp' = [temp EXCEPT ![w] = @ \cup effect] /\ UNCHANGED rows
         ELSE rows' = rows \cup effect /\ UNCHANGED temp
  /\ errno' = [errno EXCEPT ![w] = "none"]
  /\ NextStatement(w)
  /\ UNCHANGED <<pool, issued, queue, link, trx, result, commits, cause, hit, refused,
                 faults>>

\* Mutant: the error of a statement is not noticed.
StatementFails_Ignored(w, e) ==
  /\ work[w].pc = "stmt"
  /\ link[w] = "up"
  /\ faults < MaxFaults
  /\ e \in Faults \ {"lost"}
  /\ faults' = faults + 1
  /\ errno' = [errno EXCEPT ![w] = e]
  /\ IF e = "deadlock"
     THEN trx' = [trx EXCEPT ![w] = FALSE] /\ temp' = [temp EXCEPT ![w] = {}]
     ELSE UNCHANGED <<trx, temp>>
  /\ NextStatement(w)
  /\ UNCHANGED <<pool, issued, queue, link, rows, result, commits, cause, hit, refused>>

\* The server refuses the statement; a deadlock victim is rolled back.
StatementFails(w, e) ==
  /\ work[w].pc = "stmt"
  /\ link[w] = "up"
  /\ faults < MaxFaults
  /\ e \in Faults \ {"lost"}
  /\ faults' = faults + 1
  /\ errno' = [errno EXCEPT ![w] = e]
  /\ cause' = [cause EXCEPT ![w] = e]
  /\ IF e = "deadlock"
     THEN trx' = [trx EXCEPT ![w] = FALSE] /\ temp' = [temp EXCEPT ![w] = {}]
     ELSE UNCHANGED <<trx, temp>>
  /\ Go(w, "rollback")
  /\ UNCHANGED <<pool, issued, queue, link, rows, result, commits, hit, refused>>

\* Execute returns false at once when m_Mysql is null.
StatementOnNull(w) ==
  /\ work[w].pc = "stmt"
  /\ link[w] = "null"
  /\ Go(w, "rollback")
  /\ UNCHANGED <<pool, issued, queue, connection, rows, result, commits, cause,
                 hit, refused, faults>>

\* MySQLConnection::CommitTransaction; its result is not looked at and
\* ExecuteTransaction returns true.
Commit(w) ==
  /\ work[w].pc = "commit"
  /\ Settle(w, "ok")
  /\ IF link[w] = "up"
     THEN /\ rows' = rows \cup temp[w]
          /\ commits' = Append(commits, <<w, work[w].txn>>)
          /\ trx' = [trx EXCEPT ![w] = FALSE]
          /\ temp' = [temp EXCEPT ![w] = {}]
          /\ errno' = [errno EXCEPT ![w] = "none"]
     ELSE UNCHANGED <<trx, temp, errno, rows, commits>>
  /\ UNCHANGED <<pool, issued, queue, link, cause, hit, refused, faults>>

\* The server refuses COMMIT and rolls back; ExecuteTransaction returns true all
\* the same.
CommitRefused(w) ==
  /\ work[w].pc = "commit"
  /\ link[w] = "up"
  /\ "error" \in Faults
  /\ faults < MaxFaults
  /\ faults' = faults + 1
  /\ Settle(w, "ok")
  /\ trx' = [trx EXCEPT ![w] = FALSE]
  /\ temp' = [temp EXCEPT ![w] = {}]
  /\ errno' = [errno EXCEPT ![w] = "error"]
  /\ refused' = refused \cup {work[w].txn}
  /\ UNCHANGED <<pool, issued, queue, link, rows, commits, cause, hit>>

\* Mutant: ROLLBACK is not sent.
Rollback_NotSent(w) ==
  /\ work[w].pc = "rollback"
  /\ Go(w, "aborted")
  /\ UNCHANGED <<pool, issued, queue, connection, rows, result, commits, cause,
                 hit, refused, faults>>

\* MySQLConnection::RollbackTransaction: one more call of the client library,
\* after which mysql_errno is that of ROLLBACK.
Rollback(w) ==
  /\ work[w].pc = "rollback"
  /\ Go(w, "aborted")
  /\ trx' = [trx EXCEPT ![w] = FALSE]
  /\ temp' = [temp EXCEPT ![w] = {}]
  /\ errno' = [errno EXCEPT ![w] = "none"]
  /\ UNCHANGED <<pool, issued, queue, link, rows, result, commits, cause, hit, refused,
                 faults>>

\* Mutant: the thread ends when a transaction fails.
Aborted_EndsThread(w) ==
  /\ work[w].pc = "aborted"
  /\ Go(w, "exited")
  /\ result' = [result EXCEPT ![work[w].txn] = "failed"]
  /\ UNCHANGED <<pool, issued, queue, connection, rows, commits, cause, hit, refused,
                 faults>>

\* TransactionTask::Execute after ExecuteTransaction returned false: the first
\* time errno decides whether to try again, then the loop breaker does.
Aborted(w) ==
  /\ work[w].pc = "aborted"
  /\ LET j == work[w]
         again == IF j.attempt = 0 THEN errno[w] = "deadlock" /\ LoopBreaker > 0
                  ELSE j.attempt < LoopBreaker
     IN  IF again
         THEN /\ work' = [work EXCEPT ![w] = StartAttempt(j.txn, j.attempt + 1)]
              /\ UNCHANGED result
         ELSE Settle(w, "failed")
  /\ UNCHANGED <<pool, issued, queue, connection, rows, commits, cause, hit, refused,
                 faults>>

\* The connection breaks during a call.  _HandleMySQLErrno opens a new one, in
\* autocommit mode, and Execute issues the same statement again; or Open fails
\* and Execute returns false, with m_Mysql null or, when only PrepareStatements
\* failed, on the new connection.  A COMMIT or an autocommitted statement may
\* have reached the server.
ConnectionLost(w) ==
  LET j == work[w]
      inFlight == IF j.pc = "commit" THEN temp[w]
                  ELSE IF j.pc = "stmt" /\ ~trx[w] THEN {<<j.txn, j.stmt>>} ELSE {}
  IN
  /\ j.pc \in {"begin", "stmt", "commit", "rollback"}
  /\ link[w] = "up"
  /\ "lost" \in Faults
  /\ faults < MaxFaults
  /\ faults' = faults + 1
  /\ cause' = [cause EXCEPT ![w] = "lost"]
  /\ hit' = hit \cup {j.txn}
  /\ rows' \in {rows, rows \cup inFlight}
  /\ trx' = [trx EXCEPT ![w] = FALSE]
  /\ temp' = [temp EXCEPT ![w] = {}]
  /\ errno' = [errno EXCEPT ![w] = "none"]
  /\ \/ UNCHANGED <<work, link, result>>
     \/ /\ link' \in {link, [link EXCEPT ![w] = "null"]}
        /\ CASE j.pc = "begin"    -> Go(w, "stmt") /\ UNCHANGED result
             [] j.pc = "stmt"     -> Go(w, "rollback") /\ UNCHANGED result
             [] j.pc = "rollback" -> Go(w, "aborted") /\ UNCHANGED result
             [] j.pc = "commit"   -> Settle(w, "ok")
  /\ UNCHANGED <<pool, issued, queue, commits, refused>>

Worker(w) ==
  \/ Dequeue(w)
  \/ ExitThread(w)
  \/ Begin(w)
  \/ BeginRefused(w)
  \/ Statement(w)
  \/ \E e \in Faults : StatementFails(w, e)
  \/ StatementOnNull(w)
  \/ Commit(w)
  \/ CommitRefused(w)
  \/ Rollback(w)
  \/ Aborted(w)
  \/ ConnectionLost(w)

Next ==
  \/ CommitTransaction
  \/ Close
  \/ JoinWorkers
  \/ \E w \in Workers : Worker(w)
  \/ pool = "closed" /\ UNCHANGED vars

\* Worker threads keep running; nobody has to commit or to close.
Spec == Init /\ [][Next]_vars /\ \A w \in Workers : WF_vars(Worker(w))

-----------------------------------------------------------------------------
(* Properties *)

Whole(t) == Statements(t) \subseteq rows \/ Statements(t) \cap rows = {}

\* A transaction is committed as a whole or not at all, in every state that
\* another connection can observe.
AllOrNothing == \A t \in Txns : Whole(t)

\* The same for every transaction whose START TRANSACTION was accepted and during
\* which the connection stayed up, whatever failed, deadlocked or broke before it
\* on that connection: ROLLBACK leaves nothing open for the next one to commit.
AtomicWhileConnected == \A t \in Txns \ hit : Whole(t)

TrueReport(t) ==
  /\ result[t] = "ok" /\ t \notin refused => Statements(t) \subseteq rows
  /\ result[t] = "failed" \/ t \in refused => Statements(t) \cap rows = {}

\* What ExecuteTransaction reports is what the tables show, for the transactions
\* of AtomicWhileConnected: one given up after its retries left nothing behind,
\* and of those reported as done only the refused COMMITs are missing, as a whole.
ReportsAreTrue == \A t \in Txns \ hit : TrueReport(t)

\* What is reported as done is in the tables; no exception for refused COMMITs.
SuccessIsDurable ==
  \A t \in Txns \ hit : result[t] = "ok" => Statements(t) \subseteq rows

\* A connection commits transactions in the order in which they were handed to
\* CommitTransaction, so that with one worker a later save of a character is
\* never overwritten by an earlier one.
InOrder ==
  \A i, j \in DOMAIN commits :
    i < j /\ commits[i][1] = commits[j][1] => commits[i][2] < commits[j][2]

\* Every transaction handed over is committed, given up or dropped by Close;
\* none is forgotten, and errors do not stop the worker.
EverySettles == \A t \in Txns : issued >= t ~> result[t] # "pending"

\* A transaction that loses a deadlock is tried again, up to LoopBreaker times.
DeadlockIsRetried ==
  [][\A w \in Workers :
       /\ work[w].pc = "aborted" /\ cause[w] = "deadlock"
       /\ work[w].attempt < LoopBreaker
       /\ work'[w] # work[w]
       => work'[w].pc = "begin"]_vars

\* Closing the pool loses no transaction that was handed to CommitTransaction.
NothingFlushed == \A t \in Txns : result[t] # "flushed"

=============================================================================
