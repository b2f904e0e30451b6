---------------------- MODULE DatabaseWorkerPoolProofs ----------------------
(***************************************************************************)
(* Proofs about DatabaseWorkerPool for any number of workers, transactions *)
(* and faults, and transactions of any size.                               *)
(***************************************************************************)
EXTENDS DatabaseWorkerPool, TLAPS

\* Appending keeps the elements and adds one.
LEMMA AppendOf ==
  ASSUME NEW S, NEW s \in Seq(S), NEW e \in S
  PROVE  /\ Append(s, e) \in Seq(S) /\ Len(s) \in Nat
         /\ DOMAIN s = 1..Len(s) /\ DOMAIN Append(s, e) = 1..(Len(s) + 1)
         /\ \A i \in 1..Len(s) : Append(s, e)[i] = s[i] /\ s[i] \in S
         /\ Append(s, e)[Len(s) + 1] = e
  OBVIOUS

\* Taking the first element leaves the others, in their order.
LEMMA TailOf ==
  ASSUME NEW S, NEW s \in Seq(S), s # <<>>
  PROVE  /\ Tail(s) \in Seq(S) /\ Len(s) \in Nat \ {0} /\ Len(Tail(s)) = Len(s) - 1
         /\ DOMAIN s = 1..Len(s) /\ DOMAIN Tail(s) = 1..(Len(s) - 1)
         /\ Head(s) = s[1] /\ s[1] \in S
         /\ \A i \in 1..(Len(s) - 1) : Tail(s)[i] = s[i + 1]
  OBVIOUS

Active(w) == work[w].pc \notin {"dequeue", "exited"}

Jobs == [pc : {"dequeue", "begin", "stmt", "commit", "rollback", "aborted", "exited"},
         txn : 0..Last, stmt : Nat, attempt : Nat]

\* The types the proofs need.
Types ==
  /\ issued \in 0..Last
  /\ queue \in Seq(Txns)
  /\ work \in [Workers -> Jobs]
  /\ \A w \in Workers : Active(w) => work[w].txn \in Txns
  /\ link \in [Workers -> {"up", "null"}]
  /\ trx \in [Workers -> BOOLEAN]
  /\ temp \in [Workers -> SUBSET (Txns \X Nat)]
  /\ rows \in SUBSET (Txns \X Nat)
  /\ result \in [Txns -> {"pending", "ok", "failed", "flushed"}]
  /\ commits \in Seq(Workers \X Txns)
  /\ hit \in SUBSET Txns
  /\ refused \in SUBSET Txns

\* InOrder is not inductive: what a worker committed must be older than what it
\* works on, and that older than everything queued.
OrderInv ==
  /\ \A i, j \in DOMAIN queue : i < j => queue[i] < queue[j]
  /\ \A i \in DOMAIN queue : queue[i] <= issued
  /\ \A w \in Workers : Active(w) =>
       /\ work[w].txn <= issued
       /\ \A i \in DOMAIN queue : work[w].txn < queue[i]
  /\ \A i \in DOMAIN commits :
       /\ commits[i][2] <= issued
       /\ \A j \in DOMAIN queue : commits[i][2] < queue[j]
       /\ \A w \in Workers : commits[i][1] = w /\ Active(w) => commits[i][2] < work[w].txn
  /\ InOrder

Untouched(t) == Statements(t) \cap rows = {}

\* What a worker has done for its transaction.
Own(w) ==
  /\ work[w].pc \in {"dequeue", "exited", "begin", "aborted"} \/ link[w] = "null"
       => temp[w] = {}
  /\ Active(w) =>
       /\ result[work[w].txn] = "pending"
       /\ temp[w] \subseteq Statements(work[w].txn)
       /\ work[w].txn \notin hit => Untouched(work[w].txn)
  /\ work[w].pc \in {"begin", "stmt", "commit", "rollback"} =>
       work[w].stmt \in 1..Size[work[w].txn]
  /\ work[w].pc = "begin" => work[w].stmt = 1
  /\ work[w].pc = "stmt" /\ link[w] = "up" /\ work[w].txn \notin hit =>
       trx[w] /\ temp[w] = {work[w].txn} \X (1..(work[w].stmt - 1))
  /\ work[w].pc = "commit" /\ work[w].txn \notin hit =>
       link[w] = "up" /\ temp[w] = Statements(work[w].txn)

\* A transaction is in the queue, or with one worker, or settled.
OwnInv ==
  /\ \A w \in Workers : Own(w)
  /\ \A v, w \in Workers :
       Active(v) /\ Active(w) /\ work[v].txn = work[w].txn => v = w
  /\ \A t \in Txns : t > issued \/ (\E i \in DOMAIN queue : queue[i] = t) =>
       Untouched(t) /\ result[t] = "pending"
  /\ \A t \in refused : result[t] = "ok"
  /\ AtomicWhileConnected
  /\ ReportsAreTrue

-----------------------------------------------------------------------------
(* Types *)

\* A job is told by its fields.
LEMMA JobFields ==
  ASSUME NEW pc, NEW t, NEW k, NEW n
  PROVE  /\ At(pc, t, k, n).pc = pc /\ At(pc, t, k, n).txn = t
         /\ At(pc, t, k, n).stmt = k /\ At(pc, t, k, n).attempt = n
         /\ Idle.pc = "dequeue" /\ Idle.txn = 0
         /\ Idle \in Jobs
  BY PoolAssumption DEF At, Idle, Jobs

\* What an attempt of ExecuteTransaction starts with.
LEMMA AttemptFields ==
  ASSUME NEW t \in Txns, NEW n \in Nat
  PROVE  /\ StartAttempt(t, n) \in Jobs
         /\ StartAttempt(t, n).txn = t /\ StartAttempt(t, n).stmt = 1
         /\ StartAttempt(t, n).pc = IF Size[t] = 0 THEN "aborted" ELSE "begin"
  BY PoolAssumption DEF StartAttempt, At, Jobs, Txns

\* What every step of a worker does to the others, and where it leads.
LEMMA WorkStep ==
  ASSUME Types, NEW w \in Workers, Worker(w)
  PROVE  /\ work' \in [Workers -> Jobs]
         /\ \A v \in Workers \ {w} : work'[v] = work[v]
         /\ Active(w)' => work'[w].txn \in Txns
<1>1. /\ work[w] \in Jobs /\ work[w].txn \in 0..Last /\ work[w].stmt \in Nat
      /\ work[w].attempt \in Nat
      /\ Active(w) => work[w].txn \in Txns
  BY DEF Types, Jobs
<1>2. ASSUME NEW j \in Jobs, work' = [work EXCEPT ![w] = j],
             j.pc \notin {"dequeue", "exited"} => j.txn \in Txns
      PROVE  /\ work' \in [Workers -> Jobs]
             /\ \A v \in Workers \ {w} : work'[v] = work[v]
             /\ Active(w)' => work'[w].txn \in Txns
  BY <1>2 DEF Types, Active
<1>3. ASSUME NEW pc \in {"stmt", "rollback", "aborted", "exited"}, Go(w, pc),
             pc # "exited" => Active(w)
      PROVE  /\ work' \in [Workers -> Jobs]
             /\ \A v \in Workers \ {w} : work'[v] = work[v]
             /\ Active(w)' => work'[w].txn \in Txns
  <2> DEFINE j == At(pc, work[w].txn, work[w].stmt, work[w].attempt)
  <2>1. j \in Jobs /\ j.pc = pc /\ j.txn = work[w].txn
    BY <1>1 DEF At, Jobs
  <2>2. work' = [work EXCEPT ![w] = j]
    BY <1>3 DEF Go
  <2> HIDE DEF j
  <2> QED
    BY <1>1, <1>2, <1>3, <2>1, <2>2
<1>4. ASSUME NEW o, Settle(w, o)
      PROVE  /\ work' \in [Workers -> Jobs]
             /\ \A v \in Workers \ {w} : work'[v] = work[v]
             /\ Active(w)' => work'[w].txn \in Txns
  BY <1>2, <1>4, JobFields DEF Settle
<1>5. CASE UNCHANGED work
  BY <1>1, <1>5 DEF Types, Active
<1>6. CASE Dequeue(w)
  <2>1. Head(queue) \in Txns /\ work' = [work EXCEPT ![w] = StartAttempt(Head(queue), 0)]
    BY <1>6 DEF Dequeue, Types
  <2> DEFINE j == StartAttempt(Head(queue), 0)
  <2>2. j \in Jobs /\ j.txn \in Txns
    BY <2>1, AttemptFields
  <2>3. work' = [work EXCEPT ![w] = j]
    BY <2>1
  <2> HIDE DEF j
  <2> QED
    BY <1>2, <2>2, <2>3
<1>7. CASE Statement(w)
  <2>1. Active(w)
    BY <1>7 DEF Statement, Active
  <2> DEFINE a == At("commit", work[w].txn, work[w].stmt, work[w].attempt)
             b == At("stmt", work[w].txn, work[w].stmt + 1, work[w].attempt)
  <2>2. a \in Jobs /\ b \in Jobs /\ a.txn \in Txns /\ b.txn \in Txns
    BY <1>1, <2>1 DEF At, Jobs
  <2>3. work' = [work EXCEPT ![w] = a] \/ work' = [work EXCEPT ![w] = b]
    BY <1>7 DEF Statement, NextStatement
  <2> HIDE DEF a, b
  <2> QED
    BY <1>2, <2>2, <2>3
<1>8. CASE Aborted(w)
  <2>1. Active(w)
    BY <1>8 DEF Aborted, Active
  <2>2. CASE work' = [work EXCEPT ![w] = StartAttempt(work[w].txn, work[w].attempt + 1)]
    <3> DEFINE j == StartAttempt(work[w].txn, work[w].attempt + 1)
    <3>1. j \in Jobs /\ j.txn \in Txns /\ work' = [work EXCEPT ![w] = j]
      BY <1>1, <2>1, <2>2, AttemptFields
    <3> HIDE DEF j
    <3> QED
      BY <1>2, <3>1
  <2>3. CASE Settle(w, "failed")
    BY <1>4, <2>3
  <2> QED
    BY <1>8, <2>2, <2>3 DEF Aborted
<1>9. CASE Begin(w) \/ BeginRefused(w) \/ (\E e \in Faults : StatementFails(w, e))
           \/ StatementOnNull(w) \/ Rollback(w) \/ ExitThread(w)
  <2>1. \E pc \in {"stmt", "rollback", "aborted", "exited"} :
          Go(w, pc) /\ (pc # "exited" => Active(w))
    BY <1>9 DEF Begin, BeginRefused, StatementFails, StatementOnNull, Rollback, ExitThread, Active
  <2> QED
    BY <1>3, <2>1
<1>10. CASE Commit(w) \/ CommitRefused(w)
  BY <1>4, <1>10 DEF Commit, CommitRefused
<1>11. CASE ConnectionLost(w)
  <2>1. Active(w)
    BY <1>11 DEF ConnectionLost, Active
  <2>2. UNCHANGED work \/ Settle(w, "ok")
        \/ \E pc \in {"stmt", "rollback", "aborted"} : Go(w, pc)
    BY <1>11 DEF ConnectionLost
  <2> QED
    BY <1>3, <1>4, <1>5, <2>1, <2>2
<1> QED
  BY <1>6, <1>7, <1>8, <1>9, <1>10, <1>11 DEF Worker

\* Only Dequeue gives a worker another transaction.
LEMMA SameTxn ==
  ASSUME Types, NEW w \in Workers, Worker(w), ~Dequeue(w), Active(w)'
  PROVE  Active(w) /\ work'[w].txn = work[w].txn /\ work[w].txn \in Txns
<1>1. work \in [Workers -> Jobs] /\ (Active(w) => work[w].txn \in Txns)
  BY DEF Types
<1>2. ASSUME NEW pc, Go(w, pc) PROVE work'[w].txn = work[w].txn /\ work'[w].pc = pc
  BY <1>1, <1>2 DEF Go, At
<1>3. ASSUME NEW o, Settle(w, o) PROVE FALSE
  BY <1>1, <1>3, JobFields DEF Settle, Active
<1>4. CASE ExitThread(w)
  BY <1>2, <1>4 DEF ExitThread, Active
<1>5. CASE Begin(w) \/ BeginRefused(w) \/ (\E e \in Faults : StatementFails(w, e))
           \/ StatementOnNull(w) \/ Rollback(w)
  BY <1>1, <1>2, <1>5 DEF Begin, BeginRefused, StatementFails, StatementOnNull, Rollback, Active
<1>6. CASE Statement(w)
  <2>1. Active(w)
    BY <1>6 DEF Statement, Active
  <2>2. work'[w].txn = work[w].txn
    BY <1>1, <1>6 DEF Statement, NextStatement, At
  <2> QED
    BY <1>1, <2>1, <2>2
<1>7. CASE Commit(w) \/ CommitRefused(w)
  BY <1>3, <1>7 DEF Commit, CommitRefused
<1>8. CASE Aborted(w)
  <2>1. Active(w)
    BY <1>8 DEF Aborted, Active
  <2>2. work' = [work EXCEPT ![w] = StartAttempt(work[w].txn, work[w].attempt + 1)]
    BY <1>3, <1>8 DEF Aborted
  <2>3. work'[w] = StartAttempt(work[w].txn, work[w].attempt + 1)
    BY <1>1, <2>2
  <2> QED
    BY <1>1, <2>1, <2>3 DEF StartAttempt, At
<1>9. CASE ConnectionLost(w)
  <2>1. Active(w)
    BY <1>9 DEF ConnectionLost, Active
  <2>2. UNCHANGED work \/ \E pc \in {"stmt", "rollback", "aborted"} : Go(w, pc)
    BY <1>3, <1>9 DEF ConnectionLost
  <2> QED
    BY <1>1, <1>2, <2>1, <2>2
<1> QED
  BY <1>4, <1>5, <1>6, <1>7, <1>8, <1>9 DEF Worker

\* Every step keeps the types.
LEMMA TypesPreserved ==
  ASSUME Types, [Next]_vars PROVE Types'
<1>1. CASE CommitTransaction
  <2>1. issued' \in 0..Last /\ issued + 1 \in Txns /\ queue' \in Seq(Txns)
    BY <1>1, PoolAssumption DEF CommitTransaction, Types, Txns
  <2> QED
    BY <1>1, <2>1 DEF CommitTransaction, Types, connection, Active
<1>2. CASE Close
  BY <1>2 DEF Close, Types, connection, Active
<1>3. CASE JoinWorkers \/ UNCHANGED vars
  BY <1>3 DEF JoinWorkers, vars, Types, connection, Active
<1>4. ASSUME NEW w \in Workers, Worker(w) PROVE Types'
  <2>1. /\ work' \in [Workers -> Jobs]
        /\ \A v \in Workers : Active(v)' => work'[v].txn \in Txns
    BY <1>4, WorkStep DEF Types, Active
  <2>2. /\ work[w].stmt \in Nat
        /\ Active(w) => work[w].txn \in Txns
        /\ temp[w] \in SUBSET (Txns \X Nat)
        /\ queue # <<>> => Tail(queue) \in Seq(Txns)
    BY DEF Types, Jobs
  <2>3. issued' = issued /\ queue' \in Seq(Txns)
    <3>1. CASE Dequeue(w)
      BY <2>2, <3>1 DEF Dequeue, Types
    <3>2. CASE ~Dequeue(w)
      <4>1. UNCHANGED <<issued, queue>>
        BY <1>4, <3>2 DEF Worker, ExitThread, Begin, BeginRefused, Statement, StatementFails,
                      StatementOnNull, Commit, CommitRefused, Rollback, Aborted, ConnectionLost
      <4> QED
        BY <4>1 DEF Types
    <3> QED
      BY <3>1, <3>2
  <2>4. /\ link' \in [Workers -> {"up", "null"}]
        /\ trx' \in [Workers -> BOOLEAN]
    BY <1>4 DEF Worker, Dequeue, ExitThread, Begin, BeginRefused, Statement, StatementFails,
                StatementOnNull, Commit, CommitRefused, Rollback, Aborted, ConnectionLost, Types,
                connection
  <2>5. /\ temp' \in [Workers -> SUBSET (Txns \X Nat)]
        /\ rows' \in SUBSET (Txns \X Nat)
    <3>1. CASE Statement(w)
      <4>1. {<<work[w].txn, work[w].stmt>>} \in SUBSET (Txns \X Nat)
        BY <2>2, <3>1 DEF Statement, Active
      <4> QED
        BY <2>2, <3>1, <4>1 DEF Statement, Types
    <3>2. CASE ConnectionLost(w)
      <4> DEFINE inFlight == IF work[w].pc = "commit" THEN temp[w]
                             ELSE IF work[w].pc = "stmt" /\ ~trx[w]
                                  THEN {<<work[w].txn, work[w].stmt>>} ELSE {}
      <4>1. inFlight \in SUBSET (Txns \X Nat)
        BY <2>2, <3>2 DEF ConnectionLost, Active
      <4>2. rows' \in {rows, rows \cup inFlight} /\ temp' = [temp EXCEPT ![w] = {}]
        BY <3>2 DEF ConnectionLost
      <4> HIDE DEF inFlight
      <4> QED
        BY <4>1, <4>2 DEF Types
    <3>3. CASE ~Statement(w) /\ ~ConnectionLost(w)
      BY <1>4, <2>2, <3>3 DEF Worker, Dequeue, ExitThread, Begin, BeginRefused, StatementFails,
                StatementOnNull, Commit, CommitRefused, Rollback, Aborted, Types, connection
    <3> QED
      BY <3>1, <3>2, <3>3
  <2>6. result' \in [Txns -> {"pending", "ok", "failed", "flushed"}]
    BY <1>4 DEF Worker, Dequeue, ExitThread, Begin, BeginRefused, Statement, StatementFails,
                StatementOnNull, Commit, CommitRefused, Rollback, Aborted, ConnectionLost, Types,
                Settle
  <2>7. commits' \in Seq(Workers \X Txns)
    <3>1. CASE Commit(w)
      <4>1. <<w, work[w].txn>> \in Workers \X Txns
        BY <2>2, <3>1 DEF Commit, Active
      <4>2. commits \in Seq(Workers \X Txns)
        BY DEF Types
      <4>3. commits' = Append(commits, <<w, work[w].txn>>) \/ commits' = commits
        BY <3>1 DEF Commit
      <4> QED
        BY <4>1, <4>2, <4>3, AppendOf
    <3>2. CASE ~Commit(w)
      BY <1>4, <3>2 DEF Worker, Dequeue, ExitThread, Begin, BeginRefused, Statement, StatementFails,
                StatementOnNull, CommitRefused, Rollback, Aborted, ConnectionLost, Types
    <3> QED
      BY <3>1, <3>2
  <2>8. hit' \in SUBSET Txns /\ refused' \in SUBSET Txns
    BY <1>4, <2>2 DEF Worker, Dequeue, ExitThread, Begin, BeginRefused, Statement, StatementFails,
                StatementOnNull, Commit, CommitRefused, Rollback, Aborted, ConnectionLost, Types,
                Active
  <2> QED
    BY <2>1, <2>3, <2>4, <2>5, <2>6, <2>7, <2>8 DEF Types
<1> QED
  BY <1>1, <1>2, <1>3, <1>4 DEF Next

-----------------------------------------------------------------------------
(* The order of commits *)

\* The queue stays sorted, and workers and commits stay behind it.
LEMMA OrderPreserved ==
  ASSUME Types, OrderInv, [Next]_vars PROVE OrderInv'
<1>0. /\ queue \in Seq(Txns) /\ issued \in Nat /\ work \in [Workers -> Jobs]
      /\ DOMAIN queue = 1..Len(queue) /\ Len(queue) \in Nat
      /\ \A i \in DOMAIN queue : queue[i] \in Nat
      /\ \A w \in Workers : Active(w) => work[w].txn \in Nat
      /\ commits \in Seq(Workers \X Txns)
      /\ \A i \in DOMAIN commits : commits[i][1] \in Workers /\ commits[i][2] \in Nat
  BY PoolAssumption DEF Types, Txns
<1>1. CASE CommitTransaction
  <2>1. /\ UNCHANGED <<work, commits>> /\ issued' = issued + 1 /\ issued + 1 \in Txns
        /\ queue' = Append(queue, issued + 1)
    BY <1>1, PoolAssumption DEF CommitTransaction, Types, Txns
  <2>2. /\ DOMAIN queue' = 1..(Len(queue) + 1)
        /\ \A i \in 1..Len(queue) : queue'[i] = queue[i]
        /\ queue'[Len(queue) + 1] = issued + 1
    BY <1>0, <2>1, AppendOf
  <2>3. \A i \in DOMAIN queue' : \/ i \in DOMAIN queue /\ queue'[i] = queue[i]
                                 \/ i = Len(queue) + 1 /\ queue'[i] = issued + 1
    <3>1. \A i \in DOMAIN queue' : i \in 1..Len(queue) \/ i = Len(queue) + 1
      BY <1>0, <2>2
    <3> QED
      BY <1>0, <2>2, <3>1
  <2>4. \A i, j \in DOMAIN queue' : i < j => queue'[i] < queue'[j]
    BY <1>0, <2>2, <2>3 DEF OrderInv
  <2>5. \A i \in DOMAIN queue' : queue'[i] <= issued'
    BY <1>0, <2>1, <2>3 DEF OrderInv
  <2>6. \A w \in Workers : Active(w)' =>
          /\ work'[w].txn <= issued'
          /\ \A i \in DOMAIN queue' : work'[w].txn < queue'[i]
    BY <1>0, <2>1, <2>3 DEF OrderInv, Active
  <2>7. \A i \in DOMAIN commits' :
          /\ commits'[i][2] <= issued'
          /\ \A j \in DOMAIN queue' : commits'[i][2] < queue'[j]
          /\ \A w \in Workers : commits'[i][1] = w /\ Active(w)' => commits'[i][2] < work'[w].txn
    BY <1>0, <2>1, <2>3 DEF OrderInv, Active
  <2> QED
    BY <2>1, <2>4, <2>5, <2>6, <2>7 DEF OrderInv, InOrder
<1>2. CASE Close
  <2>1. UNCHANGED <<work, commits, issued>> /\ DOMAIN queue' = {}
    BY <1>2 DEF Close
  <2> QED
    BY <2>1 DEF OrderInv, InOrder, Active
<1>3. CASE UNCHANGED <<issued, queue, work, commits>>
  BY <1>3 DEF OrderInv, InOrder, Active
<1>4. ASSUME NEW w \in Workers, Dequeue(w) PROVE OrderInv'
  <2>1. /\ UNCHANGED <<issued, commits>> /\ queue # <<>> /\ queue' = Tail(queue)
        /\ work' = [work EXCEPT ![w] = StartAttempt(Head(queue), 0)]
    BY <1>4 DEF Dequeue
  <2>2. /\ DOMAIN queue' = 1..(Len(queue) - 1) /\ Len(queue) \in Nat \ {0}
        /\ Head(queue) = queue[1] /\ Head(queue) \in Txns
        /\ \A i \in 1..(Len(queue) - 1) : queue'[i] = queue[i + 1]
    BY <1>0, <2>1, TailOf
  <2>3. /\ 1 \in DOMAIN queue
        /\ \A i \in DOMAIN queue' : /\ i \in Nat /\ i + 1 \in DOMAIN queue
                                    /\ 1 < i + 1 /\ queue'[i] = queue[i + 1]
    BY <1>0, <2>2
  <2>4. work'[w].txn = queue[1] /\ \A v \in Workers \ {w} : work'[v] = work[v]
    BY <1>0, <2>1, <2>2, AttemptFields
  <2>5. \A i, j \in DOMAIN queue' : i < j => queue'[i] < queue'[j]
    <3> SUFFICES ASSUME NEW i \in DOMAIN queue', NEW j \in DOMAIN queue', i < j
                 PROVE  queue'[i] < queue'[j]
      OBVIOUS
    <3>1. i + 1 < j + 1
      BY <2>3
    <3> QED
      BY <2>3, <3>1 DEF OrderInv
  <2>6. \A i \in DOMAIN queue' : queue'[i] <= issued' /\ queue[1] < queue'[i]
    BY <2>1, <2>3 DEF OrderInv
  <2>7. \A v \in Workers : Active(v)' =>
          /\ work'[v].txn <= issued'
          /\ \A i \in DOMAIN queue' : work'[v].txn < queue'[i]
    <3> SUFFICES ASSUME NEW v \in Workers, Active(v)'
                 PROVE  /\ work'[v].txn <= issued'
                        /\ \A i \in DOMAIN queue' : work'[v].txn < queue'[i]
      OBVIOUS
    <3>1. CASE v = w
      BY <2>1, <2>3, <2>4, <2>6, <3>1 DEF OrderInv
    <3>2. CASE v # w
      BY <2>1, <2>3, <2>4, <3>2 DEF OrderInv, Active
    <3> QED
      BY <3>1, <3>2
  <2>8. \A i \in DOMAIN commits' :
          /\ commits'[i][2] <= issued'
          /\ \A j \in DOMAIN queue' : commits'[i][2] < queue'[j]
    BY <2>1, <2>3 DEF OrderInv
  <2>9. \A i \in DOMAIN commits, v \in Workers :
          commits[i][1] = v /\ Active(v)' => commits[i][2] < work'[v].txn
    <3> SUFFICES ASSUME NEW i \in DOMAIN commits, NEW v \in Workers,
                        commits[i][1] = v, Active(v)'
                 PROVE  commits[i][2] < work'[v].txn
      OBVIOUS
    <3>1. CASE v = w
      BY <2>3, <2>4, <3>1 DEF OrderInv
    <3>2. CASE v # w
      BY <2>4, <3>2 DEF OrderInv, Active
    <3> QED
      BY <3>1, <3>2
  <2> QED
    BY <2>1, <2>5, <2>6, <2>7, <2>8, <2>9 DEF OrderInv, InOrder
<1>5. ASSUME NEW w \in Workers, Worker(w), ~Dequeue(w) PROVE OrderInv'
  <2>1. UNCHANGED <<issued, queue>>
    BY <1>5 DEF Worker, ExitThread, Begin, BeginRefused, Statement, StatementFails,
                StatementOnNull, Commit, CommitRefused, Rollback, Aborted, ConnectionLost
  <2>2. \A v \in Workers : Active(v)' => Active(v) /\ work'[v].txn = work[v].txn
    <3>1. \A v \in Workers \ {w} : work'[v] = work[v]
      BY <1>5, WorkStep
    <3> QED
      BY <1>5, <3>1, SameTxn DEF Active
  <2>3. CASE UNCHANGED commits
    BY <1>0, <2>1, <2>2, <2>3 DEF OrderInv, InOrder
  <2>4. CASE commits' # commits
    <3>1. Commit(w)
      BY <1>5, <2>4 DEF Worker, ExitThread, Begin, BeginRefused, Statement, StatementFails,
                StatementOnNull, CommitRefused, Rollback, Aborted, ConnectionLost
    <3>2. /\ Active(w) /\ work[w].txn \in Txns
          /\ commits' = Append(commits, <<w, work[w].txn>>)
          /\ ~Active(w)'
      BY <1>0, <2>4, <3>1, JobFields DEF Commit, Settle, Active, Types
    <3>3. /\ DOMAIN commits = 1..Len(commits) /\ Len(commits) \in Nat
          /\ DOMAIN commits' = 1..(Len(commits) + 1)
          /\ \A i \in 1..Len(commits) : commits'[i] = commits[i]
          /\ commits'[Len(commits) + 1] = <<w, work[w].txn>>
      BY <1>0, <3>2, AppendOf
    <3>4. \A i \in DOMAIN commits' :
            \/ i \in DOMAIN commits /\ commits'[i] = commits[i] /\ i <= Len(commits)
            \/ /\ i = Len(commits) + 1
               /\ commits'[i][1] = w /\ commits'[i][2] = work[w].txn
      BY <3>3
    <3>5. \A i \in DOMAIN commits' :
            /\ commits'[i][2] <= issued
            /\ \A j \in DOMAIN queue : commits'[i][2] < queue[j]
      BY <3>2, <3>4 DEF OrderInv
    <3>6. \A i \in DOMAIN commits', v \in Workers :
            commits'[i][1] = v /\ Active(v)' => commits'[i][2] < work'[v].txn
      <4> SUFFICES ASSUME NEW i \in DOMAIN commits', NEW v \in Workers,
                          commits'[i][1] = v, Active(v)'
                   PROVE  commits'[i][2] < work'[v].txn
        OBVIOUS
      <4>1. v # w /\ Active(v) /\ work'[v].txn = work[v].txn
        BY <2>2, <3>2
      <4>2. i \in DOMAIN commits /\ commits'[i] = commits[i]
        BY <3>4, <4>1
      <4> QED
        BY <4>1, <4>2 DEF OrderInv
    <3>7. InOrder'
      <4> SUFFICES ASSUME NEW i \in DOMAIN commits', NEW j \in DOMAIN commits',
                          i < j, commits'[i][1] = commits'[j][1]
                   PROVE  commits'[i][2] < commits'[j][2]
        BY DEF InOrder
      <4>1. i \in DOMAIN commits /\ commits'[i] = commits[i]
        BY <3>3, <3>4
      <4>2. CASE j \in DOMAIN commits /\ commits'[j] = commits[j]
        BY <4>1, <4>2 DEF OrderInv, InOrder
      <4>3. CASE commits'[j][1] = w /\ commits'[j][2] = work[w].txn
        BY <3>2, <4>1, <4>3 DEF OrderInv
      <4> QED
        BY <3>4, <4>2, <4>3
    <3>8. \A v \in Workers : Active(v)' =>
            /\ work'[v].txn <= issued
            /\ \A i \in DOMAIN queue : work'[v].txn < queue[i]
      BY <2>2 DEF OrderInv
    <3> QED
      BY <2>1, <3>5, <3>6, <3>7, <3>8 DEF OrderInv
  <2> QED
    BY <2>3, <2>4
<1> QED
  BY <1>1, <1>2, <1>3, <1>4, <1>5 DEF Next, JoinWorkers, vars

\* The types and the order hold in every reachable state.
THEOREM OrderInvariant == Spec => [](Types /\ OrderInv)
<1>1. Init => Types /\ OrderInv
  <2> SUFFICES ASSUME Init PROVE Types /\ OrderInv
    OBVIOUS
  <2>1. \A w \in Workers : ~Active(w)
    BY JobFields DEF Init, Active
  <2>2. Types
    BY <2>1, PoolAssumption, JobFields DEF Init, Types, Txns
  <2>3. DOMAIN queue = {} /\ DOMAIN commits = {}
    BY DEF Init
  <2> QED
    BY <2>1, <2>2, <2>3 DEF OrderInv, InOrder
<1>2. Types /\ OrderInv /\ [Next]_vars => Types' /\ OrderInv'
  BY TypesPreserved, OrderPreserved
<1> QED
  BY <1>1, <1>2, PTL DEF Spec

\* A connection commits in the order in which transactions were handed over,
\* for any number of workers, retries and lost connections.
THEOREM CommitsInOrder == Spec => []InOrder
<1>1. OrderInv => InOrder
  BY DEF OrderInv
<1> QED
  BY <1>1, OrderInvariant, PTL

-----------------------------------------------------------------------------
(* Atomicity and durability *)

\* The statements of different transactions are different.
LEMMA Disjoint ==
  ASSUME NEW t \in Txns, NEW u \in Txns, t # u
  PROVE  Statements(t) \cap Statements(u) = {}
  BY DEF Statements

\* A worker that only touches its own transaction t leaves the others alone; what
\* is left to show is what it has done to t.
LEMMA OwnStep ==
  ASSUME Types, OrderInv, OwnInv, NEW w \in Workers, Active(w),
         NEW t \in Txns, t = work[w].txn,
         UNCHANGED <<issued, queue>>,
         \A v \in Workers \ {w} : /\ work'[v] = work[v] /\ link'[v] = link[v]
                                  /\ trx'[v] = trx[v] /\ temp'[v] = temp[v],
         Active(w)' => work'[w].txn = t,
         rows \subseteq rows', rows' \subseteq rows \cup Statements(t),
         hit \subseteq hit', hit' \subseteq hit \cup {t},
         refused \subseteq refused', refused' \subseteq refused \cup {t},
         t \in refused' => result'[t] = "ok",
         \A u \in Txns \ {t} : result'[u] = result[u],
         Own(w)',
         t \notin hit' => Whole(t)' /\ TrueReport(t)'
  PROVE  OwnInv'
<1>1. \A u \in Txns \ {t} :
        /\ Statements(u) \cap rows' = Statements(u) \cap rows
        /\ u \in hit' <=> u \in hit
        /\ u \in refused' <=> u \in refused
        /\ result'[u] = result[u]
  BY Disjoint
<1>2. \A v \in Workers \ {w} : Active(v) => work[v].txn \in Txns \ {t}
  BY DEF OwnInv, Types
<1>3. \A v \in Workers : Own(v)'
  <2> SUFFICES ASSUME NEW v \in Workers \ {w} PROVE Own(v)'
    OBVIOUS
  <2>1. Own(v)
    BY DEF OwnInv
  <2>2. CASE Active(v)
    <3>1. work[v].txn \in Txns \ {t}
      BY <1>2, <2>2
    <3> QED
      BY <1>1, <2>1, <3>1 DEF Own, Active, Untouched
  <2>3. CASE ~Active(v)
    BY <2>1, <2>3 DEF Own, Active
  <2> QED
    BY <2>2, <2>3
<1>4. \A u, v \in Workers :
        Active(u)' /\ Active(v)' /\ work'[u].txn = work'[v].txn => u = v
  BY DEF OwnInv, Active
<1>5. \A u \in Txns : u > issued \/ (\E i \in DOMAIN queue : queue[i] = u) => u # t
  BY DEF OrderInv, Types, Txns
<1>6. \A u \in Txns : u > issued \/ (\E i \in DOMAIN queue : queue[i] = u) =>
        Untouched(u)' /\ result'[u] = "pending"
  BY <1>1, <1>5 DEF OwnInv, Untouched
<1>7. \A u \in Txns \ {t} : Whole(u)' <=> Whole(u)
  BY <1>1 DEF Whole
<1>8. AtomicWhileConnected'
  BY <1>1, <1>7 DEF OwnInv, AtomicWhileConnected
<1>9. ReportsAreTrue'
  <2>1. \A u \in Txns \ {t} : TrueReport(u)' <=> TrueReport(u)
    BY <1>1 DEF TrueReport
  <2> QED
    BY <1>1, <2>1 DEF OwnInv, ReportsAreTrue
<1>10. \A u \in refused' : result'[u] = "ok"
  <2>1. refused' \in SUBSET Txns
    BY DEF Types
  <2> QED
    BY <1>1, <2>1 DEF OwnInv
<1> QED
  BY <1>3, <1>4, <1>6, <1>8, <1>9, <1>10 DEF OwnInv

\* A worker uses its own connection only.
LEMMA Frame ==
  ASSUME Types, NEW w \in Workers, Worker(w), ~Dequeue(w)
  PROVE  /\ UNCHANGED <<issued, queue>>
         /\ \A v \in Workers \ {w} : /\ work'[v] = work[v] /\ link'[v] = link[v]
                                     /\ trx'[v] = trx[v] /\ temp'[v] = temp[v]
<1>1. UNCHANGED <<issued, queue>>
  BY DEF Worker, ExitThread, Begin, BeginRefused, Statement, StatementFails, StatementOnNull,
         Commit, CommitRefused, Rollback, Aborted, ConnectionLost
<1>2. \A v \in Workers \ {w} : work'[v] = work[v]
  BY WorkStep
<1>3. \A v \in Workers \ {w} : link'[v] = link[v] /\ trx'[v] = trx[v] /\ temp'[v] = temp[v]
  BY DEF Worker, ExitThread, Begin, BeginRefused, Statement, StatementFails, StatementOnNull,
         Commit, CommitRefused, Rollback, Aborted, ConnectionLost, connection, Types
<1> QED
  BY <1>1, <1>2, <1>3

\* A step of a worker with a transaction that changes no table and settles
\* nothing: its own invariant is left to show.
LEMMA SilentStep ==
  ASSUME Types, OrderInv, OwnInv, NEW w \in Workers, Active(w), Worker(w),
         UNCHANGED <<rows, hit, refused, result>>, Own(w)'
  PROVE  OwnInv'
<1>1. ~Dequeue(w)
  BY DEF Dequeue, Active
<1>2. /\ work[w].txn \in Txns /\ Own(w) /\ AtomicWhileConnected /\ ReportsAreTrue
      /\ \A u \in refused : result[u] = "ok"
  BY DEF Types, OwnInv
<1>3. PICK t \in Txns : t = work[w].txn
  BY <1>2
<1>4. /\ t \notin hit' => Whole(t)' /\ TrueReport(t)'
      /\ t \in refused' => result'[t] = "ok"
  BY <1>2, <1>3 DEF AtomicWhileConnected, ReportsAreTrue, TrueReport, Whole
<1>5. Active(w)' => work'[w].txn = t
  BY <1>1, <1>3, SameTxn
<1> QED
  BY <1>1, <1>3, <1>4, <1>5, Frame, OwnStep

\* Every step keeps what each worker has done for its transaction exact: the
\* caller and Close touch no table, a worker touches its own transaction only.
LEMMA OwnPreserved ==
  ASSUME Types, OrderInv, OwnInv, [Next]_vars PROVE OwnInv'
<1>0. /\ work \in [Workers -> Jobs]
      /\ link \in [Workers -> {"up", "null"}]
      /\ trx \in [Workers -> BOOLEAN]
      /\ temp \in [Workers -> SUBSET (Txns \X Nat)]
      /\ \A w \in Workers : Own(w)
      /\ \A w \in Workers : Active(w) => work[w].txn \in Txns
      /\ Size \in [Txns -> Nat]
  BY PoolAssumption DEF Types, OwnInv
<1>1. CASE UNCHANGED <<issued, queue, work, connection, rows, result, hit, refused>>
  BY <1>1 DEF OwnInv, Own, Active, Untouched, AtomicWhileConnected, ReportsAreTrue,
              TrueReport, Whole, connection
<1>2. CASE CommitTransaction
  <2>1. /\ UNCHANGED <<work, link, trx, temp, rows, result, hit, refused>>
        /\ issued' = issued + 1 /\ queue' = Append(queue, issued + 1)
        /\ issued + 1 \in Txns /\ issued \in Nat
    BY <1>2, PoolAssumption DEF CommitTransaction, connection, Types, Txns
  <2>2. \A i \in DOMAIN queue' :
          (i \in DOMAIN queue /\ queue'[i] = queue[i]) \/ queue'[i] = issued + 1
    <3>1. /\ DOMAIN queue = 1..Len(queue) /\ DOMAIN queue' = 1..(Len(queue) + 1)
          /\ Len(queue) \in Nat
          /\ \A i \in 1..Len(queue) : queue'[i] = queue[i]
          /\ queue'[Len(queue) + 1] = issued + 1
      BY <2>1, AppendOf DEF Types
    <3>2. \A i \in DOMAIN queue' : i \in 1..Len(queue) \/ i = Len(queue) + 1
      BY <3>1
    <3> QED
      BY <3>1, <3>2
  <2>3. \A t \in Txns : t > issued' \/ (\E i \in DOMAIN queue' : queue'[i] = t) =>
          t > issued \/ (\E i \in DOMAIN queue : queue[i] = t)
    BY <2>1, <2>2 DEF Txns
  <2>4. \A w \in Workers : Own(w)'
    BY <1>0, <2>1 DEF Own, Active, Untouched
  <2>5. \A t \in Txns : t > issued' \/ (\E i \in DOMAIN queue' : queue'[i] = t) =>
          Untouched(t)' /\ result'[t] = "pending"
    BY <2>1, <2>3 DEF OwnInv, Untouched
  <2>6. AtomicWhileConnected' /\ ReportsAreTrue'
    BY <2>1 DEF OwnInv, AtomicWhileConnected, ReportsAreTrue, TrueReport, Whole
  <2>7. \A v, w \in Workers :
          Active(v)' /\ Active(w)' /\ work'[v].txn = work'[w].txn => v = w
    BY <2>1 DEF OwnInv, Active
  <2>8. \A t \in refused' : result'[t] = "ok"
    BY <2>1 DEF OwnInv
  <2> QED
    BY <2>4, <2>5, <2>6, <2>7, <2>8 DEF OwnInv
<1>3. CASE Close
  <2>1. /\ UNCHANGED <<issued, work, link, trx, temp, rows, hit, refused>> /\ DOMAIN queue' = {}
        /\ \A t \in Txns : result'[t] = result[t]
                           \/ (result'[t] = "flushed" /\ \E i \in DOMAIN queue : queue[i] = t)
    BY <1>3 DEF Close, connection
  <2>2. \A w \in Workers : Active(w) => result'[work[w].txn] = result[work[w].txn]
    BY <1>0, <2>1 DEF OrderInv, Types, Txns
  <2>3. \A t \in Txns : t > issued => result'[t] = result[t]
    <3>1. issued \in Nat /\ \A t \in Txns : t \in Nat
      BY PoolAssumption DEF Types, Txns
    <3>2. \A i \in DOMAIN queue : queue[i] <= issued
      BY DEF OrderInv
    <3>3. \A t \in Txns : t > issued => ~(\E i \in DOMAIN queue : queue[i] = t)
      BY <3>1, <3>2
    <3> QED
      BY <2>1, <3>3
  <2>4. \A w \in Workers : Own(w)'
    BY <1>0, <2>1, <2>2 DEF Own, Active, Untouched
  <2>5. \A t \in Txns : t > issued' \/ (\E i \in DOMAIN queue' : queue'[i] = t) =>
          Untouched(t)' /\ result'[t] = "pending"
    BY <2>1, <2>3 DEF OwnInv, Untouched
  <2>6. AtomicWhileConnected' /\ ReportsAreTrue'
    <3>1. AtomicWhileConnected'
      BY <2>1 DEF OwnInv, AtomicWhileConnected, Whole
    <3>2. \A t \in Txns : TrueReport(t) => TrueReport(t)'
      BY <2>1 DEF TrueReport
    <3> QED
      BY <2>1, <3>1, <3>2 DEF OwnInv, ReportsAreTrue
  <2>7. \A v, w \in Workers :
          Active(v)' /\ Active(w)' /\ work'[v].txn = work'[w].txn => v = w
    BY <2>1 DEF OwnInv, Active
  <2>8. \A t \in refused' : result'[t] = "ok"
    <3>1. \A t \in refused : t \in Txns /\ result[t] = "ok"
      BY DEF OwnInv, Types
    <3>2. \A t \in Txns : result[t] = "ok" => result'[t] = "ok"
      BY <2>1 DEF OwnInv
    <3> QED
      BY <2>1, <3>1, <3>2
  <2> QED
    BY <2>4, <2>5, <2>6, <2>7, <2>8 DEF OwnInv

<1>4. ASSUME NEW w \in Workers, NEW pc, Go(w, pc)
      PROVE  /\ work'[w].pc = pc /\ work'[w].txn = work[w].txn
             /\ work'[w].stmt = work[w].stmt
  BY <1>0, <1>4 DEF Go, At
<1>5. ASSUME NEW w \in Workers, NEW o, Settle(w, o)
      PROVE  work'[w].pc = "dequeue"
  BY <1>0, <1>5, JobFields DEF Settle
<1>6. ASSUME NEW w \in Workers, Worker(w), Dequeue(w) PROVE OwnInv'
  <2>1. /\ work[w].pc = "dequeue" /\ queue # <<>> /\ queue' = Tail(queue)
        /\ work' = [work EXCEPT ![w] = StartAttempt(Head(queue), 0)]
        /\ UNCHANGED <<issued, link, trx, temp, rows, result, hit, refused>>
    BY <1>6 DEF Dequeue, connection
  <2>2. /\ DOMAIN queue = 1..Len(queue) /\ DOMAIN queue' = 1..(Len(queue) - 1)
        /\ Len(queue) \in Nat \ {0} /\ queue[1] \in Txns /\ Head(queue) = queue[1]
        /\ \A i \in 1..(Len(queue) - 1) : queue'[i] = queue[i + 1]
    BY <2>1, TailOf DEF Types
  <2>3. PICK t \in Txns : t = queue[1]
    BY <2>2
  <2>4. work'[w] = StartAttempt(t, 0) /\ \A v \in Workers \ {w} : work'[v] = work[v]
    BY <1>0, <2>1, <2>2, <2>3
  <2>5. /\ work'[w].txn = t /\ work'[w].stmt = 1
        /\ work'[w].pc = IF Size[t] = 0 THEN "aborted" ELSE "begin"
    BY <2>3, <2>4, AttemptFields
  <2>6. 1 \in DOMAIN queue
    BY <2>2
  <2>7. Untouched(t) /\ result[t] = "pending"
    BY <2>3, <2>6 DEF OwnInv
  <2>8. \A i \in DOMAIN queue' : \E j \in DOMAIN queue : queue'[i] = queue[j]
    <3> SUFFICES ASSUME NEW i \in DOMAIN queue'
                 PROVE  \E j \in DOMAIN queue : queue'[i] = queue[j]
      OBVIOUS
    <3>1. i + 1 \in DOMAIN queue /\ queue'[i] = queue[i + 1]
      BY <2>2
    <3> QED
      BY <3>1
  <2>9. \A v \in Workers \ {w} : Active(v) => work[v].txn # t
    BY <1>0, <2>3, <2>6 DEF OrderInv, Txns
  <2>10. Own(w)'
    <3>1. temp'[w] = {}
      BY <1>0, <2>1 DEF Own
    <3>2. work'[w].pc = "begin" => 1 \in 1..Size[t]
      BY <1>0, <2>5
    <3> QED
      BY <2>1, <2>5, <2>7, <3>1, <3>2 DEF Own, Active, Untouched
  <2>11. \A v \in Workers \ {w} : Own(v)'
    BY <1>0, <2>1, <2>4 DEF Own, Active, Untouched
  <2>12. \A u, v \in Workers :
           Active(u)' /\ Active(v)' /\ work'[u].txn = work'[v].txn => u = v
    BY <2>4, <2>5, <2>9 DEF OwnInv, Active
  <2>13. \A u \in Txns : u > issued' \/ (\E i \in DOMAIN queue' : queue'[i] = u) =>
           Untouched(u)' /\ result'[u] = "pending"
    BY <2>1, <2>8 DEF OwnInv, Untouched
  <2>14. AtomicWhileConnected' /\ ReportsAreTrue'
    BY <2>1 DEF OwnInv, AtomicWhileConnected, ReportsAreTrue, TrueReport, Whole
  <2>15. \A u \in refused' : result'[u] = "ok"
    BY <2>1 DEF OwnInv
  <2> QED
    BY <2>10, <2>11, <2>12, <2>13, <2>14, <2>15 DEF OwnInv
<1>7. ASSUME NEW w \in Workers, ExitThread(w) PROVE OwnInv'
  <2>1. /\ work[w].pc = "dequeue" /\ work'[w].pc = "exited"
        /\ UNCHANGED <<issued, queue, link, trx, temp, rows, result, hit, refused>>
        /\ \A v \in Workers \ {w} : work'[v] = work[v]
    BY <1>0, <1>4, <1>7 DEF ExitThread, connection, Go
  <2>2. \A v \in Workers : Own(v)'
    BY <1>0, <2>1 DEF Own, Active, Untouched
  <2>3. \A u, v \in Workers :
          Active(u)' /\ Active(v)' /\ work'[u].txn = work'[v].txn => u = v
    BY <2>1 DEF OwnInv, Active
  <2>4. \A u \in Txns : u > issued' \/ (\E i \in DOMAIN queue' : queue'[i] = u) =>
          Untouched(u)' /\ result'[u] = "pending"
    BY <2>1 DEF OwnInv, Untouched
  <2>5. AtomicWhileConnected' /\ ReportsAreTrue'
    BY <2>1 DEF OwnInv, AtomicWhileConnected, ReportsAreTrue, TrueReport, Whole
  <2>6. \A u \in refused' : result'[u] = "ok"
    BY <2>1 DEF OwnInv
  <2> QED
    BY <2>2, <2>3, <2>4, <2>5, <2>6 DEF OwnInv

<1>8. ASSUME NEW w \in Workers, Worker(w), Begin(w) PROVE OwnInv'
  <2>1. /\ Active(w) /\ work[w].pc = "begin" /\ Own(w) /\ work[w].txn \in Txns
        /\ temp[w] = {} /\ work[w].stmt = 1
    BY <1>0, <1>8 DEF Begin, Active, Own
  <2>2. /\ work'[w].pc = "stmt" /\ work'[w].txn = work[w].txn /\ work'[w].stmt = 1
        /\ UNCHANGED <<rows, hit, refused, result, link>> /\ temp'[w] = {}
        /\ link[w] = "up" => trx'[w]
    BY <1>0, <1>4, <1>8, <2>1 DEF Begin
  <2>3. {work[w].txn} \X (1..(1 - 1)) = {}
    OBVIOUS
  <2>4. Own(w)'
    BY <2>1, <2>2, <2>3 DEF Own, Active, Untouched
  <2> QED
    BY <1>8, <2>1, <2>2, <2>4, SilentStep
<1>9. ASSUME NEW w \in Workers, Worker(w), StatementOnNull(w) PROVE OwnInv'
  <2>1. Active(w) /\ work[w].pc = "stmt" /\ Own(w) /\ temp[w] = {}
    BY <1>0, <1>9 DEF StatementOnNull, Active, Own
  <2>2. /\ work'[w].pc = "rollback" /\ work'[w].txn = work[w].txn
        /\ work'[w].stmt = work[w].stmt
        /\ UNCHANGED <<rows, hit, refused, result, link, temp, trx>>
    BY <1>4, <1>9 DEF StatementOnNull, connection
  <2>3. Own(w)'
    BY <2>1, <2>2 DEF Own, Active, Untouched
  <2> QED
    BY <1>9, <2>1, <2>2, <2>3, SilentStep
<1>10. ASSUME NEW w \in Workers, Worker(w), NEW e \in Faults, StatementFails(w, e)
       PROVE  OwnInv'
  <2>1. Active(w) /\ work[w].pc = "stmt" /\ link[w] = "up" /\ Own(w)
    BY <1>0, <1>10 DEF StatementFails, Active
  <2>2. /\ work'[w].pc = "rollback" /\ work'[w].txn = work[w].txn
        /\ work'[w].stmt = work[w].stmt
        /\ UNCHANGED <<rows, hit, refused, result, link>>
        /\ temp'[w] = {} \/ temp'[w] = temp[w]
    BY <1>0, <1>4, <1>10 DEF StatementFails
  <2>3. Own(w)'
    BY <2>1, <2>2 DEF Own, Active, Untouched
  <2> QED
    BY <1>10, <2>1, <2>2, <2>3, SilentStep
<1>11. ASSUME NEW w \in Workers, Worker(w), Rollback(w) PROVE OwnInv'
  <2>1. Active(w) /\ work[w].pc = "rollback" /\ Own(w)
    BY <1>0, <1>11 DEF Rollback, Active
  <2>2. /\ work'[w].pc = "aborted" /\ work'[w].txn = work[w].txn
        /\ UNCHANGED <<rows, hit, refused, result, link>> /\ temp'[w] = {}
    BY <1>0, <1>4, <1>11 DEF Rollback
  <2>3. Own(w)'
    BY <2>1, <2>2 DEF Own, Active, Untouched
  <2> QED
    BY <1>11, <2>1, <2>2, <2>3, SilentStep
<1>12. ASSUME NEW w \in Workers, Worker(w), Statement(w) PROVE OwnInv'
  <2>1. /\ Active(w) /\ work[w].pc = "stmt" /\ link[w] = "up" /\ Own(w)
        /\ UNCHANGED <<hit, refused, result, link, trx>>
    BY <1>0, <1>12 DEF Statement, Active
  <2>2. PICK t \in Txns : t = work[w].txn
    BY <1>0, <2>1
  <2>3. PICK k \in 1..Size[t] : k = work[w].stmt
    BY <2>1, <2>2 DEF Own
  <2>4. /\ Size[t] \in Nat /\ <<t, k>> \in Statements(t)
        /\ result[t] = "pending" /\ temp[w] \subseteq Statements(t)
    BY <1>0, <2>1, <2>2, <2>3 DEF Own, Statements
  <2>5. /\ work'[w].txn = t
        /\ \/ k = Size[t] /\ work'[w].pc = "commit" /\ work'[w].stmt = k
           \/ k # Size[t] /\ work'[w].pc = "stmt" /\ work'[w].stmt = k + 1
    <3>1. work'[w] = IF k = Size[t] THEN At("commit", t, k, work[w].attempt)
                     ELSE At("stmt", t, k + 1, work[w].attempt)
      BY <1>0, <1>12, <2>2, <2>3 DEF Statement, NextStatement
    <3> QED
      BY <3>1, JobFields
  <2>6. work'[w].stmt \in 1..Size[t]
    BY <2>3, <2>4, <2>5
  <2>7. CASE trx[w]
    <3>1. UNCHANGED rows /\ temp'[w] = temp[w] \cup {<<t, k>>}
      BY <1>0, <1>12, <2>2, <2>3, <2>7 DEF Statement
    <3>2. t \notin hit => temp'[w] = {t} \X (1..k)
      <4>1. t \notin hit => temp[w] = {t} \X (1..(k - 1))
        BY <2>1, <2>2, <2>3 DEF Own
      <4>2. 1..k = (1..(k - 1)) \cup {k}
        BY <2>3, <2>4
      <4> QED
        BY <3>1, <4>1, <4>2
    <3>3. t \notin hit /\ work'[w].pc = "commit" => temp'[w] = Statements(t)
      BY <2>5, <3>2 DEF Statements
    <3>4. t \notin hit /\ work'[w].pc = "stmt" =>
            temp'[w] = {t} \X (1..(work'[w].stmt - 1))
      <4>1. (k + 1) - 1 = k
        BY <2>3, <2>4
      <4> QED
        BY <2>5, <3>2, <4>1
    <3>5. temp'[w] \subseteq Statements(t)
      BY <2>4, <3>1
    <3>6. Own(w)'
      BY <2>1, <2>2, <2>4, <2>5, <2>6, <2>7, <3>1, <3>3, <3>4, <3>5
         DEF Own, Active, Untouched
    <3> QED
      BY <1>12, <2>1, <3>1, <3>6, SilentStep
  <2>8. CASE ~trx[w]
    <3>1. UNCHANGED temp /\ rows' = rows \cup {<<t, k>>}
      BY <1>12, <2>2, <2>3, <2>8 DEF Statement
    <3>2. t \in hit
      BY <2>1, <2>2, <2>8 DEF Own
    <3>3. Own(w)'
      BY <2>1, <2>2, <2>4, <2>5, <2>6, <3>1, <3>2 DEF Own, Active
    <3>4. ~Dequeue(w)
      BY <2>1 DEF Dequeue
    <3>5. rows \subseteq rows' /\ rows' \subseteq rows \cup Statements(t)
      BY <2>4, <3>1
    <3>6. t \notin refused
      BY <2>4 DEF OwnInv
    <3> QED
      BY <1>12, <2>1, <2>2, <2>5, <3>2, <3>3, <3>4, <3>5, <3>6, Frame, OwnStep
  <2> QED
    BY <2>7, <2>8

<1>13. ASSUME NEW w \in Workers, Worker(w), Commit(w) PROVE OwnInv'
  <2>1. Active(w) /\ work[w].pc = "commit" /\ Own(w) /\ UNCHANGED <<hit, refused, link>>
    BY <1>0, <1>13 DEF Commit, Active
  <2>2. PICK t \in Txns : t = work[w].txn
    BY <1>0, <2>1
  <2>3. /\ work'[w].pc = "dequeue" /\ result'[t] = "ok"
        /\ \A u \in Txns \ {t} : result'[u] = result[u]
    BY <1>5, <1>13, <2>2 DEF Commit, Settle, Types
  <2>4. /\ temp'[w] = {}
        /\ \/ link[w] = "up" /\ rows' = rows \cup temp[w]
           \/ link[w] = "null" /\ rows' = rows
    BY <1>0, <1>13, <2>1 DEF Commit, Own
  <2>5. temp[w] \subseteq Statements(t) /\ t \notin refused
    BY <2>1, <2>2 DEF Own, OwnInv
  <2>6. t \notin hit => link[w] = "up" /\ temp[w] = Statements(t)
    BY <2>1, <2>2 DEF Own
  <2>7. t \notin hit' => Whole(t)' /\ TrueReport(t)'
    BY <2>1, <2>3, <2>4, <2>5, <2>6 DEF Whole, TrueReport
  <2>8. Own(w)'
    BY <2>3, <2>4 DEF Own, Active
  <2>9. ~Dequeue(w) /\ ~Active(w)'
    BY <2>1, <2>3 DEF Dequeue, Active
  <2>10. rows \subseteq rows' /\ rows' \subseteq rows \cup Statements(t)
    BY <2>4, <2>5
  <2> QED
    BY <1>13, <2>1, <2>2, <2>3, <2>5, <2>7, <2>8, <2>9, <2>10, Frame, OwnStep
<1>14. ASSUME NEW w \in Workers, Worker(w), Aborted(w) PROVE OwnInv'
  <2>1. /\ Active(w) /\ work[w].pc = "aborted" /\ Own(w) /\ temp[w] = {}
        /\ UNCHANGED <<rows, hit, refused, link, trx, temp>>
    BY <1>0, <1>14 DEF Aborted, Active, Own, connection
  <2>2. PICK t \in Txns : t = work[w].txn
    BY <1>0, <2>1
  <2>3. CASE UNCHANGED result
             /\ work' = [work EXCEPT ![w] = StartAttempt(t, work[w].attempt + 1)]
    <3>1. work[w].attempt + 1 \in Nat /\ work'[w] = StartAttempt(t, work[w].attempt + 1)
      BY <1>0, <2>3 DEF Jobs
    <3>2. /\ work'[w].txn = t /\ work'[w].stmt = 1
          /\ work'[w].pc = IF Size[t] = 0 THEN "aborted" ELSE "begin"
      BY <3>1, AttemptFields
    <3>3. work'[w].pc = "begin" => 1 \in 1..Size[t]
      BY <1>0, <3>2
    <3>4. Own(w)'
      BY <2>1, <2>2, <2>3, <3>2, <3>3 DEF Own, Active, Untouched
    <3> QED
      BY <1>14, <2>1, <2>3, <3>4, SilentStep
  <2>4. CASE Settle(w, "failed")
    <3>1. /\ work'[w].pc = "dequeue" /\ result'[t] = "failed"
          /\ \A u \in Txns \ {t} : result'[u] = result[u]
      BY <1>5, <2>2, <2>4 DEF Settle, Types
    <3>2. Own(w)' /\ ~Active(w)' /\ ~Dequeue(w)
      BY <2>1, <3>1 DEF Own, Active, Dequeue
    <3>3. /\ t \notin hit' => Whole(t)' /\ TrueReport(t)'
          /\ t \notin refused'
      BY <2>1, <2>2, <3>1 DEF OwnInv, Own, Untouched, Whole, TrueReport
    <3>4. rows \subseteq rows' /\ rows' \subseteq rows \cup Statements(t)
      BY <2>1
    <3> QED
      BY <1>14, <2>1, <2>2, <3>1, <3>2, <3>3, <3>4, Frame, OwnStep
  <2> QED
    BY <1>14, <2>2, <2>3, <2>4 DEF Aborted
<1>15. ASSUME NEW w \in Workers, Worker(w), ConnectionLost(w) PROVE OwnInv'
  <2>1. /\ Active(w) /\ Own(w) /\ work[w].pc \in {"begin", "stmt", "commit", "rollback"}
        /\ link[w] = "up"
    BY <1>0, <1>15 DEF ConnectionLost, Active
  <2>2. PICK t \in Txns : t = work[w].txn
    BY <1>0, <2>1
  <2>3. /\ hit' = hit \cup {t} /\ temp'[w] = {} /\ refused' = refused
        /\ t \notin refused
    BY <1>0, <1>15, <2>1, <2>2 DEF ConnectionLost, OwnInv, Own
  <2>4. rows \subseteq rows' /\ rows' \subseteq rows \cup Statements(t)
    <3> DEFINE inFlight == IF work[w].pc = "commit" THEN temp[w]
                           ELSE IF work[w].pc = "stmt" /\ ~trx[w]
                                THEN {<<work[w].txn, work[w].stmt>>} ELSE {}
    <3>1. rows' \in {rows, rows \cup inFlight}
      BY <1>15 DEF ConnectionLost
    <3>2. temp[w] \subseteq Statements(t)
      BY <2>1, <2>2 DEF Own
    <3>3. <<work[w].txn, work[w].stmt>> \in Statements(t)
      BY <2>1, <2>2 DEF Own, Statements
    <3>4. inFlight \subseteq Statements(t)
      BY <3>2, <3>3
    <3> HIDE DEF inFlight
    <3> QED
      BY <3>1, <3>4
  <2>5. ~Dequeue(w)
    BY <2>1 DEF Dequeue
  <2>6. CASE UNCHANGED <<work, link, result>>
    <3>1. Own(w)'
      BY <2>1, <2>2, <2>3, <2>6 DEF Own, Active
    <3> QED
      BY <1>15, <2>1, <2>2, <2>3, <2>4, <2>5, <2>6, <3>1, Frame, OwnStep
  <2>7. CASE \E pc \in {"stmt", "rollback", "aborted"} : Go(w, pc) /\ UNCHANGED result
    <3>1. /\ work'[w].pc \in {"stmt", "rollback", "aborted"} /\ work'[w].txn = t
          /\ work'[w].stmt = work[w].stmt /\ UNCHANGED result
      BY <1>4, <2>2, <2>7
    <3>2. Own(w)'
      BY <2>1, <2>2, <2>3, <3>1 DEF Own, Active
    <3> QED
      BY <1>15, <2>1, <2>2, <2>3, <2>4, <2>5, <3>1, <3>2, Frame, OwnStep
  <2>8. CASE Settle(w, "ok")
    <3>1. /\ work'[w].pc = "dequeue"
          /\ \A u \in Txns \ {t} : result'[u] = result[u]
      BY <1>5, <2>2, <2>8 DEF Settle, Types
    <3>2. Own(w)' /\ ~Active(w)'
      BY <2>3, <3>1 DEF Own, Active
    <3> QED
      BY <1>15, <2>1, <2>2, <2>3, <2>4, <2>5, <3>1, <3>2, Frame, OwnStep
  <2> QED
    BY <1>15, <2>6, <2>7, <2>8 DEF ConnectionLost
<1>16. ASSUME NEW w \in Workers, Worker(w), BeginRefused(w) PROVE OwnInv'
  <2>1. /\ Active(w) /\ work[w].pc = "begin" /\ Own(w) /\ temp[w] = {}
        /\ UNCHANGED <<rows, result, link, trx, temp, refused>>
    BY <1>0, <1>16 DEF BeginRefused, Active, Own
  <2>2. PICK t \in Txns : t = work[w].txn
    BY <1>0, <2>1
  <2>3. /\ work'[w].pc = "stmt" /\ work'[w].txn = t /\ work'[w].stmt = work[w].stmt
        /\ hit' = hit \cup {t} /\ t \notin refused /\ ~Dequeue(w)
    BY <1>4, <1>16, <2>1, <2>2 DEF BeginRefused, OwnInv, Own, Dequeue
  <2>4. Own(w)'
    BY <2>1, <2>2, <2>3 DEF Own, Active
  <2>5. rows \subseteq rows' /\ rows' \subseteq rows \cup Statements(t)
    BY <2>1
  <2> QED
    BY <1>16, <2>1, <2>2, <2>3, <2>4, <2>5, Frame, OwnStep
<1>17. ASSUME NEW w \in Workers, Worker(w), CommitRefused(w) PROVE OwnInv'
  <2>1. /\ Active(w) /\ work[w].pc = "commit" /\ Own(w)
        /\ UNCHANGED <<rows, hit, link>>
    BY <1>0, <1>17 DEF CommitRefused, Active
  <2>2. PICK t \in Txns : t = work[w].txn
    BY <1>0, <2>1
  <2>3. /\ work'[w].pc = "dequeue" /\ result'[t] = "ok" /\ temp'[w] = {}
        /\ refused' = refused \cup {t}
        /\ \A u \in Txns \ {t} : result'[u] = result[u]
    BY <1>0, <1>5, <1>17, <2>2 DEF CommitRefused, Settle, Types
  <2>4. t \notin hit' => Whole(t)' /\ TrueReport(t)'
    BY <2>1, <2>2, <2>3 DEF Own, Untouched, Whole, TrueReport
  <2>5. Own(w)' /\ ~Dequeue(w) /\ ~Active(w)'
    BY <2>1, <2>3 DEF Own, Active, Dequeue
  <2>6. rows \subseteq rows' /\ rows' \subseteq rows \cup Statements(t)
    BY <2>1
  <2> QED
    BY <1>17, <2>1, <2>2, <2>3, <2>4, <2>5, <2>6, Frame, OwnStep
<1>18. ASSUME NEW w \in Workers, Worker(w) PROVE OwnInv'
  BY <1>6, <1>7, <1>8, <1>9, <1>10, <1>11, <1>12, <1>13, <1>14, <1>15, <1>16, <1>17,
     <1>18 DEF Worker
<1> QED
  BY <1>1, <1>2, <1>3, <1>18 DEF Next, JoinWorkers, vars, connection

\* What the workers have done so far, and the two promises that rest on it, hold
\* in every reachable state.
THEOREM OwnInvariant == Spec => []OwnInv
<1>1. Init => OwnInv
  <2> SUFFICES ASSUME Init PROVE OwnInv
    OBVIOUS
  <2>1. \A w \in Workers : work[w].pc = "dequeue" /\ temp[w] = {} /\ ~Active(w)
    BY JobFields DEF Init, Active
  <2>2. \A w \in Workers : Own(w)
    BY <2>1 DEF Own
  <2>3. \A t \in Txns : Untouched(t) /\ result[t] = "pending" /\ Whole(t)
    BY DEF Init, Untouched, Whole
  <2>4. refused = {}
    BY DEF Init
  <2> QED
    BY <2>1, <2>2, <2>3, <2>4 DEF OwnInv, AtomicWhileConnected, ReportsAreTrue, TrueReport
<1>2. Types /\ OrderInv /\ OwnInv /\ [Next]_vars => OwnInv'
  BY OwnPreserved
<1> QED
  BY <1>1, <1>2, OrderInvariant, PTL DEF Spec

\* A transaction whose START TRANSACTION was accepted and during which the
\* connection stayed up is committed as a whole or not at all, whatever failed,
\* deadlocked, was refused or broke before it on its connection.
THEOREM AtomicUnlessDisconnected == Spec => []AtomicWhileConnected
<1>1. OwnInv => AtomicWhileConnected
  BY DEF OwnInv
<1> QED
  BY <1>1, OwnInvariant, PTL

\* What ExecuteTransaction reports of such a transaction is what the tables show:
\* all of it when reported as done, nothing when given up or when the server
\* refused the COMMIT whose result the code does not look at.
THEOREM ReportsMatchTables == Spec => []ReportsAreTrue
<1>1. OwnInv => ReportsAreTrue
  BY DEF OwnInv
<1> QED
  BY <1>1, OwnInvariant, PTL

=============================================================================
