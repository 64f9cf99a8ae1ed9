---------------------------- MODULE LockManager -----------------------------
(***************************************************************************)
(* noxu-txn's LockManager: the lock table, the wait loop of                *)
(* lock_with_timeout_and_txn, the incremental waits-for graph, deadlock    *)
(* detection, release with hand-over to waiters, demotion and the lock     *)
(* steal of HA replay, called concurrently by one thread per locker.       *)
(*                                                                         *)
(* One action is one critical section of the code: the threads interleave  *)
(* wherever the code holds no mutex.  The shard mutex is per LSN (two LSNs *)
(* in one shard only exclude more), is taken and dropped within one action *)
(* except in release, whose loop over the waiters is one action per        *)
(* iteration because a granted waiter runs on before the loop ends.        *)
(* Time is left out: a timeout is an action that may happen at any moment  *)
(* at which the code compares the clock with a deadline.                   *)
(***************************************************************************)
EXTENDS LockImpl, FiniteSets

CONSTANTS
  NLsns,          \* how many LSNs are locked
  RequestTypes,   \* the lock types callers ask for
  Importunate,    \* lockers that steal: HA replay; they are non-preemptable
  Demoters,       \* lockers that call demote
  ReadCommitted,  \* lockers whose reads give their lock up at once
  LockTimeout,    \* TRUE: timeout_ms > 0;  FALSE: 0, wait forever
  TxnTimeout      \* TRUE: a transaction timeout is set

ASSUME LsnAssumption == NLsns \in Nat
ASSUME RequestAssumption == RequestTypes \subseteq LockTypes
ASSUME ClassAssumption ==
  /\ Importunate \subseteq Locker
  /\ Demoters \subseteq Locker
  /\ ReadCommitted \subseteq Locker
  /\ LockTimeout \in BOOLEAN
  /\ TxnTimeout \in BOOLEAN

Lsn == 1 .. NLsns   \* in the order of their shards

VARIABLES
  lock_tables,    \* the lock on each LSN; an absent entry is `new`
  shard,          \* the locker inside release's loop, holding the shard mutex
  waiter_graph,   \* edges recorded by record_wait; {} when absent
  preempted,      \* lockers a lock was stolen from
  granted,        \* the flag of the notify pair of each locker's request
  call,           \* where each locker's thread is in the lock manager
  txn,            \* the caller: "Open", "MustAbort" (poisoned), "Ending", "Ended"
  read_locks,     \* the LSNs the caller has recorded as read locked
  write_locks     \* and as write locked

vars == <<lock_tables, shard, waiter_graph, preempted, granted, call, txn,
          read_locks, write_locks>>

recorded == <<read_locks, write_locks>>

Errors == {"LockTimeout", "TransactionTimeout", "Deadlock", "RangeRestart"}

WaitPcs == {"queued", "check", "counting", "sleep", "validate", "clear"}

CallRecord ==
        [pc        : {"idle", "probed", "steal", "fallback", "releasing"} \cup WaitPcs,
         lsn       : Lsn \cup {0},
         type      : LockTypes,
         wait      : Waits,            \* initial_grant
         owner_ids : SUBSET Locker,    \* what detection starts from
         cycle     : SUBSET Locker,
         counted   : Nat,              \* shards compute_lock_counts has walked
         counts    : [Locker -> Nat],
         outcome   : Errors \cup {"Granted"}]

\* A call that is under way is for one LSN.
Call == {c \in CallRecord : c.pc # "idle" => c.lsn \in Lsn}

NoCall == [pc |-> "idle", lsn |-> 0, type |-> "Read", wait |-> "WaitNew",
           owner_ids |-> {}, cycle |-> {}, counted |-> 0,
           counts |-> [l \in Locker |-> 0], outcome |-> "Granted"]

TypeOK ==
  /\ lock_tables \in [Lsn -> Lock]
  /\ shard \in [Lsn -> Locker \cup {NoLocker}]
  /\ waiter_graph \in [Locker -> SUBSET Locker]
  /\ preempted \subseteq Locker
  /\ granted \in [Locker -> BOOLEAN]
  /\ call \in [Locker -> Call]
  /\ txn \in [Locker -> {"Open", "MustAbort", "Ending", "Ended"}]
  /\ read_locks \in [Locker -> SUBSET Lsn]
  /\ write_locks \in [Locker -> SUBSET Lsn]

Init ==
  /\ lock_tables = [n \in Lsn |-> new]
  /\ shard = [n \in Lsn |-> NoLocker]
  /\ waiter_graph = [l \in Locker |-> {}]
  /\ preempted = {}
  /\ granted = [l \in Locker |-> FALSE]
  /\ call = [l \in Locker |-> NoCall]
  /\ txn = [l \in Locker |-> "Open"]
  /\ read_locks = [l \in Locker |-> {}]
  /\ write_locks = [l \in Locker |-> {}]

Free(n) == shard[n] = NoLocker

\* An entry with neither owners nor waiters is removed from the table.
Stored(lk) == IF Owners(lk) = {} /\ NoWaiters(lk) THEN new ELSE lk

-----------------------------------------------------------------------------
(* Returning to the caller: Txn::lock *)

\* Ok: the LSN is recorded, a write lock in place of a read lock.
ReturnGranted(l, n, t) ==
  /\ read_locks' = [read_locks EXCEPT ![l] =
       IF is_write_lock(t) THEN @ \ {n} ELSE @ \cup {n}]
  /\ write_locks' = [write_locks EXCEPT ![l] =
       IF is_write_lock(t) THEN @ \cup {n} ELSE @]
  /\ call' = [call EXCEPT ![l] = NoCall]
  /\ UNCHANGED txn

\* Err: nothing is recorded; a failed blocking request poisons the caller.
ReturnError(l, e) ==
  /\ txn' = [txn EXCEPT ![l] =
       IF e \in {"LockTimeout", "TransactionTimeout", "Deadlock"} /\ @ = "Open"
       THEN "MustAbort" ELSE @]
  /\ call' = [call EXCEPT ![l] = NoCall]
  /\ UNCHANGED recorded

-----------------------------------------------------------------------------
(* Phase 1: the attempt under the shard mutex *)

\* What one attempt does: grant, refuse, or (blocking) leave a waiter.
Attempt(l, n, t, nonBlocking, denied) ==
  /\ Free(n)
  /\ \E ownFirst \in BOOLEAN :
       LET lk == lock_tables[n]
           g  == Answer(lk, l, t, ownFirst)
       IN /\ lock_tables' = [lock_tables EXCEPT ![n] = AfterAnswer(lk, l, t, g, nonBlocking)]
          /\ \/ g \in Granted /\ ReturnGranted(l, n, t) /\ UNCHANGED granted
             \/ g = "IllegalUpgrade" /\ ReturnError(l, g) /\ UNCHANGED granted
             \/ /\ g \in Waits /\ nonBlocking
                /\ call' = [call EXCEPT ![l] = denied]
                /\ UNCHANGED <<granted, txn, recorded>>
             \/ /\ g \in Waits /\ ~ nonBlocking
                /\ granted' = [granted EXCEPT ![l] = FALSE]
                /\ call' = [call EXCEPT ![l] =
                     [NoCall EXCEPT !.pc = "queued", !.lsn = n, !.type = t,
                                    !.wait = g, !.owner_ids = OwnerIds(lk)]]
                /\ UNCHANGED <<txn, recorded>>
  /\ UNCHANGED <<shard, waiter_graph, preempted>>

\* Entry of lock_with_timeout_and_txn: a locker whose lock was stolen is told so.
\* The code reads the flag just before it takes the shard mutex; here the two
\* are one step, so a steal counts as before or after both.
lock_with_timeout_and_txn(l, n, t, nonBlocking, denied) ==
  IF l \in preempted
  THEN /\ ReturnError(l, "LockPreempted")
       /\ UNCHANGED <<lock_tables, shard, waiter_graph, preempted, granted>>
  ELSE Attempt(l, n, t, nonBlocking, denied)

\* An ordinary locker's request.
Request(l, n, t, nonBlocking) ==
  /\ call[l].pc = "idle" /\ txn[l] = "Open"
  /\ l \notin Importunate
  /\ l \in ReadCommitted => t # "Read"
  /\ lock_with_timeout_and_txn(l, n, t, nonBlocking, NoCall)

probe_read_uncontended(l, n) ==
  /\ NoWaiters(lock_tables[n])
  /\ \A o \in Owners(lock_tables[n]) : is_write_lock(o.type) => o.locker = l

\* CursorImpl::lock_ln_mode of a read-committed reader asks first whether
\* anybody contends; if nobody does, the read takes no lock.
Probe(l, n) ==
  /\ call[l].pc = "idle" /\ txn[l] = "Open"
  /\ l \in ReadCommitted
  /\ Free(n)
  /\ ~ probe_read_uncontended(l, n)
  /\ call' = [call EXCEPT ![l] = [NoCall EXCEPT !.pc = "probed", !.lsn = n]]
  /\ UNCHANGED <<lock_tables, shard, waiter_graph, preempted, granted, txn, recorded>>

\* ... and otherwise locks: without blocking, and blocking when denied.
ProbedRead(l) ==
  /\ call[l].pc = "probed"
  /\ lock_with_timeout_and_txn(l, call[l].lsn, "Read", TRUE,
                               [call[l] EXCEPT !.pc = "fallback"])

\* lock_importunate_with_timeout: a non-blocking attempt, then the steal.
ImportunateRequest(l, n, t) ==
  /\ call[l].pc = "idle" /\ txn[l] = "Open"
  /\ l \in Importunate
  /\ lock_with_timeout_and_txn(l, n, t, TRUE,
       [NoCall EXCEPT !.pc = "steal", !.lsn = n, !.type = t])

\* Faulty variant: the owners a lock is stolen from are not marked.
Steal_Unmarked(l) ==
  LET n    == call[l].lsn
      t    == call[l].type
      left == steal_lock_preemptable(flush_waiter(lock_tables[n], l), l, Locker \ Importunate)
  IN /\ call[l].pc = "steal" /\ Free(n)
     /\ lock_tables' = [lock_tables EXCEPT ![n] =
          AfterAnswer(left, l, t, Answer(left, l, t, TRUE), TRUE)]
     /\ IF Answer(left, l, t, TRUE) \in Granted THEN ReturnGranted(l, n, t)
        ELSE call' = [call EXCEPT ![l].pc = "fallback"] /\ UNCHANGED <<txn, recorded>>
     /\ UNCHANGED <<shard, waiter_graph, preempted, granted>>

\* Faulty variant: non-preemptable owners are stolen from as well.
Steal_Anyone(l) ==
  LET n    == call[l].lsn
      t    == call[l].type
      lk   == flush_waiter(lock_tables[n], l)
      left == steal_lock_preemptable(lk, l, Locker)
  IN /\ call[l].pc = "steal" /\ Free(n)
     /\ preempted' = preempted \cup StolenFrom(lk, l, Locker)
     /\ lock_tables' = [lock_tables EXCEPT ![n] =
          AfterAnswer(left, l, t, Answer(left, l, t, TRUE), TRUE)]
     /\ ReturnGranted(l, n, t)
     /\ UNCHANGED <<shard, waiter_graph, granted>>

\* steal_lock_in_wait: flush, remove the preemptable owners and mark them,
\* attempt again without blocking.  When a non-preemptable owner still blocks, a
\* no-wait caller gets LockNotAvailable and any other waits.
Steal(l) ==
  LET n    == call[l].lsn
      t    == call[l].type
      lk   == flush_waiter(lock_tables[n], l)
      left == steal_lock_preemptable(lk, l, Locker \ Importunate)
  IN /\ call[l].pc = "steal"
     /\ Free(n)
     /\ preempted' = preempted \cup StolenFrom(lk, l, Locker \ Importunate)
     /\ \E ownFirst \in BOOLEAN :
          LET g == Answer(left, l, t, ownFirst)
          IN /\ lock_tables' = [lock_tables EXCEPT ![n] = AfterAnswer(left, l, t, g, TRUE)]
             /\ IF g \in Granted THEN ReturnGranted(l, n, t)
                ELSE /\ \/ call' = [call EXCEPT ![l].pc = "fallback"]
                        \/ call' = [call EXCEPT ![l] = NoCall]
                     /\ UNCHANGED <<txn, recorded>>
     /\ UNCHANGED <<shard, waiter_graph, granted>>

\* The steal or the non-blocking read was refused: the ordinary blocking wait.
Fallback(l) ==
  /\ call[l].pc = "fallback"
  /\ lock_with_timeout_and_txn(l, call[l].lsn, call[l].type, FALSE, NoCall)

-----------------------------------------------------------------------------
(* Phase 2: the waits-for graph and deadlock detection *)

Goto(l, pc) == call' = [call EXCEPT ![l].pc = pc]

\* The transaction's deadline passed before the wait began.
BudgetSpent(l) ==
  /\ call[l].pc = "queued" /\ TxnTimeout /\ l \notin Importunate
  /\ call' = [call EXCEPT ![l].pc = "validate", ![l].outcome = "TransactionTimeout"]
  /\ UNCHANGED <<lock_tables, shard, waiter_graph, preempted, granted, txn, recorded>>

record_wait(l) ==
  /\ call[l].pc = "queued"
  /\ waiter_graph' = [waiter_graph EXCEPT ![l] = call[l].owner_ids]
  /\ Goto(l, "check")
  /\ UNCHANGED <<lock_tables, shard, preempted, granted, txn, recorded>>

\* The lockers on a path requester -> owner -> ... -> requester.  The code's
\* depth-first search follows hash-set order, so it may return any of them.
Cycles(requester, owner_ids, waits_for) ==
  LET paths == UNION {[1 .. k -> Locker] : k \in 2 .. Cardinality(Locker)}
      cyclic(p) ==
        /\ p[1] = requester
        /\ p[2] \in owner_ids
        /\ \A i, j \in DOMAIN p : i # j => p[i] # p[j]
        /\ \A i \in 2 .. Len(p) :
             (IF i = Len(p) THEN requester ELSE p[i + 1]) \in waits_for[p[i]]
  IN {{p[i] : i \in DOMAIN p} : p \in {q \in paths : cyclic(q)}}

\* check_deadlock_for_waiter up to the detector's verdict: one snapshot of the
\* graph under its mutex.
check_deadlock_for_waiter(l) ==
  LET cycles == Cycles(l, call[l].owner_ids, waiter_graph)
  IN /\ call[l].pc = "check"
     /\ \/ cycles = {} /\ Goto(l, "sleep")
        \/ \E c \in cycles :
             call' = [call EXCEPT ![l].pc = "counting", ![l].cycle = c]
     /\ UNCHANGED <<lock_tables, shard, waiter_graph, preempted, granted, txn, recorded>>

\* compute_lock_counts locks one shard after the other.
compute_lock_counts(l) ==
  LET n == call[l].counted + 1
  IN /\ call[l].pc = "counting" /\ n \in Lsn
     /\ Free(n)
     /\ call' = [call EXCEPT
          ![l].counted = n,
          ![l].counts = [m \in Locker |->
             @[m] + IF m \in call[l].cycle /\ m \in OwnerIds(lock_tables[n]) THEN 1 ELSE 0]]
     /\ UNCHANGED <<lock_tables, shard, waiter_graph, preempted, granted, txn, recorded>>

\* Fewest locks; among those the largest id.
select_victim(cycle, counts) ==
  CHOOSE v \in cycle :
    \A m \in cycle : counts[v] < counts[m] \/ (counts[v] = counts[m] /\ v >= m)



\* A member that owns nothing makes the cycle a phantom; otherwise the victim
\* is chosen and gives up if it is the checking locker itself.
Verdict(l) ==
  LET c == call[l]
      phantom == \E m \in c.cycle : c.counts[m] = 0
      victim  == ~ phantom /\ select_victim(c.cycle, c.counts) = l
  IN /\ c.pc = "counting" /\ c.counted + 1 \notin Lsn
     /\ call' = [call EXCEPT ![l].pc = IF victim THEN "validate" ELSE "sleep",
                             ![l].cycle = {}, ![l].counted = 0,
                             ![l].counts = NoCall.counts,
                             ![l].outcome = IF victim THEN "Deadlock" ELSE @]
     /\ UNCHANGED <<lock_tables, shard, waiter_graph, preempted, granted, txn, recorded>>

-----------------------------------------------------------------------------
(* Phase 3: the wait loop *)

\* The granted flag is set: leave the loop.
Wake(l) ==
  /\ call[l].pc = "sleep" /\ granted[l]
  /\ call' = [call EXCEPT ![l].pc = "clear", ![l].outcome = "Granted"]
  /\ UNCHANGED <<lock_tables, shard, waiter_graph, preempted, granted, txn, recorded>>

\* A slice of at most 50 ms ends: read the current owners and check again.
SliceExpires(l) ==
  LET n == call[l].lsn
  IN /\ call[l].pc = "sleep" /\ ~ granted[l]
     /\ Free(n)
     /\ call' = [call EXCEPT ![l].pc = "check",
                             ![l].owner_ids = OwnerIds(lock_tables[n])]
     /\ UNCHANGED <<lock_tables, shard, waiter_graph, preempted, granted, txn, recorded>>

\* A deadline has passed and the flag, read under the notify mutex, is not set.
TimesOut(l, e) ==
  /\ call[l].pc = "sleep" /\ ~ granted[l]
  /\ \/ e = "LockTimeout" /\ LockTimeout
     \/ e = "TransactionTimeout" /\ TxnTimeout /\ l \notin Importunate
  /\ call' = [call EXCEPT ![l].pc = "validate", ![l].outcome = e]
  /\ UNCHANGED <<lock_tables, shard, waiter_graph, preempted, granted, txn, recorded>>

\* Faulty variant: the waiter is flushed without asking whether it was granted.
validate_FlushOnly(l) ==
  /\ call[l].pc = "validate" /\ Free(call[l].lsn)
  /\ lock_tables' = [lock_tables EXCEPT ![call[l].lsn] = Stored(flush_waiter(@, l))]
  /\ Goto(l, "clear")
  /\ UNCHANGED <<shard, waiter_graph, preempted, granted, txn, recorded>>

\* The shard section of validate_ownership_or_flush: an owner of the requested
\* type was granted in the meantime, anyone else leaves the line.
validate_ownership_or_flush(l) ==
  LET n     == call[l].lsn
      owner == is_owner(lock_tables[n], l, call[l].type)
  IN /\ call[l].pc = "validate"
     /\ Free(n)
     /\ lock_tables' = IF owner THEN lock_tables
                       ELSE [lock_tables EXCEPT ![n] = Stored(flush_waiter(@, l))]
     /\ call' = [call EXCEPT ![l].pc = "clear",
                             ![l].outcome = IF owner THEN "Granted" ELSE @]
     /\ UNCHANGED <<shard, waiter_graph, preempted, granted, txn, recorded>>

\* Faulty variant: the edge is removed only when the request was granted.
clear_wait_GrantOnly(l) ==
  LET c == call[l]
  IN /\ c.pc = "clear"
     /\ waiter_graph' = IF c.outcome = "Granted" THEN [waiter_graph EXCEPT ![l] = {}]
                        ELSE waiter_graph
     /\ IF c.outcome # "Granted" THEN ReturnError(l, c.outcome)
        ELSE IF c.wait = "WaitRestart" THEN ReturnError(l, "RangeRestart")
        ELSE ReturnGranted(l, c.lsn, c.type)
     /\ UNCHANGED <<lock_tables, shard, preempted, granted>>

\* clear_wait, then the return: granted_wait_grant or the error.
clear_wait(l) ==
  LET c == call[l]
  IN /\ c.pc = "clear"
     /\ waiter_graph' = [waiter_graph EXCEPT ![l] = {}]
     /\ IF c.outcome # "Granted" THEN ReturnError(l, c.outcome)
        ELSE IF c.wait = "WaitRestart" THEN ReturnError(l, "RangeRestart")
        ELSE ReturnGranted(l, c.lsn, c.type)
     /\ UNCHANGED <<lock_tables, shard, preempted, granted>>

-----------------------------------------------------------------------------
(* release, demote, end of transaction *)

\* Faulty variant: the waiters are not looked at.
release_NoHandOver(l, n) ==
  /\ Free(n)
  /\ lock_tables' = [lock_tables EXCEPT ![n] = Stored(flush_owner(@, l))]
  /\ UNCHANGED <<shard, waiter_graph, preempted, granted, call, txn>>

\* Enter release for n: drop the ownership and, when somebody waits, keep the
\* shard mutex for the loop over the waiters.
release(l, n) ==
  LET lk   == lock_tables[n]
      done == Owned(lk, l) = {} \/ NoWaiters(lk)
  IN /\ Free(n)
     /\ lock_tables' = [lock_tables EXCEPT ![n] = Stored(flush_owner(lk, l))]
     /\ shard' = IF done THEN shard ELSE [shard EXCEPT ![n] = l]
     /\ call' = IF done THEN call ELSE [call EXCEPT ![l].pc = "releasing", ![l].lsn = n]
     /\ UNCHANGED <<waiter_graph, preempted, granted, txn>>

ReleaseRead(l, n) ==
  /\ n \in read_locks[l]
  /\ release(l, n)
  /\ read_locks' = [read_locks EXCEPT ![l] = @ \ {n}]
  /\ UNCHANGED write_locks

ReleaseWrite(l, n) ==
  /\ n \in write_locks[l]
  /\ release(l, n)
  /\ write_locks' = [write_locks EXCEPT ![l] = @ \ {n}]
  /\ UNCHANGED read_locks

\* Txn::release_lock: the end of a read-committed read.
release_lock(l, n) ==
  /\ call[l].pc = "idle" /\ txn[l] \in {"Open", "MustAbort"}
  /\ l \in ReadCommitted
  /\ ReleaseRead(l, n)

\* Txn::release_range_insert_for_write: a next-key lock is given up because the
\* transaction is about to write the key itself.
release_range_insert_for_write(l, n) ==
  /\ call[l].pc = "idle" /\ txn[l] = "Open"
  /\ "Write" \in RequestTypes
  /\ n \notin write_locks[l]
  /\ is_owner(lock_tables[n], l, "RangeInsert")
  /\ ReleaseRead(l, n)

\* Txn::commit or abort: every recorded lock is released, one after the other.
EndTxn(l) ==
  /\ call[l].pc = "idle" /\ txn[l] \in {"Open", "MustAbort"}
  /\ txn' = [txn EXCEPT ![l] = "Ending"]
  /\ UNCHANGED <<lock_tables, shard, waiter_graph, preempted, granted, call, recorded>>

ReleaseNext(l) ==
  /\ call[l].pc = "idle" /\ txn[l] = "Ending"
  /\ \E n \in Lsn : ReleaseRead(l, n) \/ ReleaseWrite(l, n)

\* The last lock is gone: clear_preempted.
Ended(l) ==
  /\ call[l].pc = "idle" /\ txn[l] = "Ending"
  /\ read_locks[l] = {} /\ write_locks[l] = {}
  /\ preempted' = preempted \ {l}
  /\ txn' = [txn EXCEPT ![l] = "Ended"]
  /\ UNCHANGED <<lock_tables, shard, waiter_graph, granted, call, recorded>>

\* One iteration of the release loop that grants: the waiter leaves the line
\* and its flag is set.
GrantNext(l, n) ==
  LET lk == lock_tables[n]
  IN /\ shard[n] = l
     /\ \E w \in NextWaiter(lk), ownFirst \in BOOLEAN :
          LET g == WaiterGrant(lk, w, l, ownFirst)
          IN /\ g \in Granted
             /\ lock_tables' = [lock_tables EXCEPT ![n] = GrantWaiter(lk, w, g)]
             /\ granted' = [granted EXCEPT ![w.locker] = TRUE]
     /\ UNCHANGED <<shard, waiter_graph, preempted, call, txn, recorded>>

\* The loop stops at the first waiter that cannot be granted, or at the end of
\* the line; an empty entry is removed and the shard mutex dropped.
EndRelease(l, n) ==
  LET lk == lock_tables[n]
  IN /\ shard[n] = l
     /\ \/ NextWaiter(lk) = {}
        \/ \E w \in NextWaiter(lk), ownFirst \in BOOLEAN :
             WaiterGrant(lk, w, l, ownFirst) \notin Granted
     /\ lock_tables' = [lock_tables EXCEPT ![n] = Stored(lk)]
     /\ shard' = [shard EXCEPT ![n] = NoLocker]
     /\ call' = [call EXCEPT ![l] = NoCall]
     /\ UNCHANGED <<waiter_graph, preempted, granted, txn, recorded>>

\* Txn::demote_lock
Demote(l, n) ==
  /\ call[l].pc = "idle" /\ txn[l] = "Open"
  /\ l \in Demoters /\ n \in write_locks[l]
  /\ Free(n)
  /\ lock_tables' = [lock_tables EXCEPT ![n] = demote(@, l)]
  /\ write_locks' = [write_locks EXCEPT ![l] = @ \ {n}]
  /\ read_locks' = [read_locks EXCEPT ![l] = @ \cup {n}]
  /\ UNCHANGED <<shard, waiter_graph, preempted, granted, call, txn>>

-----------------------------------------------------------------------------
Step(l) ==
  \/ ProbedRead(l)
  \/ Steal(l)
  \/ Fallback(l)
  \/ BudgetSpent(l)
  \/ record_wait(l)
  \/ check_deadlock_for_waiter(l)
  \/ compute_lock_counts(l)
  \/ Verdict(l)
  \/ Wake(l)
  \/ SliceExpires(l)
  \/ \E e \in {"LockTimeout", "TransactionTimeout"} : TimesOut(l, e)
  \/ validate_ownership_or_flush(l)
  \/ clear_wait(l)
  \/ EndTxn(l)
  \/ ReleaseNext(l)
  \/ Ended(l)
  \/ \E n \in Lsn : GrantNext(l, n) \/ EndRelease(l, n)

Invoke(l) ==
  \E n \in Lsn :
    \/ \E t \in RequestTypes :
         \/ \E nonBlocking \in BOOLEAN : Request(l, n, t, nonBlocking)
         \/ ImportunateRequest(l, n, t)
    \/ Probe(l, n)
    \/ release_lock(l, n)
    \/ release_range_insert_for_write(l, n)
    \/ Demote(l, n)

\* Every transaction has ended: the system may rest.
Finished == (\A l \in Locker : txn[l] = "Ended") /\ UNCHANGED vars

Next == (\E l \in Locker : Step(l) \/ Invoke(l)) \/ Finished

Spec == Init /\ [][Next]_vars

\* The scheduler runs every thread, every caller ends its transaction, and the
\* clock reaches a deadline the wait loop keeps comparing it with.
Fairness ==
  \A l \in Locker :
    /\ WF_vars(Step(l))
    /\ SF_vars(\E e \in {"LockTimeout", "TransactionTimeout"} : TimesOut(l, e))

FairSpec == Spec /\ Fairness

-----------------------------------------------------------------------------
(* Properties *)

Waiting(l) == call[l].pc \in WaitPcs

\* Two owners of one LSN hold types the conflict matrix allows together, or
\* share locks; and no locker owns an LSN twice (LockImpl's list of owner-set
\* states).  Broken by a grant, promotion, steal or hand-over that overlooks an
\* owner.
OwnersCompatible == \A n \in Lsn : Compatible(lock_tables[n])

\* Outside release's loop a lock somebody waits for has an owner: a release, a
\* steal or a waiter that gives up never leaves the line with nobody who would
\* wake it.
WaitersHaveOwner ==
  \A n \in Lsn :
    Free(n) /\ ~ NoWaiters(lock_tables[n]) => Owners(lock_tables[n]) # {}

\* A locker stands in at most one line, once, and exactly while its thread is in
\* the wait path and has not been granted: no entry outlives its request, no
\* thread sleeps without an entry or a raised flag.
WaitsOnce ==
  \A l \in Locker :
    /\ \A n \in Lsn :
         /\ l \in WaiterIds(lock_tables[n]) =>
              /\ Waiting(l) /\ call[l].lsn = n /\ ~ granted[l]
              /\ ~ (call[l].pc = "clear")
         /\ LET lk == lock_tables[n]
                here == {i \in 1 .. Len(lk.waiter_list) : lk.waiter_list[i].locker = l}
            IN Cardinality(here)
                 + Cardinality({w \in lk.first_waiter : w.locker = l}) <= 1
    /\ call[l].pc \in WaitPcs \ {"clear"} =>
         granted[l] \/ l \in WaiterIds(lock_tables[call[l].lsn])

\* A locker owns only what its caller has recorded or is about to record, so
\* ending the transaction releases everything: a request that reports an error
\* leaves no owner behind (the grant/timeout race of
\* validate_ownership_or_flush).
OwnedIsRecorded ==
  \A l \in Locker : \A n \in Lsn :
    l \in OwnerIds(lock_tables[n]) =>
      \/ n \in read_locks[l] \cup write_locks[l]
      \/ /\ Waiting(l) /\ call[l].lsn = n /\ granted[l]
         /\ call[l].pc = "clear" => call[l].outcome = "Granted"

\* Nobody loses a lock silently: a transaction that has recorded an LSN and has
\* not begun to end still owns it, or carries the preempted flag that makes its
\* next request fail (steal_lock_in_wait, mark_preempted).
NoSilentLoss ==
  \A l \in Locker :
    txn[l] \in {"Open", "MustAbort"} =>
      \A n \in read_locks[l] \cup write_locks[l] :
        l \in OwnerIds(lock_tables[n]) \/ l \in preempted

\* A replay locker is never stolen from: it stays an owner until its transaction
\* ends (register_non_preemptable).
ImportunateKeepsLocks ==
  [][\A l \in Importunate : \A n \in Lsn :
       l \in OwnerIds(lock_tables[n]) /\ txn'[l] \in {"Open", "MustAbort"} =>
         l \in OwnerIds(lock_tables'[n])]_vars

\* A request that is about to report an error has not been granted: a waiter for
\* a new lock owns nothing, a waiter for a promotion owns no write lock
\* (validate_ownership_or_flush).
ErrorMeansNotGranted ==
  \A l \in Locker :
    call[l].pc = "clear" /\ call[l].outcome # "Granted" =>
      LET owned == Owned(lock_tables[call[l].lsn], l)
      IN /\ call[l].wait = "WaitNew" => owned = {}
         /\ call[l].wait = "WaitPromotion" => \A o \in owned : ~ is_write_lock(o.type)

\* The waits-for graph keeps no edge of a locker that has returned.
NoStaleEdge ==
  \A l \in Locker : waiter_graph[l] # {} => Waiting(l)

=============================================================================
