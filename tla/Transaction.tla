------------------------------ MODULE Transaction ------------------------------
(***************************************************************************)
(* The life of an explicit transaction in Noxu: record writes through a    *)
(* cursor (lock the slot's version, log the LN, move the lock, update the  *)
(* tree), then commit, abort, or XA prepare and its resolution.            *)
(*                                                                         *)
(* A handle is two objects.  The outer noxu_db::Transaction writes the     *)
(* TxnCommit / TxnAbort / TxnPrepare frames and keeps the public state;    *)
(* the inner noxu_txn::Txn, behind its own mutex, holds the record locks   *)
(* with the before-images and a state of its own (which a failed lock      *)
(* request turns to MustAbort).  Nothing covers a whole operation: each    *)
(* action below is one critical section or one log call, and the calls of  *)
(* other callers interleave between them.                                  *)
(*                                                                         *)
(* The lock manager and the log are used through what LockManager and      *)
(* CommitLog establish: a write lock has one owner, and a sync that        *)
(* succeeds makes the whole log up to then durable.  Read and range locks  *)
(* are left to LockManager; data is abstracted to its version, the LSN.    *)
(* A locked thing is an LSN, or -k for the synthetic lock id of key k.     *)
(***************************************************************************)
EXTENDS Integers, Sequences, FiniteSets, FiniteSetsExt

CONSTANTS
    Txns,       \* transaction ids: positive integers
    Keys,       \* record keys: positive integers
    Handles,    \* caller (a thread) -> the transactions whose handle it uses
    Policies,   \* the commit policies callers ask for
    Xa,         \* the transactions that are branches of noxu-xa
    LateWrites, \* do callers go on writing through a prepared handle?
    Failures,   \* may a log write or an fdatasync fail?
    MaxWrites   \* bound: LNs logged by transactions

ASSUME TransactionAssumption ==
    /\ Txns \subseteq Nat \ {0} /\ Keys \subseteq Nat \ {0}
    /\ \A c \in DOMAIN Handles : Handles[c] \subseteq Txns
    /\ Policies \subseteq {"Sync", "NoSync"}
    /\ Xa \subseteq Txns /\ {LateWrites, Failures} \subseteq BOOLEAN /\ MaxWrites \in Nat

VARIABLES
    state,        \* Transaction::state
    inner,        \* Txn::state
    prepared,     \* Txn's IS_PREPARED flag
    last_lsn,     \* Txn::last_lsn
    write_locks,  \* Txn::write_locks: lock id -> WriteLockInfo
    undo_records, \* Txn::undo_records
    tree,         \* key -> its slot: LSN (0: no slot) and whether it is live
    log,          \* the WAL: the entry at LSN i is log[i]
    durable,      \* the log up to here has been synced
    io_invalid,   \* LogManager::io_invalid
    call,         \* caller -> the operation it is in
    told          \* what callers were told has become of a transaction

handle == <<state, inner, prepared, last_lsn, write_locks, undo_records>>
wal    == <<log, durable, io_invalid>>
vars   == <<handle, tree, wal, call, told>>

Callers == DOMAIN Handles

\* WriteLockInfo::default: locked, but no before-image recorded yet.
WriteLockInfo ==
    [never_locked |-> TRUE, abort_lsn |-> 0, abort_known_deleted |-> FALSE, key |-> 0]

LN(t, k, deleted, abort_lsn, kd) ==
    [type |-> "LN", txn |-> t, key |-> k, deleted |-> deleted,
     abort_lsn |-> abort_lsn, abort_known_deleted |-> kd]

\* An operation just begun; the fields after "txn" are its local variables.
Call(op, t, pc) ==
    [pc |-> pc, op |-> op, txn |-> t, key |-> 0, want |-> 0, then |-> "idle", old |-> 0,
     exists |-> FALSE, new |-> 0, undo |-> {}, sync |-> FALSE, err |-> FALSE]

Idle == Call("none", 0, "idle")

\* Key 1 exists, written by an auto-commit before the behaviour begins.
Init ==
    /\ state        = [t \in Txns |-> "Open"]
    /\ inner        = [t \in Txns |-> "Open"]
    /\ prepared     = [t \in Txns |-> FALSE]
    /\ last_lsn     = [t \in Txns |-> 0]
    /\ write_locks  = [t \in Txns |-> << >>]
    /\ undo_records = [t \in Txns |-> {}]
    /\ tree         = [k \in Keys |-> [lsn |-> IF k = 1 THEN 1 ELSE 0, exists |-> k = 1]]
    /\ log          = << LN(0, 1, FALSE, 0, FALSE) >>
    /\ durable      = 1
    /\ io_invalid   = FALSE
    /\ call         = [c \in Callers |-> Idle]
    /\ told         = [t \in Txns |-> {}]

-----------------------------------------------------------------------------
(* Locks *)

\* A caller that waits for a lock inside Txn::lock keeps the Txn's mutex.
InnerFree(t) == \A c \in Callers : call[c].pc = "wait" => call[c].txn # t

Conflict(t, id) == \E u \in Txns \ {t} : id \in DOMAIN write_locks[u]

LockId(k, lsn) == IF lsn = 0 THEN -k ELSE lsn

\* write_locks with lock `id' tracked (entry(lsn).or_default()).
Tracked(locks, id) ==
    IF id \in DOMAIN locks THEN locks
    ELSE [i \in DOMAIN locks \union {id} |-> IF i = id THEN WriteLockInfo ELSE locks[i]]

\* Txn::release_all_locks, and the release at the end of Txn::commit.
ReleaseAllLocks(t) == write_locks' = [write_locks EXCEPT ![t] = << >>]

\* Txn::check_state.
CheckState(t) == inner[t] = "Open"

Goto(c, pc) == call' = [call EXCEPT ![c].pc = pc]
Return(c)   == call' = [call EXCEPT ![c] = Idle]

\* Txn::set_only_abortable.
SetOnlyAbortable(t) ==
    inner' = [inner EXCEPT ![t] = IF @ = "Open" THEN "MustAbort" ELSE @]

\* Txn::lock, up to the wait: refused unless the Txn is Open, granted at once
\* when no other transaction holds the lock.
Lock(c) ==
    LET t == call[c].txn  id == call[c].want IN
    /\ call[c].pc = "lock" /\ InnerFree(t)
    /\ \/ /\ ~CheckState(t)
          /\ Return(c)
          /\ UNCHANGED write_locks
       \/ /\ CheckState(t) /\ Conflict(t, id)
          /\ Goto(c, "wait")
          /\ UNCHANGED write_locks
       \/ /\ CheckState(t) /\ ~Conflict(t, id)
          /\ write_locks' = [write_locks EXCEPT ![t] = Tracked(@, id)]
          /\ Goto(c, call[c].then)
    /\ UNCHANGED <<state, inner, prepared, last_lsn, undo_records, tree, wal, told>>

\* The wait ends with the lock, or (timeout, deadlock victim) without it:
\* then Txn::lock makes the transaction abort-only.
WaitEnds(c) ==
    LET t == call[c].txn  id == call[c].want IN
    /\ call[c].pc = "wait"
    /\ \/ /\ ~Conflict(t, id)
          /\ write_locks' = [write_locks EXCEPT ![t] = Tracked(@, id)]
          /\ Goto(c, call[c].then)
          /\ UNCHANGED inner
       \/ /\ Conflict(t, id)
          /\ SetOnlyAbortable(t)
          /\ Return(c)
          /\ UNCHANGED write_locks
    /\ UNCHANGED <<state, prepared, last_lsn, undo_records, tree, wal, told>>

\* Database::put, put_no_overwrite and delete.
WriteOps == {"Put", "Insert", "Delete"}

\* xa_end(TMFAIL) on an active branch, whatever its caller is doing.
XaEndFail(t) ==
    /\ t \in Xa /\ state[t] = "Open" /\ inner[t] = "Open" /\ ~prepared[t] /\ InnerFree(t)
    /\ \A c \in Callers : call[c].txn = t => call[c].op \in WriteOps \union {"Commit", "Abort"}
    /\ SetOnlyAbortable(t)
    /\ UNCHANGED <<state, prepared, last_lsn, write_locks, undo_records, tree, wal, call, told>>

-----------------------------------------------------------------------------
(* CursorImpl::put, to overwrite or to insert only, and CursorImpl::delete *)

LoggedWrites == Cardinality({i \in DOMAIN log : log[i].type = "LN" /\ log[i].txn # 0})

WritesInFlight == Cardinality({c \in Callers : call[c].op \in WriteOps /\ call[c].new = 0})

\* Database::check_open refuses on an invalid environment.  The handle's own
\* state is not looked at: the Txn refuses a lock unless it is Open, and a
\* prepared one is.  XaEnvironment::get_transaction gives out no handle of a
\* prepared branch, but a caller may have kept one (LateWrites).
StartWrite(c) ==
    /\ call[c].pc = "idle" /\ ~io_invalid
    /\ LoggedWrites + WritesInFlight < MaxWrites
    /\ \E t \in Handles[c], k \in Keys, op \in WriteOps :
       /\ LateWrites \/ state[t] # "Prepared"
       /\ call' = [call EXCEPT ![c] = [Call(op, t, "slot") EXCEPT !.key = k]]
    /\ UNCHANGED <<handle, tree, wal, told>>

\* key_exists_in_view: a known-deleted slot is no record.
KeyExists(k) == tree[k].exists

\* get_slot_before_image, not yet under the lock.  A delete finds no record
\* to delete in an absent or known-deleted slot; an insert (NoOverwrite) looks
\* first for a record that is already there.
ReadSlot(c) ==
    LET k == call[c].key IN
    /\ call[c].pc = "slot"
    /\ IF \/ call[c].op = "Delete" /\ ~KeyExists(k)
          \/ call[c].op = "Insert" /\ call[c].want = 0 /\ KeyExists(k)
       THEN Return(c)
       ELSE call' = [call EXCEPT ![c].old    = tree[k].lsn,
                                 ![c].exists = tree[k].exists,
                                 ![c].want   = LockId(k, tree[k].lsn),
                                 ![c].then   = "recheck",
                                 ![c].pc     = "lock"]
    /\ UNCHANGED <<handle, tree, wal, told>>

\* lock_slot_current_lsn: put reads the slot again under the lock, and starts
\* over with the new version when it moved.  The lock it took stays: the
\* Txn::release_lock that revert_slot_write_lock calls only lets go of read locks.
RecheckPut(c) ==
    LET k == call[c].key  slot == tree[k] IN
    /\ call[c].pc = "recheck" /\ call[c].op # "Delete"
    /\ \/ /\ LockId(k, slot.lsn) = call[c].want
          /\ call' = [call EXCEPT ![c].old = slot.lsn, ![c].exists = slot.exists,
                                  ![c].pc  = IF call[c].op = "Insert" THEN "exists"
                                             ELSE "log"]
       \/ /\ LockId(k, slot.lsn) # call[c].want
          /\ Goto(c, "slot")
    /\ UNCHANGED <<handle, tree, wal, told>>

\* Faulty variant: the look before the lock is trusted.
RecheckInsert_Stale(c) ==
    /\ call[c].pc = "exists"
    /\ Goto(c, "log")
    /\ UNCHANGED <<handle, tree, wal, told>>

\* An insert looks again under the lock, and leaves a record that has come up
\* in the meantime alone (KeyExist).
RecheckInsert(c) ==
    /\ call[c].pc = "exists"
    /\ IF KeyExists(call[c].key) THEN Return(c) ELSE Goto(c, "log")
    /\ UNCHANGED <<handle, tree, wal, told>>

\* delete gives up when the slot moved (KeyEmpty), and else also locks the key's
\* synthetic id.
RecheckDelete(c) ==
    LET k == call[c].key  slot == tree[k] IN
    /\ call[c].pc = "recheck" /\ call[c].op = "Delete"
    /\ \/ /\ slot.exists /\ slot.lsn = call[c].old
          /\ call' = [call EXCEPT ![c].want = -k, ![c].then = "log", ![c].pc = "lock"]
       \/ /\ ~(slot.exists /\ slot.lsn = call[c].old)
          /\ Return(c)
    /\ UNCHANGED <<handle, tree, wal, told>>

\* The WriteLockInfo of lock `id' if it has recorded a before-image.
Recorded(t, id) == id \in DOMAIN write_locks[t] /\ ~write_locks[t][id].never_locked

\* Faulty variant: the slot's current LSN, the transaction's own earlier write included.
AbortLsn_Current(t, old) == old

\* The before-image that log_ln_write puts in the LN: the one recorded at the
\* transaction's first write of the record, else the slot as it is now.
AbortLsn(t, old) == IF Recorded(t, old) THEN write_locks[t][old].abort_lsn ELSE old

AbortKnownDeleted(t, old, exists) ==
    /\ AbortLsn(t, old) # 0
    /\ IF Recorded(t, old) THEN write_locks[t][old].abort_known_deleted ELSE ~exists

\* log_ln_write; fails on an invalid log, with the locks kept.
LogLn(c) ==
    LET t == call[c].txn  k == call[c].key  old == call[c].old IN
    /\ call[c].pc = "log" /\ InnerFree(t)
    /\ IF io_invalid THEN Return(c) /\ UNCHANGED log
       ELSE /\ log' = Append(log, LN(t, k, call[c].op = "Delete", AbortLsn(t, old),
                                     AbortKnownDeleted(t, old, tree[k].exists)))
            /\ call' = [call EXCEPT ![c].new = Len(log) + 1, ![c].pc = "finalize"]
    /\ UNCHANGED <<handle, tree, durable, io_invalid, told>>

\* Txn::set_write_lock_abort_info for lock `id', if it is held.
AbortInfoSet(locks, id, c) ==
    IF id \in DOMAIN locks /\ locks[id].never_locked
    THEN [locks EXCEPT ![id] = [never_locked |-> FALSE, abort_lsn |-> call[c].old,
                                abort_known_deleted |-> ~call[c].exists,
                                key |-> call[c].key]]
    ELSE locks

\* Txn::move_write_lock_to_new_lsn: the before-image goes along with the lock,
\* the old LSN stays locked without one.
Moved(locks, old, new) ==
    IF old \in DOMAIN locks
    THEN [i \in DOMAIN locks \union {new} |->
             CASE i = new -> locks[old] [] i = old -> WriteLockInfo [] OTHER -> locks[i]]
    ELSE locks

\* finalize_write_lock.  Only the lock on a brand-new record's LSN goes through
\* Txn::lock, and is refused when the Txn is no longer Open.
FinalizeWriteLock(c) ==
    LET t == call[c].txn  old == call[c].old  new == call[c].new
        locks == IF old # 0 THEN Moved(write_locks[t], old, new)
                 ELSE Tracked(write_locks[t], new)
    IN
    /\ call[c].pc = "finalize" /\ InnerFree(t)
    /\ IF old = 0 /\ ~CheckState(t)
       THEN Return(c) /\ UNCHANGED <<write_locks, last_lsn>>
       ELSE /\ write_locks' = [write_locks EXCEPT ![t] = AbortInfoSet(locks, new, c)]
            /\ last_lsn' = [last_lsn EXCEPT ![t] = new]
            /\ Goto(c, "apply")
    /\ UNCHANGED <<state, inner, prepared, undo_records, tree, wal, told>>

\* apply_tree_insert, or apply_tree_delete, which keeps the slot known-deleted.
ApplyTree(c) ==
    /\ call[c].pc = "apply"
    /\ tree' = [tree EXCEPT ![call[c].key] =
                   [lsn |-> call[c].new, exists |-> call[c].op # "Delete"]]
    /\ Return(c)
    /\ UNCHANGED <<handle, wal, told>>

-----------------------------------------------------------------------------
(* Ending a transaction *)

\* Transaction::check_env.
CheckEnv == ~io_invalid

\* Transaction::check_open: Open, and the inner Txn not abort-only.
CheckOpen(t) == InnerFree(t) /\ state[t] = "Open" /\ inner[t] # "MustAbort"

HasLoggedData(t) == last_lsn[t] # 0

\* Transaction::commit_with_durability up to the frame: a transaction that
\* logged nothing writes none.
StartCommit(c) ==
    /\ call[c].pc = "idle" /\ CheckEnv
    /\ \E t \in Handles[c], policy \in Policies :
          /\ CheckOpen(t)
          /\ call' = [call EXCEPT ![c] =
                [Call("Commit", t, IF HasLoggedData(t) THEN "frame" ELSE "inner")
                    EXCEPT !.sync = policy = "Sync"]]
    /\ UNCHANGED <<handle, tree, wal, told>>

\* Transaction::abort up to the frame.  On an invalid environment it only
\* tears the handle down.
StartAbort(c) ==
    /\ call[c].pc = "idle"
    /\ \E t \in Handles[c] :
          /\ state[t] = "Open" /\ InnerFree(t)
          /\ IF ~CheckEnv
             THEN /\ ReleaseAllLocks(t)
                  /\ state' = [state EXCEPT ![t] = "Aborted"]
                  /\ UNCHANGED call
             ELSE /\ call' = [call EXCEPT ![c] =
                        Call("Abort", t, IF HasLoggedData(t) THEN "frame" ELSE "collect")]
                  /\ UNCHANGED <<state, write_locks>>
    /\ UNCHANGED <<inner, prepared, last_lsn, undo_records, tree, wal, told>>

\* Faulty variant: the prepare frame is not forced to disk.
StartPrepare_NoSync(c) ==
    /\ call[c].pc = "idle"
    /\ \E t \in Handles[c] \intersect Xa :
          /\ CheckOpen(t)
          /\ call' = [call EXCEPT ![c] =
                Call("Prepare", t, IF HasLoggedData(t) THEN "frame" ELSE "inner")]
    /\ UNCHANGED <<handle, tree, wal, told>>

\* Transaction::prepare up to the frame, which a branch that logged nothing
\* does not write.
StartPrepare(c) ==
    /\ call[c].pc = "idle"
    /\ \E t \in Handles[c] \intersect Xa :
          /\ CheckOpen(t)
          /\ call' = [call EXCEPT ![c] =
                [Call("Prepare", t, IF HasLoggedData(t) THEN "frame" ELSE "inner")
                    EXCEPT !.sync = TRUE]]
    /\ UNCHANGED <<handle, tree, wal, told>>

\* Faulty variant: the rollback of a prepared branch is not forced to disk.
StartResolve_LazyAbort(c) ==
    /\ call[c].pc = "idle"
    /\ \E t \in Handles[c] \intersect Xa, op \in {"ResolveCommit", "ResolveAbort"} :
          /\ state[t] = "Prepared"
          /\ call' = [call EXCEPT ![c] =
                [Call(op, t, "frame") EXCEPT !.sync = op = "ResolveCommit"]]
    /\ UNCHANGED <<handle, tree, wal, told>>

\* Transaction::resolved_commit_after_prepare / resolved_abort_after_prepare.
\* The frame is written even when has_logged_data is false.
StartResolve(c) ==
    /\ call[c].pc = "idle"
    /\ \E t \in Handles[c] \intersect Xa, op \in {"ResolveCommit", "ResolveAbort"} :
          /\ state[t] = "Prepared"
          /\ call' = [call EXCEPT ![c] = [Call(op, t, "frame") EXCEPT !.sync = TRUE]]
    /\ UNCHANGED <<handle, tree, wal, told>>

FrameType(op) ==
    CASE op \in {"Commit", "ResolveCommit"} -> "TxnCommit"
      [] op \in {"Abort", "ResolveAbort"}   -> "TxnAbort"
      [] op = "Prepare"                     -> "TxnPrepare"

AfterFrame(op) == IF FrameType(op) = "TxnAbort" THEN "collect" ELSE "inner"

\* Faulty variant: the error of the append is dropped.
WriteFrame_IgnoresError(c) ==
    LET op == call[c].op IN
    /\ call[c].pc = "frame"
    /\ log' = IF io_invalid THEN log
              ELSE Append(log, [type |-> FrameType(op), txn |-> call[c].txn,
                                sync |-> call[c].sync])
    /\ Goto(c, IF call[c].sync /\ ~io_invalid THEN "sync" ELSE AfterFrame(op))
    /\ UNCHANGED <<handle, tree, durable, io_invalid, told>>

\* write_txn_end / write_txn_prepare, the append; an error leaves the handle
\* as it was.
WriteFrame(c) ==
    LET op == call[c].op IN
    /\ call[c].pc = "frame"
    /\ IF io_invalid THEN Return(c) /\ UNCHANGED log
       ELSE /\ log' = Append(log, [type |-> FrameType(op), txn |-> call[c].txn,
                                   sync |-> call[c].sync])
            /\ Goto(c, IF call[c].sync THEN "sync" ELSE AfterFrame(op))
    /\ UNCHANGED <<handle, tree, durable, io_invalid, told>>

\* Faulty variant: the LSN the next entry will get is taken for the last durable one.
SyncFrame_NextLsn(c) ==
    /\ call[c].pc = "sync"
    /\ IF io_invalid THEN Return(c) /\ UNCHANGED durable
       ELSE durable' = Len(log) + 1 /\ Goto(c, AfterFrame(call[c].op))
    /\ UNCHANGED <<handle, tree, log, io_invalid, told>>

\* ... and the sync it asks for.
SyncFrame(c) ==
    /\ call[c].pc = "sync"
    /\ IF io_invalid THEN Return(c) /\ UNCHANGED durable
       ELSE durable' = Len(log) /\ Goto(c, AfterFrame(call[c].op))
    /\ UNCHANGED <<handle, tree, log, io_invalid, told>>

\* Faulty variant: an error of the inner commit returns before the outer state is set.
CommitInner_EarlyReturn(c) ==
    LET t == call[c].txn IN
    /\ call[c].pc = "inner" /\ call[c].op = "Commit" /\ InnerFree(t)
    /\ IF prepared[t] THEN UNCHANGED <<inner, write_locks>>
       ELSE /\ ReleaseAllLocks(t)
            /\ inner' = [inner EXCEPT ![t] = IF @ = "Open" THEN "Committed" ELSE @]
    /\ IF prepared[t] \/ ~CheckState(t) THEN Return(c) ELSE Goto(c, "end")
    /\ UNCHANGED <<state, prepared, last_lsn, undo_records, tree, wal, told>>

\* Txn::commit_with_durability on an inner Txn that writes no frame of its own.
\* The locks are released although it may refuse; a prepared Txn keeps them.
CommitInner(c) ==
    LET t == call[c].txn IN
    /\ call[c].pc = "inner" /\ call[c].op = "Commit" /\ InnerFree(t)
    /\ IF prepared[t] THEN UNCHANGED <<inner, write_locks>>
       ELSE /\ ReleaseAllLocks(t)
            /\ inner' = [inner EXCEPT ![t] = IF @ = "Open" THEN "Committed" ELSE @]
    /\ call' = [call EXCEPT ![c].err = prepared[t] \/ ~CheckState(t), ![c].pc = "end"]
    /\ UNCHANGED <<state, prepared, last_lsn, undo_records, tree, wal, told>>

\* Txn::resolved_commit_after_prepare.  Its error returns at once.
ResolveCommitInner(c) ==
    LET t == call[c].txn IN
    /\ call[c].pc = "inner" /\ call[c].op = "ResolveCommit" /\ InnerFree(t)
    /\ IF ~prepared[t] THEN Return(c) /\ UNCHANGED <<inner, prepared, write_locks>>
       ELSE /\ prepared' = [prepared EXCEPT ![t] = FALSE]
            /\ ReleaseAllLocks(t)
            /\ inner' = [inner EXCEPT ![t] = IF @ = "Open" THEN "Committed" ELSE @]
            /\ IF CheckState(t) THEN Goto(c, "end") ELSE Return(c)
    /\ UNCHANGED <<state, last_lsn, undo_records, tree, wal, told>>

\* Txn::prepare on an inner Txn that writes no frame of its own.
PrepareInner(c) ==
    LET t == call[c].txn IN
    /\ call[c].pc = "inner" /\ call[c].op = "Prepare" /\ InnerFree(t)
    /\ IF prepared[t] \/ ~CheckState(t) THEN Return(c) /\ UNCHANGED prepared
       ELSE prepared' = [prepared EXCEPT ![t] = TRUE] /\ Goto(c, "end")
    /\ UNCHANGED <<state, inner, last_lsn, write_locks, undo_records, tree, wal, told>>

Outcome(op) ==
    CASE FrameType(op) = "TxnCommit"  -> "Committed"
      [] FrameType(op) = "TxnAbort"   -> "Aborted"
      [] FrameType(op) = "TxnPrepare" -> "Prepared"

\* The outer state changes last, and the caller is answered.  An unsynced
\* commit promises nothing about a crash.
Finish(c) ==
    LET t == call[c].txn  outcome == Outcome(call[c].op) IN
    /\ state' = [state EXCEPT ![t] = outcome]
    /\ told'  = [told EXCEPT ![t] = IF call[c].err \/ (outcome = "Committed" /\ ~call[c].sync)
                                    THEN @ ELSE @ \union {outcome}]
    /\ Return(c)

End(c) ==
    /\ call[c].pc = "end"
    /\ Finish(c)
    /\ UNCHANGED <<inner, prepared, last_lsn, write_locks, undo_records, tree, wal>>

UndoOf(t) ==
    {[lsn |-> id, abort_lsn |-> write_locks[t][id].abort_lsn, key |-> write_locks[t][id].key,
      abort_known_deleted |-> write_locks[t][id].abort_known_deleted] :
        id \in {i \in DOMAIN write_locks[t] :
                   write_locks[t][i].abort_known_deleted \/ write_locks[t][i].abort_lsn # 0}}

\* Faulty variant: Txn::abort in place of abort_collect_undo, which releases the locks.
CollectUndo_Releases(c) ==
    LET t == call[c].txn IN
    /\ call[c].pc = "collect" /\ InnerFree(t)
    /\ prepared' = [prepared EXCEPT ![t] = @ /\ call[c].op = "Abort"]
    /\ inner' = [inner EXCEPT ![t] = IF @ = "Committed" THEN @ ELSE "Aborted"]
    /\ call' = [call EXCEPT ![c].undo = UndoOf(t), ![c].pc = "undo"]
    /\ ReleaseAllLocks(t)
    /\ UNCHANGED <<state, last_lsn, undo_records, tree, wal, told>>

\* Txn::abort_collect_undo: the locks stay.  An XA rollback first clears the
\* prepared flag.
CollectUndo(c) ==
    LET t == call[c].txn
        undo == CASE inner[t] = "Aborted"   -> undo_records[t]
                  [] inner[t] = "Committed" -> {}
                  [] OTHER                  -> UndoOf(t)
    IN
    /\ call[c].pc = "collect" /\ InnerFree(t)
    /\ prepared' = [prepared EXCEPT ![t] = @ /\ call[c].op = "Abort"]
    /\ inner' = [inner EXCEPT ![t] = IF @ = "Committed" THEN @ ELSE "Aborted"]
    /\ undo_records' = [undo_records EXCEPT ![t] =
           CASE inner[t] = "Aborted"   -> {}
             [] inner[t] = "Committed" -> @
             [] OTHER                  -> @ \union undo]
    /\ call' = [call EXCEPT ![c].undo = undo, ![c].pc = "undo"]
    /\ UNCHANGED <<state, last_lsn, write_locks, tree, wal, told>>

\* One undo record goes to the tree, newest LSN first.
ApplyUndo(c) ==
    LET undo == call[c].undo
        r == CHOOSE r \in undo : \A s \in undo : s.lsn <= r.lsn
    IN
    /\ call[c].pc = "undo" /\ undo # {}
    /\ tree' = [tree EXCEPT ![r.key] =
                   IF r.abort_known_deleted THEN [lsn |-> 0, exists |-> FALSE]
                   ELSE [lsn |-> r.abort_lsn, exists |-> TRUE]]
    /\ call' = [call EXCEPT ![c].undo = @ \ {r}]
    /\ UNCHANGED <<handle, wal, told>>

\* Only then are the locks released.
FinishAbort(c) ==
    LET t == call[c].txn IN
    /\ call[c].pc = "undo" /\ call[c].undo = {} /\ InnerFree(t)
    /\ ReleaseAllLocks(t)
    /\ Finish(c)
    /\ UNCHANGED <<inner, prepared, last_lsn, undo_records, tree, wal>>

\* LogManager::invalidate_log: a failed write or fdatasync, of anyone.
LogFails ==
    /\ Failures /\ ~io_invalid
    /\ io_invalid' = TRUE
    /\ UNCHANGED <<handle, tree, log, durable, call, told>>

Next ==
    \/ \E c \in Callers :
          \/ StartWrite(c) \/ ReadSlot(c) \/ Lock(c) \/ WaitEnds(c) \/ RecheckPut(c)
          \/ RecheckInsert(c) \/ RecheckDelete(c) \/ LogLn(c) \/ FinalizeWriteLock(c) \/ ApplyTree(c)
          \/ StartCommit(c) \/ StartAbort(c) \/ StartPrepare(c) \/ StartResolve(c)
          \/ WriteFrame(c) \/ SyncFrame(c)
          \/ CommitInner(c) \/ ResolveCommitInner(c) \/ PrepareInner(c) \/ End(c)
          \/ CollectUndo(c) \/ ApplyUndo(c) \/ FinishAbort(c)
    \/ \E t \in Txns : XaEndFail(t)
    \/ LogFails

Spec == Init /\ [][Next]_vars

-----------------------------------------------------------------------------
(* What recovery makes of the log up to LSN d *)

Frames(t, type, d) == {i \in 1..d : log[i].type = type /\ log[i].txn = t}

\* AnalysisResult::is_committed and is_prepared after the analysis pass: an end
\* frame resolves a prepare frame before it.
IsCommitted(t, d) == t = 0 \/ Frames(t, "TxnCommit", d) # {}

IsPrepared(t, d) ==
    \E i \in Frames(t, "TxnPrepare", d) :
        \A j \in Frames(t, "TxnCommit", d) \union Frames(t, "TxnAbort", d) : j < i

\* The last committed LN of record k, and the version it leaves once every LN
\* that is not committed has been undone.
LastCommitted(k, d) ==
    Max({0} \union {i \in 1..d : log[i].type = "LN" /\ log[i].key = k
                                   /\ IsCommitted(log[i].txn, d)})

Version(k, d) ==
    LET i == LastCommitted(k, d) IN IF i = 0 \/ log[i].deleted THEN 0 ELSE i

\* The prefixes of the log a crash may leave: all of the synced part.  Losing
\* a commit that asked for no sync is allowed, and not looked at.
Survivors ==
    {d \in durable .. Len(log) :
        \A i \in d + 1 .. Len(log) : log[i].type = "TxnCommit" => log[i].sync}

-----------------------------------------------------------------------------
(* Properties *)

TypeOK ==
    /\ state \in [Txns -> {"Open", "Prepared", "Committed", "Aborted"}]
    /\ inner \in [Txns -> {"Open", "MustAbort", "Committed", "Aborted"}]
    /\ prepared \in [Txns -> BOOLEAN] /\ io_invalid \in BOOLEAN
    /\ durable \in 1 .. Len(log)
    /\ \A t \in Txns : /\ last_lsn[t] \in 0 .. Len(log)
                       /\ \A id \in DOMAIN write_locks[t] :
                             id \in 1 .. Len(log) \/ -id \in Keys
    /\ \A k \in Keys : tree[k].lsn \in 0 .. Len(log)

\* The locks under which a reader of key k would find another's change: that of
\* the slot's version, and the synthetic one it contests when there is no slot
\* or the slot is deleted.
Readable(k) ==
    \A t \in Txns : DOMAIN write_locks[t] \intersect
        ({LockId(k, tree[k].lsn)} \union IF tree[k].exists THEN {} ELSE {-k}) = {}

\* A record that no transaction holds shows exactly the version recovery would
\* rebuild after a crash at that moment: no reader acts on a value that a crash
\* takes back, or misses one that it brings back (the order frame, sync, undo,
\* release in Transaction::commit_with_durability and abort).
UnlockedIsRecoverable ==
    io_invalid \/
    \A k \in Keys : Readable(k) =>
        \A d \in Survivors : Version(k, d) = IF tree[k].exists THEN tree[k].lsn ELSE 0

\* A transaction whose synced commit returned Ok is committed after any crash,
\* with every LN it logged (Transaction::commit_with_durability).
CommittedSurvives ==
    \A t \in Txns : "Committed" \in told[t] =>
        \A d \in durable .. Len(log) :
            \A i \in 1 .. Len(log) : log[i].type = "LN" /\ log[i].txn = t
                => i <= d /\ IsCommitted(t, d)

\* A transaction whose abort returned Ok is never found committed by recovery,
\* nor, if its prepare had returned Ok, in-doubt (Transaction::abort,
\* resolved_abort_after_prepare).
AbortedStaysAborted ==
    \A t \in Txns : "Aborted" \in told[t] =>
        \A d \in durable .. Len(log) :
            /\ ~IsCommitted(t, d)
            /\ "Prepared" \in told[t] => ~IsPrepared(t, d)

\* Recovery never rolls a prepared branch back by itself: as long as no
\* resolution has begun its prepare frame survives with every LN logged before
\* it (Transaction::prepare).
PreparedIsKept ==
    \A t \in Txns : "Prepared" \in told[t] /\ Frames(t, "TxnPrepare", Len(log)) # {} =>
        \A d \in durable .. Len(log) :
            IsPrepared(t, d) \/ Frames(t, "TxnCommit", d) \union Frames(t, "TxnAbort", d) # {}

\* The log never gives a transaction two outcomes or the same one twice
\* (the comment in commit_with_durability on a second TxnCommit record).
OneOutcome ==
    \A t \in Txns : Cardinality(Frames(t, "TxnCommit", Len(log))
                                  \union Frames(t, "TxnAbort", Len(log))) <= 1

\* From its second look for the record to its update of the tree, an insert
\* (NoOverwrite) meets no live record of its key, whoever else writes, aborts or
\* undoes in between: it never replaces one (CursorImpl::put, PutMode::NoOverwrite).
InsertReplacesNothing ==
    \A c \in Callers :
        call[c].op = "Insert" /\ call[c].pc \in {"log", "finalize", "apply"}
            => ~KeyExists(call[c].key)

\* An LN that recovery may have to undo, that of a transaction without an outcome
\* and with no later committed write of its record, carries the before-image that
\* undoing it must restore: the record's committed version (log_ln_write's abort
\* LSN and abort-known-deleted flag).
BeforeImageIsCommitted ==
    \A i \in DOMAIN log :
        LET ln == log[i] IN
        /\ ln.type = "LN" /\ LastCommitted(ln.key, Len(log)) < i
        /\ ~IsCommitted(ln.txn, Len(log)) /\ Frames(ln.txn, "TxnAbort", Len(log)) = {}
        => Version(ln.key, Len(log)) = IF ln.abort_known_deleted THEN 0 ELSE ln.abort_lsn
=============================================================================
