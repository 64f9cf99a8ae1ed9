---------------------------- MODULE FsyncManager ----------------------------
(***************************************************************************)
(* noxu-log's commit path: the append under the log write latch (LWL), the *)
(* drain of the log buffers to the page cache, the fdatasync, the durable  *)
(* watermark, and FsyncManager, which lets one fdatasync serve many        *)
(* committers: leaders, cohorts of waiters (FSyncGroup), the hand-off of   *)
(* the leadership, the timeout and the fail-stop after an I/O error.       *)
(*                                                                         *)
(* One action is one critical section: the LWL, the manager's state mutex, *)
(* a group's inner mutex, or one atomic access outside of them.  An LSN    *)
(* counts log entries from 1; every entry occupies one place of its file.  *)
(* Time is left out: a timed wait may end whenever the code could find     *)
(* that its time is over.                                                  *)
(***************************************************************************)
EXTENDS Integers, Sequences, FiniteSets

CONSTANTS
  Committer,         \* threads that append and commit
  MaxLsn,            \* bound: how many entries are ever appended
  FileSize,          \* entries per log file
  Placements,        \* how appends place their entry; see Log
  Modes,             \* what callers ask for after the append; see Log
  MaxLeaders,        \* max_leaders
  AdaptiveLeaders,   \* adaptive_leaders
  BatchTrigger,      \* batch_trigger
  GrpcThreshold,     \* grpc_threshold; 0 turns the group-commit wait off
  Timeouts,          \* TRUE: a wait of fsync_timeout can expire
  Failures,          \* TRUE: pwrite and fdatasync may fail
  DropsPages         \* TRUE: a failed fdatasync loses the dirty pages

ASSUME CommitterAssumption == IsFiniteSet(Committer) /\ 0 \notin Committer
ASSUME SizeAssumption ==
  /\ MaxLsn \in Nat
  /\ FileSize \in Nat \ {0}
  /\ MaxLeaders \in Nat \ {0}
  /\ AdaptiveLeaders \in Nat \ {0}
  /\ BatchTrigger \in Nat
  /\ GrpcThreshold \in Nat
ASSUME SwitchAssumption ==
  /\ Placements \subseteq {"buffered", "bumped", "oversized"}
  /\ Modes \subseteq {"commit", "flush", "nosync"}
  /\ Timeouts \in BOOLEAN
  /\ Failures \in BOOLEAN
  /\ DropsPages \in BOOLEAN

VARIABLES
  next_available_lsn,  \* the LSN the next append gets
  flushed_len,         \* entries below it were collected by some drain
  page_cache,          \* the LSNs whose bytes were pwritten
  durable,             \* the LSNs a power failure cannot take away
  lwl,                 \* who drains under the log write latch; 0: nobody
  last_synced_lsn,     \* the durable watermark
  io_invalid,          \* the log is permanently invalid
  groups,              \* every FSyncGroup made so far
  leaders_in_flight,
  num_next_waiters,
  pc,                  \* where each committer's thread is
  lsn,                 \* the entry its call is about
  target_lsn,          \* what it tells flush_and_sync; 0: no requirement
  my_group,            \* the group it waits in, as an index of groups; 0: none
  in_progress_group,   \* the group it leads; 0: none
  result,              \* do_work's result: the eol, or -1 for an error
  batch,               \* the LSNs its pwrite or fdatasync is about
  acked                \* the LSNs whose commit or flush returned Ok

log_vars == <<next_available_lsn, flushed_len, page_cache, durable, lwl>>
manager == <<leaders_in_flight, num_next_waiters>>
own == <<lsn, target_lsn, my_group, in_progress_group>>
vars == <<log_vars, last_synced_lsn, io_invalid, groups, manager, pc, own,
          result, batch, acked>>

Failed == -1

FSyncGroup ==
  [work_done_atomic : BOOLEAN, work_done : BOOLEAN, leader_exists : BOOLEAN,
   leader_notified : BOOLEAN, error : BOOLEAN, result_lsn : 0 .. MaxLsn + 1]

NewGroup ==
  [work_done_atomic |-> FALSE, work_done |-> FALSE, leader_exists |-> FALSE,
   leader_notified |-> FALSE, error |-> FALSE, result_lsn |-> 0]

\* Every new group replaces next_fsync_waiters, so that is the newest one.
next_fsync_waiters == Len(groups)

\* wait_for_event, the waiter's side of a group
WaitPcs == {"arrive", "parked", "notified"}
\* a waiter that has its WaitStatus and acts on it
StatusPcs == {"no_fsync_needed", "result", "do_leader_fsync", "do_timeout_fsync"}
WorkPcs == {"drain", "pwrite", "sync", "fdatasync", "wakeup_all", "wakeup_inner",
            "release_slot", "return"}
Pcs == {"idle", "logged", "nosync", "nosync_pwrite", "enter", "lead",
        "grpc_wait"} \cup WaitPcs \cup StatusPcs \cup WorkPcs

LogTypeOK ==
  /\ next_available_lsn \in 1 .. MaxLsn + 1
  /\ flushed_len \in 1 .. MaxLsn + 1
  /\ page_cache \in SUBSET (1 .. MaxLsn)
  /\ durable \in SUBSET (1 .. MaxLsn)
  /\ lwl \in Committer \cup {0}
  /\ last_synced_lsn \in 0 .. MaxLsn + 1
  /\ io_invalid \in BOOLEAN
  /\ acked \in SUBSET (1 .. MaxLsn)

ManagerTypeOK ==
  /\ groups \in Seq(FSyncGroup)
  /\ leaders_in_flight \in Int
  /\ num_next_waiters \in Nat

ThreadTypeOK ==
  /\ pc \in [Committer -> Pcs]
  /\ lsn \in [Committer -> 0 .. MaxLsn]
  /\ target_lsn \in [Committer -> 0 .. MaxLsn]
  /\ my_group \in [Committer -> Nat]
  /\ in_progress_group \in [Committer -> Nat]
  /\ result \in [Committer -> -1 .. MaxLsn + 1]
  /\ batch \in [Committer -> SUBSET (1 .. MaxLsn)]

TypeOK == LogTypeOK /\ ManagerTypeOK /\ ThreadTypeOK

Init ==
  /\ next_available_lsn = 1
  /\ flushed_len = 1
  /\ page_cache = {}
  /\ durable = {}
  /\ lwl = 0
  /\ last_synced_lsn = 0
  /\ io_invalid = FALSE
  /\ groups = <<NewGroup>>
  /\ leaders_in_flight = 0
  /\ num_next_waiters = 0
  /\ pc = [c \in Committer |-> "idle"]
  /\ lsn = [c \in Committer |-> 0]
  /\ target_lsn = [c \in Committer |-> 0]
  /\ my_group = [c \in Committer |-> 0]
  /\ in_progress_group = [c \in Committer |-> 0]
  /\ result = [c \in Committer |-> 0]
  /\ batch = [c \in Committer |-> {}]
  /\ acked = {}

Max2(a, b) == IF a >= b THEN a ELSE b

GoTo(c, p) == pc' = [pc EXCEPT ![c] = p]

\* The locals of a call that is over.
Forget(c) ==
  /\ lsn' = [lsn EXCEPT ![c] = 0]
  /\ target_lsn' = [target_lsn EXCEPT ![c] = 0]
  /\ my_group' = [my_group EXCEPT ![c] = 0]
  /\ result' = [result EXCEPT ![c] = 0]

-----------------------------------------------------------------------------
(* The log: files, buffers, page cache, disk.                              *)

FileOf(x) == (x - 1) \div FileSize

\* The file current_file_num names: that of the last entry appended.
CurrentFile == IF next_available_lsn = 1 THEN 0 ELSE FileOf(next_available_lsn - 1)

\* The entry does not fit in the current file.
Flips == next_available_lsn > 1 /\ FileOf(next_available_lsn) # CurrentFile

\* What a drain collects: everything appended and not collected before.
Unflushed == flushed_len .. next_available_lsn - 1

\* The dirty pages an fdatasync of the current file writes.
DirtyIn(cache) == {x \in cache : FileOf(x) = CurrentFile}

\* get_write_buffer drains the dirty buffers first when the file flips, when
\* no buffer is free, and before a direct write of an oversized entry.
DrainsFirst(p) == Flips \/ p # "buffered"

-----------------------------------------------------------------------------
(* LogManager::log_internal: the append, and the call that follows it.     *)

\* Where the thread goes after the append.  A commit (fsync_required) and a
\* flush_no_sync caller know their LSN; a caller of flush_sync (checkpointer,
\* log flusher, environment sync) has no LSN to compare with the watermark.
Call(c, mode) ==
  /\ lsn' = [lsn EXCEPT ![c] = next_available_lsn]
  /\ target_lsn' = [target_lsn EXCEPT
                      ![c] = IF mode = "commit" THEN next_available_lsn ELSE 0]
  /\ GoTo(c, CASE mode = "commit" -> "logged"
               [] mode = "flush"  -> "enter"
               [] mode = "nosync" -> "nosync")

\* Faulty: the old file is drained but not synced before the log moves on.
Log_NoRotationSync(c, mode, p) ==
  LET drained == IF DrainsFirst(p) THEN page_cache \cup Unflushed ELSE page_cache IN
  /\ pc[c] = "idle"
  /\ lwl = 0
  /\ ~io_invalid
  /\ next_available_lsn <= MaxLsn
  /\ next_available_lsn' = next_available_lsn + 1
  /\ flushed_len' = IF DrainsFirst(p) THEN next_available_lsn ELSE flushed_len
  /\ page_cache' = drained
  /\ Call(c, mode)
  /\ UNCHANGED <<durable, lwl, last_synced_lsn, io_invalid, groups, manager,
                 my_group, in_progress_group, result, batch, acked>>

\* assign_slot and the copy of the entry, all under the LWL.  On a flip the old
\* file is drained and synced before the position moves to the new file.
Log(c, mode, p) ==
  LET drained == IF DrainsFirst(p) THEN page_cache \cup Unflushed ELSE page_cache
      direct  == IF p = "oversized" THEN {next_available_lsn} ELSE {}
  IN
  /\ pc[c] = "idle"
  /\ lwl = 0
  /\ ~io_invalid
  /\ next_available_lsn <= MaxLsn
  /\ next_available_lsn' = next_available_lsn + 1
  /\ flushed_len' = CASE p = "oversized"  -> next_available_lsn + 1
                      [] DrainsFirst(p) /\ p # "oversized" -> next_available_lsn
                      [] OTHER            -> flushed_len
  /\ page_cache' = drained \cup direct
  /\ durable' = IF Flips THEN durable \cup DirtyIn(drained) ELSE durable
  /\ Call(c, mode)
  /\ UNCHANGED <<lwl, last_synced_lsn, io_invalid, groups, manager, my_group,
                 in_progress_group, result, batch, acked>>

\* The drain or the rotation of an append fails: invalid under the LWL.  The
\* collected buffers stay marked; the append returns the error.
LogFails(c, p) ==
  /\ Failures
  /\ pc[c] = "idle"
  /\ lwl = 0
  /\ ~io_invalid
  /\ next_available_lsn <= MaxLsn
  /\ DrainsFirst(p)
  /\ flushed_len' = next_available_lsn
  /\ io_invalid' = TRUE
  /\ UNCHANGED <<next_available_lsn, page_cache, durable, lwl, last_synced_lsn,
                 groups, manager, pc, own, result, batch, acked>>

\* The direct write of an oversized entry fails after its LSN was assigned.
DirectWriteFails(c) ==
  /\ Failures
  /\ "oversized" \in Placements
  /\ pc[c] = "idle"
  /\ lwl = 0
  /\ ~io_invalid
  /\ next_available_lsn <= MaxLsn
  /\ next_available_lsn' = next_available_lsn + 1
  /\ flushed_len' = next_available_lsn + 1
  /\ page_cache' = page_cache \cup Unflushed
  /\ durable' = IF Flips THEN durable \cup DirtyIn(page_cache \cup Unflushed) ELSE durable
  /\ io_invalid' = TRUE
  /\ UNCHANGED <<lwl, last_synced_lsn, groups, manager, pc, own, result, batch,
                 acked>>

-----------------------------------------------------------------------------
(* Draining under the LWL: fill_flush_pending marks the buffers flushed and *)
(* copies them, then the pwrites run, then the LWL is released.             *)

fill_flush_pending(c) ==
  /\ lwl = 0
  /\ lwl' = c
  /\ batch' = [batch EXCEPT ![c] = Unflushed]
  /\ flushed_len' = next_available_lsn

Pwritten(c) ==
  /\ page_cache' = page_cache \cup batch[c]
  /\ batch' = [batch EXCEPT ![c] = {}]
  /\ lwl' = 0

\* A failed pwrite: nothing of it need have reached the page cache.
PwriteFailed(c) ==
  /\ Failures
  /\ io_invalid' = TRUE
  /\ batch' = [batch EXCEPT ![c] = {}]
  /\ lwl' = 0
  /\ UNCHANGED page_cache

\* flush_no_sync: the drain without an fdatasync (NO_SYNC commits, the log
\* flusher).  Its answer promises nothing about durability.
flush_no_sync(c) ==
  /\ pc[c] = "nosync"
  /\ \/ /\ io_invalid
        /\ lwl = 0
        /\ GoTo(c, "idle")
        /\ Forget(c)
        /\ UNCHANGED <<flushed_len, lwl, batch>>
     \/ /\ ~io_invalid
        /\ fill_flush_pending(c)
        /\ GoTo(c, "nosync_pwrite")
        /\ UNCHANGED <<lsn, target_lsn, my_group, result>>
  /\ UNCHANGED <<next_available_lsn, page_cache, durable, last_synced_lsn,
                 io_invalid, groups, manager, in_progress_group, acked>>

NoSyncPwrite(c) ==
  /\ pc[c] = "nosync_pwrite"
  /\ \/ Pwritten(c) /\ UNCHANGED io_invalid
     \/ PwriteFailed(c)
  /\ GoTo(c, "idle")
  /\ Forget(c)
  /\ UNCHANGED <<next_available_lsn, flushed_len, durable, last_synced_lsn,
                 groups, manager, in_progress_group, acked>>

-----------------------------------------------------------------------------
(* LogManager::flush_sync_if_needed and flush_sync_to.                     *)

Acknowledge(c) == acked' = acked \cup {lsn[c]}

\* Faulty: >= where > is needed.
flush_sync_if_needed_OrEqual(c) ==
  /\ pc[c] = "logged"
  /\ ~io_invalid
  /\ IF last_synced_lsn >= target_lsn[c]
     THEN /\ Acknowledge(c)
          /\ GoTo(c, "idle")
          /\ Forget(c)
     ELSE /\ GoTo(c, "enter")
          /\ UNCHANGED <<acked, lsn, target_lsn, my_group, result>>
  /\ UNCHANGED <<log_vars, last_synced_lsn, io_invalid, groups, manager,
                 in_progress_group, batch>>

\* The fast path: a completed fdatasync covers the commit.  Strictly above: the
\* watermark is the next LSN at the time of the drain.
flush_sync_if_needed(c) ==
  /\ pc[c] = "logged"
  /\ \/ /\ io_invalid
        /\ GoTo(c, "idle")
        /\ Forget(c)
        /\ UNCHANGED acked
     \/ /\ ~io_invalid
        /\ last_synced_lsn > target_lsn[c]
        /\ Acknowledge(c)
        /\ GoTo(c, "idle")
        /\ Forget(c)
     \/ /\ ~io_invalid
        /\ ~(last_synced_lsn > target_lsn[c])
        /\ GoTo(c, "enter")
        /\ UNCHANGED <<acked, lsn, target_lsn, my_group, result>>
  /\ UNCHANGED <<log_vars, last_synced_lsn, io_invalid, groups, manager,
                 in_progress_group, batch>>

advance_watermark_max(value) == last_synced_lsn' = Max2(last_synced_lsn, value)

\* flush_and_sync returned Ok(eol): publish the watermark and acknowledge.
ReturnOk(c, eol) ==
  /\ advance_watermark_max(eol)
  /\ Acknowledge(c)
  /\ GoTo(c, "idle")
  /\ Forget(c)
  /\ UNCHANGED io_invalid

\* It returned Err: invalidate, and the commit fails.
ReturnErr(c) ==
  /\ io_invalid' = TRUE
  /\ GoTo(c, "idle")
  /\ Forget(c)
  /\ UNCHANGED <<last_synced_lsn, acked>>

-----------------------------------------------------------------------------
(* FsyncManager::flush_and_sync, phase 1: lead or wait.                    *)

effective_ceiling ==
  IF AdaptiveLeaders > MaxLeaders /\ num_next_waiters < BatchTrigger
  THEN AdaptiveLeaders ELSE MaxLeaders

SlotFree == leaders_in_flight < effective_ceiling

\* The leader's cohort is g; newcomers join a fresh group.
Capture(c, g) ==
  /\ in_progress_group' = [in_progress_group EXCEPT ![c] = g]
  /\ my_group' = [my_group EXCEPT ![c] = 0]
  /\ groups' = Append(groups, NewGroup)
  /\ num_next_waiters' = 0
  /\ GoTo(c, "drain")

\* grpc_wait may release the state mutex and wait for more committers.
MayGrpcWait == GrpcThreshold > 0 /\ num_next_waiters \in 1 .. GrpcThreshold - 1

\* Take a leader slot; g is the group to capture.
TakeSlot(c, g) ==
  /\ leaders_in_flight' = leaders_in_flight + 1
  /\ \/ Capture(c, g)
     \/ /\ MayGrpcWait
        /\ GoTo(c, "grpc_wait")
        /\ UNCHANGED <<groups, num_next_waiters, my_group, in_progress_group>>

JoinWaiters(c) ==
  /\ my_group' = [my_group EXCEPT ![c] = next_fsync_waiters]
  /\ num_next_waiters' = num_next_waiters + 1
  /\ GoTo(c, "arrive")
  /\ UNCHANGED <<leaders_in_flight, groups, in_progress_group>>

flush_and_sync(c) ==
  /\ pc[c] = "enter"
  /\ IF SlotFree THEN TakeSlot(c, next_fsync_waiters) ELSE JoinWaiters(c)
  /\ UNCHANGED <<log_vars, last_synced_lsn, io_invalid, lsn, target_lsn, result,
                 batch, acked>>

\* The wait ends: notified, or the interval is over.  A thread that came from a
\* group leads that group, any other one captures the group of the moment.
grpc_wait(c) ==
  /\ pc[c] = "grpc_wait"
  /\ Capture(c, IF my_group[c] # 0 THEN my_group[c] ELSE next_fsync_waiters)
  /\ UNCHANGED <<log_vars, last_synced_lsn, io_invalid, leaders_in_flight, lsn,
                 target_lsn, result, batch, acked>>

-----------------------------------------------------------------------------
(* FSyncGroup: wait_for_event and the wakeups.                             *)

SetGroup(g, to) == groups' = [groups EXCEPT ![g] = to]

UnchangedLog == UNCHANGED <<log_vars, last_synced_lsn, io_invalid>>

\* A waiter leaves wait_for_event towards p.
Status(c, p) ==
  /\ GoTo(c, p)
  /\ UNCHANGED groups

\* It is the designated leader of its group from here on.
Designated(c) ==
  /\ SetGroup(my_group[c], [groups[my_group[c]] EXCEPT !.leader_exists = TRUE,
                                                      !.leader_notified = FALSE])
  /\ GoTo(c, "do_leader_fsync")

\* The lock-free fast path, on work_done_atomic.
WaitFastPath(c) ==
  /\ pc[c] = "arrive"
  /\ groups[my_group[c]].work_done_atomic
  /\ Status(c, "no_fsync_needed")
  /\ UnchangedLog
  /\ UNCHANGED <<manager, own, result, batch, acked>>

\* Under inner.  The atomic was read before inner was locked, when it can still
\* have been false, so its present value does not matter.
WaitArrives(c) ==
  LET g == groups[my_group[c]] IN
  /\ pc[c] = "arrive"
  /\ \/ g.work_done /\ Status(c, "no_fsync_needed")
     \/ ~g.work_done /\ ~g.leader_exists /\ g.leader_notified /\ Designated(c)
     \/ ~g.work_done /\ (g.leader_exists \/ ~g.leader_notified) /\ Status(c, "parked")
  /\ UnchangedLog
  /\ UNCHANGED <<manager, own, result, batch, acked>>

\* The condition variable's wait_for returned: notified, or timed out.
WaitReturns(c) ==
  LET g == groups[my_group[c]] IN
  /\ \/ pc[c] = "notified"
     \/ pc[c] = "parked" /\ Timeouts
  /\ \/ g.work_done /\ Status(c, "no_fsync_needed")
     \/ ~g.work_done /\ ~g.leader_exists /\ Designated(c)
     \/ /\ ~g.work_done /\ g.leader_exists
        /\ \/ pc[c] = "notified" /\ Status(c, "parked")
           \/ Timeouts /\ Status(c, "do_timeout_fsync")
  /\ UnchangedLog
  /\ UNCHANGED <<manager, own, result, batch, acked>>

ParkedIn(g) == {c \in Committer : pc[c] = "parked" /\ my_group[c] = g}

\* Notified threads leave the condition variable.  notify_one wakes one parked
\* thread, and with it the ones that have yet to reach the futex.
Notify(c, p, woken) ==
  pc' = [d \in Committer |-> IF d = c THEN p
                             ELSE IF d \in woken THEN "notified" ELSE pc[d]]

notify_one(c, p, g) ==
  \E woken \in SUBSET ParkedIn(g) :
    /\ (woken = {}) => (ParkedIn(g) = {})
    /\ Notify(c, p, woken)

\* wakeup_all and wakeup_all_with_error store work_done_atomic first ...
wakeup_all(c) ==
  /\ pc[c] = "wakeup_all"
  /\ SetGroup(in_progress_group[c],
              [groups[in_progress_group[c]] EXCEPT !.work_done_atomic = TRUE])
  /\ GoTo(c, "wakeup_inner")
  /\ UnchangedLog
  /\ UNCHANGED <<manager, own, result, batch, acked>>

\* Faulty: the error code is recorded as the result.
WakeupInner_RecordsError(c) ==
  LET g == in_progress_group[c] IN
  /\ pc[c] = "wakeup_inner"
  /\ SetGroup(g, [groups[g] EXCEPT !.work_done = TRUE, !.result_lsn = result[c]])
  /\ Notify(c, "release_slot", ParkedIn(g))
  /\ UnchangedLog
  /\ UNCHANGED <<manager, own, result, batch, acked>>

\* ... and then record the outcome under inner and notify every waiter.
WakeupInner(c) ==
  LET g == in_progress_group[c] IN
  /\ pc[c] = "wakeup_inner"
  /\ SetGroup(g, [groups[g] EXCEPT
                     !.work_done = TRUE,
                     !.error = (result[c] = Failed),
                     !.result_lsn = IF result[c] = Failed THEN @ ELSE result[c]])
  /\ Notify(c, "release_slot", ParkedIn(g))
  /\ UnchangedLog
  /\ UNCHANGED <<manager, own, result, batch, acked>>


\* Under state: wakeup_one designates a leader of the next cohort, and the
\* leader slot is given back.
ReleaseSlot(c) ==
  LET g == next_fsync_waiters IN
  /\ pc[c] = "release_slot"
  /\ SetGroup(g, [groups[g] EXCEPT
                     !.leader_notified = @ \/ ~groups[g].leader_exists])
  /\ notify_one(c, "return", g)
  /\ leaders_in_flight' = leaders_in_flight - 1
  /\ in_progress_group' = [in_progress_group EXCEPT ![c] = 0]
  /\ UnchangedLog
  /\ UNCHANGED <<num_next_waiters, lsn, target_lsn, my_group, result, batch,
                 acked>>

-----------------------------------------------------------------------------
(* Phase 2: what a waiter does with its WaitStatus.                        *)

\* NoFsyncNeeded: take_error, under inner ...
TakeError(c) ==
  /\ pc[c] = "no_fsync_needed"
  /\ IF groups[my_group[c]].error
     THEN ReturnErr(c)
     ELSE /\ GoTo(c, "result")
          /\ UNCHANGED <<io_invalid, last_synced_lsn, acked, lsn, target_lsn,
                         my_group, result>>
  /\ UNCHANGED <<log_vars, groups, manager, in_progress_group, batch>>

\* ... and result_lsn, under inner again: the piggybacking commit is done.
Piggyback(c) ==
  /\ pc[c] = "result"
  /\ ReturnOk(c, groups[my_group[c]].result_lsn)
  /\ UNCHANGED <<log_vars, groups, manager, in_progress_group, batch>>

Covered(c) == target_lsn[c] # 0 /\ last_synced_lsn > target_lsn[c]

\* A waiter told to fsync whose LSN the watermark covers meanwhile: it hands the
\* leadership of its group on and returns.
handoff_leader(c) ==
  LET g == my_group[c] IN
  /\ pc[c] \in {"do_leader_fsync", "do_timeout_fsync"}
  /\ Covered(c)
  /\ \/ /\ groups[g].work_done
        /\ GoTo(c, "idle")
        /\ UNCHANGED groups
     \/ /\ ~groups[g].work_done
        /\ SetGroup(g, [groups[g] EXCEPT !.leader_exists = FALSE,
                                          !.leader_notified = TRUE])
        /\ notify_one(c, "idle", g)
  /\ advance_watermark_max(last_synced_lsn)
  /\ Acknowledge(c)
  /\ Forget(c)
  /\ UNCHANGED <<log_vars, io_invalid, manager, in_progress_group, batch>>

\* Not covered: the designated leader goes for a slot, the timed-out waiter does
\* its own fsync.
NotCovered(c) ==
  /\ ~Covered(c)
  /\ \/ /\ pc[c] = "do_leader_fsync"
        /\ GoTo(c, "lead")
        /\ UNCHANGED my_group
     \/ /\ pc[c] = "do_timeout_fsync"
        /\ GoTo(c, "drain")
        /\ my_group' = [my_group EXCEPT ![c] = 0]
  /\ UnchangedLog
  /\ UNCHANGED <<groups, manager, lsn, target_lsn, in_progress_group, result,
                 batch, acked>>

\* Under state: lead the own group, or fsync privately when no slot is free.
DoLeaderFsync(c) ==
  /\ pc[c] = "lead"
  /\ \/ SlotFree /\ TakeSlot(c, my_group[c])
     \/ /\ ~SlotFree
        /\ GoTo(c, "drain")
        /\ my_group' = [my_group EXCEPT ![c] = 0]
        /\ UNCHANGED <<groups, manager, in_progress_group>>
  /\ UnchangedLog
  /\ UNCHANGED <<lsn, target_lsn, result, batch, acked>>

-----------------------------------------------------------------------------
(* Phase 3: do_work, that is leader_work of flush_sync_to.                 *)

\* Faulty: an error returns at once, slot and cohort forgotten.
WorkDone_ErrorReturns(c, r) ==
  /\ result' = [result EXCEPT ![c] = r]
  /\ GoTo(c, IF in_progress_group[c] # 0 /\ r # Failed THEN "wakeup_all" ELSE "return")

\* do_work returned: a leader wakes its cohort, anyone else is done.
WorkDone(c, r) ==
  /\ result' = [result EXCEPT ![c] = r]
  /\ GoTo(c, IF in_progress_group[c] # 0 THEN "wakeup_all" ELSE "return")

\* Faulty: no admission gate, a drain goes on after a failed one.
Drain_NoGate(c) ==
  /\ pc[c] = "drain"
  /\ fill_flush_pending(c)
  /\ GoTo(c, "pwrite")
  /\ UNCHANGED <<next_available_lsn, page_cache, durable, last_synced_lsn,
                 io_invalid, groups, manager, own, result, acked>>

\* Phase A under the LWL, behind the admission gate.
Drain(c) ==
  /\ pc[c] = "drain"
  /\ \/ /\ io_invalid
        /\ lwl = 0
        /\ WorkDone(c, Failed)
        /\ UNCHANGED <<flushed_len, lwl, batch>>
     \/ /\ ~io_invalid
        /\ fill_flush_pending(c)
        /\ GoTo(c, "pwrite")
        /\ UNCHANGED result
  /\ UNCHANGED <<next_available_lsn, page_cache, durable, last_synced_lsn,
                 io_invalid, groups, manager, own, acked>>

\* The pwrites, then the eol, then the LWL is released.
Pwrite(c) ==
  /\ pc[c] = "pwrite"
  /\ \/ /\ Pwritten(c)
        /\ result' = [result EXCEPT ![c] = next_available_lsn]
        /\ GoTo(c, "sync")
        /\ UNCHANGED io_invalid
     \/ /\ PwriteFailed(c)
        /\ WorkDone(c, Failed)
  /\ UNCHANGED <<next_available_lsn, flushed_len, durable, last_synced_lsn,
                 groups, manager, own, acked>>

\* Phase B off the LWL: sync_log_end picks the current file and calls fdatasync.
\* Certain to be written are the pages dirty when the call starts.
sync_log_end(c) ==
  /\ pc[c] = "sync"
  /\ batch' = [batch EXCEPT ![c] = DirtyIn(page_cache)]
  /\ GoTo(c, "fdatasync")
  /\ UnchangedLog
  /\ UNCHANGED <<groups, manager, own, result, acked>>

\* The fdatasync returns.  After an error Linux may have marked the dirty pages
\* clean: then no later or concurrent fdatasync writes them any more.
Fdatasync(c) ==
  /\ pc[c] = "fdatasync"
  /\ \/ /\ durable' = durable \cup batch[c]
        /\ batch' = [batch EXCEPT ![c] = {}]
        /\ WorkDone(c, result[c])
        /\ UNCHANGED <<page_cache, io_invalid>>
     \/ /\ Failures
        /\ io_invalid' = TRUE
        /\ LET lost == IF DropsPages THEN batch[c] \ durable ELSE {} IN
             /\ page_cache' = page_cache \ lost
             /\ batch' = [d \in Committer |->
                            IF d = c THEN {}
                            ELSE IF pc[d] = "fdatasync" THEN batch[d] \ lost
                            ELSE batch[d]]
        /\ WorkDone(c, Failed)
        /\ UNCHANGED durable
  /\ UNCHANGED <<next_available_lsn, flushed_len, lwl, last_synced_lsn, groups,
                 manager, own, acked>>

\* flush_and_sync hands do_work's result to flush_sync_to.
Return(c) ==
  /\ pc[c] = "return"
  /\ IF result[c] = Failed THEN ReturnErr(c) ELSE ReturnOk(c, result[c])
  /\ UNCHANGED <<log_vars, groups, manager, in_progress_group, batch>>

-----------------------------------------------------------------------------
Begin(c) ==
  \/ \E mode \in Modes, p \in Placements : Log(c, mode, p)
  \/ \E p \in Placements : LogFails(c, p)
  \/ DirectWriteFails(c)

\* A thread inside its call.
Step(c) ==
  \/ flush_no_sync(c) \/ NoSyncPwrite(c)
  \/ flush_sync_if_needed(c)
  \/ flush_and_sync(c) \/ grpc_wait(c)
  \/ WaitFastPath(c) \/ WaitArrives(c) \/ WaitReturns(c)
  \/ TakeError(c) \/ Piggyback(c)
  \/ handoff_leader(c) \/ NotCovered(c) \/ DoLeaderFsync(c)
  \/ Drain(c) \/ Pwrite(c) \/ sync_log_end(c) \/ Fdatasync(c)
  \/ wakeup_all(c) \/ WakeupInner(c) \/ ReleaseSlot(c)
  \/ Return(c)

Next == \E c \in Committer : Begin(c) \/ Step(c)

Spec == Init /\ [][Next]_vars

-----------------------------------------------------------------------------
(* Properties.                                                             *)

\* Everything below the durable watermark last_synced_lsn is on disk, however
\* many leaders overlap, whichever file their fdatasync found current and in
\* whichever order they publish: flush_sync_if_needed skips the fsync of any
\* commit below it.
WatermarkDurable == \A x \in 1 .. last_synced_lsn - 1 : x \in durable

\* A commit that returned Ok survives a power failure, together with every entry
\* before it (recovery stops at the first hole): led, piggybacked, short-cut,
\* timed out or skipped.
AckedIsDurable == \A a \in acked : 1 .. a \subseteq durable

\* The threads that hold a leader slot.
Leaders ==
  {c \in Committer : \/ pc[c] = "grpc_wait"
                     \/ in_progress_group[c] # 0 /\ pc[c] \in WorkPcs \ {"return"}}

\* Leader slots are neither lost nor given back twice, whatever path a leader
\* takes (error, hand-off, group-commit wait), and never exceed the ceiling.
SlotsAccounted ==
  /\ leaders_in_flight = Cardinality(Leaders)
  /\ leaders_in_flight <= Max2(MaxLeaders, AdaptiveLeaders)

\* d will take the lead of group g, or pass it on: it is designated, or it will
\* find the designation when it looks.
WillLead(d, g) ==
  /\ my_group[d] = g
  /\ \/ pc[d] \in {"do_leader_fsync", "lead", "grpc_wait"}
     \/ pc[d] = "notified" /\ ~groups[g].leader_exists
     \/ pc[d] = "arrive" /\ ~groups[g].leader_exists /\ groups[g].leader_notified


\* The log as its callers see it.
Promise == INSTANCE CommitLog WITH next <- next_available_lsn, stable <- durable

\* The commit path implements CommitLog: whatever leaders, drains, timeouts and
\* file flips interleave, the disk holds a prefix of the log after every step,
\* never loses an entry, and a commit returns Ok only for an entry on it.
ImplementsCommitLog == Promise!Spec
=============================================================================
