------------------------- MODULE FsyncManagerProofs -------------------------
(***************************************************************************)
(* The durable watermark and the acknowledgements of the commit path, for  *)
(* every number of committers, leaders, files and entries.                 *)
(*                                                                         *)
(* WatermarkDurable is not inductive: that a leader may publish its eol    *)
(* rests on what its drain put into the page cache, on the files before    *)
(* the current one being durable, and on the pages its fdatasync was about *)
(* (IInv).  AckedIsDurable needs in addition that a leader's eol lies      *)
(* above the LSN of every waiter in its cohort (CohortInv).  The account   *)
(* of the leader slots needs that only a thread at work leads a group      *)
(* (SlotInv).                                                              *)
(***************************************************************************)
EXTENDS FsyncManager, FiniteSetTheorems, TLAPS

\* A failed fdatasync leaves the dirty pages in the page cache.
NoLoss == ~(Failures /\ DropsPages)

Below(n, S) == \A x \in Int : 1 <= x /\ x < n => x \in S

InGroup == WaitPcs \cup StatusPcs \cup {"lead"}
Leading == {"wakeup_all", "wakeup_inner", "release_slot"}
Synced == Leading \cup {"return"}
Drained == Synced \cup {"sync", "fdatasync"}

\* Group references point to groups; a captured group is never the newest one.
GroupRef(c) ==
  /\ my_group[c] <= Len(groups)
  /\ pc[c] \in InGroup => my_group[c] # 0
  /\ in_progress_group[c] # 0 => in_progress_group[c] < Len(groups)
  /\ pc[c] \in Leading => in_progress_group[c] # 0
  /\ pc[c] # "idle" => lsn[c] # 0

GroupInv == Len(groups) >= 1 /\ \A c \in Committer : GroupRef(c)

\* A thread holds the latch exactly while it pwrites; everything collected is
\* in the page cache or in the hands of that thread, unless a drain failed.
LatchInv ==
  /\ \A c \in Committer : pc[c] \in {"pwrite", "nosync_pwrite"} <=> lwl = c
  /\ flushed_len <= next_available_lsn
  /\ lwl # 0 => flushed_len = next_available_lsn
  /\ ~io_invalid \/ lwl # 0 =>
       Below(flushed_len, IF lwl = 0 THEN page_cache ELSE page_cache \cup batch[lwl])

\* The files before the current one are durable.
FileInv ==
  \A x \in Int : 1 <= x /\ x < next_available_lsn =>
    FileOf(x) = CurrentFile \/ x \in durable

\* What a thread's drain and its fdatasync have achieved.
WorkInv ==
  \A c \in Committer :
    /\ result[c] <= next_available_lsn
    /\ pc[c] = "sync" => Below(result[c], page_cache)
    /\ pc[c] = "fdatasync" => Below(result[c], durable \cup batch[c])
    /\ pc[c] \in Synced => Below(result[c], durable)

\* The results the groups and the watermark promise are durable.
PromiseInv ==
  /\ \A g \in 1 .. Len(groups) : Below(groups[g].result_lsn, durable)
  /\ Below(last_synced_lsn, durable)

IInv == TypeOK /\ GroupInv /\ LatchInv /\ FileInv /\ WorkInv /\ PromiseInv

\* A group whose waiters are told, or about to be told, that they are served.
Done(g) == groups[g].work_done_atomic \/ groups[g].work_done

\* Without I/O errors: a leader's eol lies above its own LSN and those of its
\* cohort, a group is done only when its waiters are durable, and the newest
\* group, the one newcomers join, is not done.
CohortInv ==
  /\ ~io_invalid
  /\ \A c \in Committer :
       /\ lsn[c] < next_available_lsn
       /\ target_lsn[c] # 0 \/ pc[c] = "logged" => target_lsn[c] = lsn[c]
       /\ pc[c] \in Drained => lsn[c] < result[c]
       /\ pc[c] \in {"no_fsync_needed", "result"} => Done(my_group[c])
       /\ pc[c] \in InGroup /\ Done(my_group[c]) => Below(lsn[c] + 1, durable)
  /\ \A c, w \in Committer :
       /\ pc[c] \in Drained
       /\ in_progress_group[c] # 0
       /\ pc[w] \in InGroup
       /\ my_group[w] = in_progress_group[c]
       => lsn[w] < result[c]
  /\ \A g \in 1 .. Len(groups) : ~groups[g].error /\ (Done(g) => g < Len(groups))
  /\ \A a \in acked : Below(a + 1, durable)

AckInv == IInv /\ CohortInv

-----------------------------------------------------------------------------
(* Lemmas on groups, LSN sets and group references.                        *)

\* The update of one group.
LEMMA GroupSet ==
  ASSUME groups \in Seq(FSyncGroup), NEW g \in 1 .. Len(groups), NEW r \in FSyncGroup,
         SetGroup(g, r)
  PROVE  /\ groups' \in Seq(FSyncGroup)
         /\ Len(groups') = Len(groups)
         /\ groups'[g] = r
         /\ \A h \in 1 .. Len(groups) : h # g => groups'[h] = groups[h]
  BY DEF SetGroup

\* A new group at the end.
LEMMA GroupAppend ==
  ASSUME groups \in Seq(FSyncGroup), groups' = Append(groups, NewGroup)
  PROVE  /\ groups' \in Seq(FSyncGroup)
         /\ Len(groups') = Len(groups) + 1
         /\ groups'[Len(groups) + 1] = NewGroup
         /\ \A h \in 1 .. Len(groups) : groups'[h] = groups[h]
<1>1. NewGroup \in FSyncGroup  BY SizeAssumption DEF NewGroup, FSyncGroup
<1> QED BY <1>1

\* The locals of a call that is over.
LEMMA ForgetTypes ==
  ASSUME ThreadTypeOK, NEW c \in Committer, Forget(c)
  PROVE  /\ lsn' \in [Committer -> 0 .. MaxLsn]
         /\ target_lsn' \in [Committer -> 0 .. MaxLsn]
         /\ my_group' \in [Committer -> Nat]
         /\ result' \in [Committer -> -1 .. MaxLsn + 1]
         /\ lsn'[c] = 0 /\ target_lsn'[c] = 0 /\ my_group'[c] = 0 /\ result'[c] = 0
         /\ \A d \in Committer : d # c =>
              /\ lsn'[d] = lsn[d] /\ target_lsn'[d] = target_lsn[d]
              /\ my_group'[d] = my_group[d] /\ result'[d] = result[d]
  BY SizeAssumption DEF ThreadTypeOK, Forget

\* What a step of c leaves of another thread: at most it wakes it.
Others(c) ==
  \A d \in Committer : d # c =>
    /\ lsn'[d] = lsn[d]
    /\ target_lsn'[d] = target_lsn[d]
    /\ my_group'[d] = my_group[d]
    /\ in_progress_group'[d] = in_progress_group[d]
    /\ result'[d] = result[d]
    /\ pc'[d] = pc[d] \/ (pc[d] = "parked" /\ pc'[d] = "notified")

\* What a step of c may do to the groups: add a new one, mark its own group done
\* with the result of its work.
GroupsKept(c) ==
  /\ Len(groups') >= Len(groups)
  /\ \A h \in 1 .. Len(groups') :
       \/ h > Len(groups) /\ groups'[h] = NewGroup
       \/ /\ h <= Len(groups)
          /\ \/ groups'[h].work_done_atomic = groups[h].work_done_atomic
             \/ pc[c] = "wakeup_all" /\ h = in_progress_group[c] /\ groups'[h].work_done_atomic
          /\ \/ groups'[h].work_done = groups[h].work_done
             \/ pc[c] = "wakeup_inner" /\ h = in_progress_group[c] /\ groups'[h].work_done
          /\ \/ groups'[h].error = groups[h].error
             \/ pc[c] = "wakeup_inner" /\ groups'[h].error = (result[c] = Failed)
          /\ \/ groups'[h].result_lsn = groups[h].result_lsn
             \/ pc[c] = "wakeup_inner" /\ result[c] # Failed /\ groups'[h].result_lsn = result[c]

\* Sets of LSNs the log steps compute.
LEMMA SetTypes ==
  ASSUME TypeOK
  PROVE  /\ Unflushed \in SUBSET (1 .. MaxLsn)
         /\ page_cache \cup Unflushed \in SUBSET (1 .. MaxLsn)
         /\ \A S : S \in SUBSET (1 .. MaxLsn) => DirtyIn(S) \in SUBSET (1 .. MaxLsn)
<1>1. Unflushed \in SUBSET (1 .. MaxLsn)
  BY SizeAssumption DEF TypeOK, LogTypeOK, Unflushed
<1>2. \A S : S \in SUBSET (1 .. MaxLsn) => DirtyIn(S) \in SUBSET (1 .. MaxLsn)
  BY DEF DirtyIn
<1> QED BY <1>1, <1>2 DEF TypeOK, LogTypeOK

\* The group references of the other threads survive a step of c.
LEMMA GroupStep ==
  ASSUME TypeOK, GroupInv, NEW c \in Committer, Others(c),
         groups' \in Seq(FSyncGroup), Len(groups') >= Len(groups),
         my_group' \in [Committer -> Nat], in_progress_group' \in [Committer -> Nat],
         GroupRef(c)'
  PROVE  GroupInv'
<1>1. ASSUME NEW d \in Committer, d # c PROVE GroupRef(d)'
  BY <1>1 DEF Others, GroupInv, GroupRef, TypeOK, ManagerTypeOK, ThreadTypeOK, InGroup,
     WaitPcs, Leading
<1>2. Len(groups') >= 1
  BY DEF GroupInv, TypeOK, ManagerTypeOK
<1> QED BY <1>1, <1>2 DEF GroupInv

\* A call in progress is about an LSN.
LEMMA CallTypes ==
  ASSUME TypeOK, GroupInv, NEW c \in Committer, pc[c] # "idle"
  PROVE  lsn[c] \in 1 .. MaxLsn
  BY SizeAssumption DEF TypeOK, ThreadTypeOK, GroupInv, GroupRef

\* A waiter's group exists.
LEMMA WaiterTypes ==
  ASSUME TypeOK, GroupInv, NEW c \in Committer, pc[c] \in InGroup
  PROVE  my_group[c] \in 1 .. Len(groups) /\ groups[my_group[c]] \in FSyncGroup
  BY DEF TypeOK, ThreadTypeOK, ManagerTypeOK, GroupInv, GroupRef

\* A leader's group exists and is not the newest.
LEMMA LeaderTypes ==
  ASSUME TypeOK, GroupInv, NEW c \in Committer, pc[c] \in Leading
  PROVE  /\ in_progress_group[c] \in 1 .. Len(groups)
         /\ in_progress_group[c] < Len(groups)
         /\ groups[in_progress_group[c]] \in FSyncGroup
  BY DEF TypeOK, ThreadTypeOK, ManagerTypeOK, GroupInv, GroupRef

-----------------------------------------------------------------------------
(* Types and group references, action by action.                           *)

\* Log: types, group references, and its effect on threads and groups.
LEMMA LogTypes ==
  ASSUME TypeOK, GroupInv, NEW c \in Committer, NEW mode \in Modes, NEW p \in Placements,
         Log(c, mode, p)
  PROVE  TypeOK' /\ GroupInv' /\ Others(c) /\ GroupsKept(c)
<1>pc. pc' \in [Committer -> Pcs]
  BY SwitchAssumption DEF TypeOK, ThreadTypeOK, Log, Call, GoTo, Pcs, WaitPcs, StatusPcs,
     WorkPcs
<1>log. LogTypeOK'
  BY SetTypes, SizeAssumption DEF TypeOK, LogTypeOK, FSyncGroup, Failed, Log, log_vars
<1>groups. groups' \in Seq(FSyncGroup) /\ GroupsKept(c)
  BY DEF TypeOK, ManagerTypeOK, GroupsKept, Log
<1>manager. ManagerTypeOK'
  BY <1>groups DEF TypeOK, ManagerTypeOK, Log, manager
<1>same. UNCHANGED <<my_group, in_progress_group, result, batch>>
  BY DEF Log, own
<1>lsn. lsn' \in [Committer -> 0 .. MaxLsn]
  BY SizeAssumption DEF TypeOK, ThreadTypeOK, LogTypeOK, Log, Call, own
<1>target_lsn. target_lsn' \in [Committer -> 0 .. MaxLsn]
  BY SizeAssumption DEF TypeOK, ThreadTypeOK, LogTypeOK, Log, Call, own
<1>others. Others(c)
  BY <1>same DEF TypeOK, ThreadTypeOK, Others, Log, Call, GoTo
<1>len. Len(groups) \in Nat /\ Len(groups') \in Nat /\ Len(groups') >= Len(groups)
  BY <1>groups DEF GroupsKept, TypeOK, ManagerTypeOK
<1>effect. /\ pc'[c] # "idle" /\ pc'[c] \notin InGroup \cup Leading /\ lsn'[c] # 0
           /\ my_group'[c] = my_group[c]
           /\ in_progress_group'[c] = in_progress_group[c]
  BY SwitchAssumption DEF TypeOK, ThreadTypeOK, LogTypeOK, InGroup, Leading, WaitPcs,
     StatusPcs, Log, Call, GoTo, own
<1>ref. GroupRef(c)'
  BY <1>effect, <1>groups, <1>len, <1>same, <1>lsn DEF TypeOK, ThreadTypeOK, ManagerTypeOK,
     GroupInv, GroupRef, InGroup, Leading, WaitPcs, StatusPcs
<1>refs. GroupInv'
  BY <1>groups, <1>ref, <1>others, <1>same, <1>lsn, <1>len, GroupStep DEF TypeOK,
     ThreadTypeOK
<1> QED BY <1>pc, <1>log, <1>groups, <1>manager, <1>same, <1>lsn, <1>target_lsn, <1>others,
           <1>refs DEF TypeOK, ThreadTypeOK

\* LogFails: types, group references, and its effect on threads and groups.
LEMMA LogFailsTypes ==
  ASSUME TypeOK, GroupInv, NEW c \in Committer, NEW p \in Placements, LogFails(c, p)
  PROVE  TypeOK' /\ GroupInv' /\ Others(c) /\ GroupsKept(c)
<1>pc. pc' \in [Committer -> Pcs]
  BY SwitchAssumption DEF TypeOK, ThreadTypeOK, LogFails, GoTo, Pcs, WaitPcs, StatusPcs,
     WorkPcs
<1>log. LogTypeOK'
  BY SetTypes, SizeAssumption DEF TypeOK, LogTypeOK, FSyncGroup, Failed, LogFails, log_vars
<1>groups. groups' \in Seq(FSyncGroup) /\ GroupsKept(c)
  BY DEF TypeOK, ManagerTypeOK, GroupsKept, LogFails
<1>manager. ManagerTypeOK'
  BY <1>groups DEF TypeOK, ManagerTypeOK, LogFails, manager
<1>same. UNCHANGED <<lsn, target_lsn, my_group, in_progress_group, result, batch>>
  BY DEF LogFails, own
<1>others. Others(c)
  BY <1>same DEF TypeOK, ThreadTypeOK, Others, LogFails, GoTo
<1>len. Len(groups) \in Nat /\ Len(groups') \in Nat /\ Len(groups') >= Len(groups)
  BY <1>groups DEF GroupsKept, TypeOK, ManagerTypeOK
<1>ref. GroupRef(c)'
  BY <1>groups, <1>len, <1>same DEF TypeOK, ThreadTypeOK, ManagerTypeOK, LogTypeOK,
     GroupInv, GroupRef, InGroup, Leading, WaitPcs, StatusPcs, LogFails, GoTo, own,
     manager
<1>refs. GroupInv'
  BY <1>groups, <1>ref, <1>others, <1>same, <1>len, GroupStep DEF TypeOK, ThreadTypeOK
<1> QED BY <1>pc, <1>log, <1>groups, <1>manager, <1>same, <1>others, <1>refs DEF TypeOK,
           ThreadTypeOK

\* DirectWriteFails: types, group references, and its effect on threads and groups.
LEMMA DirectWriteFailsTypes ==
  ASSUME TypeOK, GroupInv, NEW c \in Committer, DirectWriteFails(c)
  PROVE  TypeOK' /\ GroupInv' /\ Others(c) /\ GroupsKept(c)
<1>pc. pc' \in [Committer -> Pcs]
  BY SwitchAssumption DEF TypeOK, ThreadTypeOK, DirectWriteFails, GoTo, Pcs, WaitPcs,
     StatusPcs, WorkPcs
<1>log. LogTypeOK'
  <2>1. page_cache' \in SUBSET (1 .. MaxLsn) /\ DirtyIn(page_cache') \in SUBSET (1 .. MaxLsn)
    BY SetTypes DEF DirectWriteFails
  <2>2. durable' \in SUBSET (1 .. MaxLsn)
    BY <2>1 DEF DirectWriteFails, TypeOK, LogTypeOK
  <2> QED BY <2>1, <2>2, SizeAssumption DEF TypeOK, LogTypeOK, DirectWriteFails
<1>groups. groups' \in Seq(FSyncGroup) /\ GroupsKept(c)
  BY DEF TypeOK, ManagerTypeOK, GroupsKept, DirectWriteFails
<1>manager. ManagerTypeOK'
  BY <1>groups DEF TypeOK, ManagerTypeOK, DirectWriteFails, manager
<1>same. UNCHANGED <<lsn, target_lsn, my_group, in_progress_group, result, batch>>
  BY DEF DirectWriteFails, own
<1>others. Others(c)
  BY <1>same DEF TypeOK, ThreadTypeOK, Others, DirectWriteFails, GoTo
<1>len. Len(groups) \in Nat /\ Len(groups') \in Nat /\ Len(groups') >= Len(groups)
  BY <1>groups DEF GroupsKept, TypeOK, ManagerTypeOK
<1>ref. GroupRef(c)'
  BY <1>groups, <1>len, <1>same DEF TypeOK, ThreadTypeOK, ManagerTypeOK, LogTypeOK,
     GroupInv, GroupRef, InGroup, Leading, WaitPcs, StatusPcs, DirectWriteFails, GoTo, own,
     manager
<1>refs. GroupInv'
  BY <1>groups, <1>ref, <1>others, <1>same, <1>len, GroupStep DEF TypeOK, ThreadTypeOK
<1> QED BY <1>pc, <1>log, <1>groups, <1>manager, <1>same, <1>others, <1>refs DEF TypeOK,
           ThreadTypeOK

\* flush_no_sync: types, group references, and its effect on threads and groups.
LEMMA flush_no_syncTypes ==
  ASSUME TypeOK, GroupInv, NEW c \in Committer, flush_no_sync(c)
  PROVE  TypeOK' /\ GroupInv' /\ Others(c) /\ GroupsKept(c)
<1>pc. pc' \in [Committer -> Pcs]
  BY SwitchAssumption DEF TypeOK, ThreadTypeOK, flush_no_sync, fill_flush_pending, Forget,
     GoTo, Pcs, WaitPcs, StatusPcs, WorkPcs
<1>log. LogTypeOK'
  BY SetTypes, SizeAssumption DEF TypeOK, LogTypeOK, FSyncGroup, Failed, flush_no_sync,
     fill_flush_pending, log_vars
<1>groups. groups' \in Seq(FSyncGroup) /\ GroupsKept(c)
  BY DEF TypeOK, ManagerTypeOK, GroupsKept, flush_no_sync
<1>manager. ManagerTypeOK'
  BY <1>groups DEF TypeOK, ManagerTypeOK, flush_no_sync, manager
<1>same. UNCHANGED <<in_progress_group>>
  BY DEF flush_no_sync, own
<1>lsn. lsn' \in [Committer -> 0 .. MaxLsn]
  BY SizeAssumption DEF TypeOK, ThreadTypeOK, flush_no_sync, Forget, own
<1>target_lsn. target_lsn' \in [Committer -> 0 .. MaxLsn]
  BY SizeAssumption DEF TypeOK, ThreadTypeOK, flush_no_sync, Forget, own
<1>my_group. my_group' \in [Committer -> Nat]
  BY DEF TypeOK, ThreadTypeOK, flush_no_sync, Forget, own
<1>result. result' \in [Committer -> -1 .. MaxLsn + 1]
  BY SizeAssumption DEF TypeOK, ThreadTypeOK, flush_no_sync, Forget
<1>batch. batch' \in [Committer -> SUBSET (1 .. MaxLsn)]
  BY SetTypes DEF TypeOK, ThreadTypeOK, flush_no_sync, fill_flush_pending
<1>others. Others(c)
  BY <1>same DEF TypeOK, ThreadTypeOK, Others, flush_no_sync, fill_flush_pending, Forget,
     GoTo
<1>len. Len(groups) \in Nat /\ Len(groups') \in Nat /\ Len(groups') >= Len(groups)
  BY <1>groups DEF GroupsKept, TypeOK, ManagerTypeOK
<1>ref. GroupRef(c)'
  BY <1>groups, <1>len, <1>same, <1>lsn, <1>my_group DEF TypeOK, ThreadTypeOK,
     ManagerTypeOK, LogTypeOK, GroupInv, GroupRef, InGroup, Leading, WaitPcs, StatusPcs,
     flush_no_sync, fill_flush_pending, Forget, GoTo, own, manager
<1>refs. GroupInv'
  BY <1>groups, <1>ref, <1>others, <1>same, <1>lsn, <1>my_group, <1>len, GroupStep
    DEF TypeOK, ThreadTypeOK
<1> QED BY <1>pc, <1>log, <1>groups, <1>manager, <1>same, <1>lsn, <1>target_lsn,
           <1>my_group, <1>result, <1>batch, <1>others, <1>refs DEF TypeOK, ThreadTypeOK

\* NoSyncPwrite: types, group references, and its effect on threads and groups.
LEMMA NoSyncPwriteTypes ==
  ASSUME TypeOK, GroupInv, NEW c \in Committer, NoSyncPwrite(c)
  PROVE  TypeOK' /\ GroupInv' /\ Others(c) /\ GroupsKept(c)
<1>pc. pc' \in [Committer -> Pcs]
  BY SwitchAssumption DEF TypeOK, ThreadTypeOK, NoSyncPwrite, Pwritten, PwriteFailed,
     Forget, GoTo, Pcs, WaitPcs, StatusPcs, WorkPcs
<1>log. LogTypeOK'
  BY SetTypes, SizeAssumption DEF TypeOK, LogTypeOK, FSyncGroup, Failed, NoSyncPwrite,
     Pwritten, PwriteFailed, log_vars, ThreadTypeOK
<1>groups. groups' \in Seq(FSyncGroup) /\ GroupsKept(c)
  BY DEF TypeOK, ManagerTypeOK, GroupsKept, NoSyncPwrite
<1>manager. ManagerTypeOK'
  BY <1>groups DEF TypeOK, ManagerTypeOK, NoSyncPwrite, manager
<1>same. UNCHANGED <<in_progress_group>>
  BY DEF NoSyncPwrite, own
<1>own. /\ lsn' \in [Committer -> 0 .. MaxLsn] /\ target_lsn' \in [Committer -> 0 .. MaxLsn]
       /\ my_group' \in [Committer -> Nat] /\ result' \in [Committer -> -1 .. MaxLsn + 1]
       /\ my_group'[c] = 0 /\ lsn'[c] = 0
  BY ForgetTypes DEF TypeOK, NoSyncPwrite
<1>batch. batch' \in [Committer -> SUBSET (1 .. MaxLsn)]
  BY SetTypes DEF TypeOK, ThreadTypeOK, NoSyncPwrite, Pwritten, PwriteFailed
<1>others. Others(c)
  BY <1>same DEF TypeOK, ThreadTypeOK, Others, NoSyncPwrite, Pwritten, PwriteFailed,
     Forget, GoTo
<1>len. Len(groups) \in Nat /\ Len(groups') \in Nat /\ Len(groups') >= Len(groups)
  BY <1>groups DEF GroupsKept, TypeOK, ManagerTypeOK
<1>ref. GroupRef(c)'
  BY <1>groups, <1>len, <1>same, <1>own DEF TypeOK, ThreadTypeOK, ManagerTypeOK, LogTypeOK,
     GroupInv, GroupRef, InGroup, Leading, WaitPcs, StatusPcs, NoSyncPwrite, Pwritten,
     PwriteFailed, Forget, GoTo, own, manager
<1>refs. GroupInv'
  BY <1>groups, <1>ref, <1>others, <1>same, <1>own, <1>len, GroupStep DEF TypeOK,
     ThreadTypeOK
<1> QED BY <1>pc, <1>log, <1>groups, <1>manager, <1>same, <1>own, <1>batch, <1>others,
           <1>refs DEF TypeOK, ThreadTypeOK

\* flush_sync_if_needed: types, group references, and its effect on threads and groups.
LEMMA flush_sync_if_neededTypes ==
  ASSUME TypeOK, GroupInv, NEW c \in Committer, flush_sync_if_needed(c)
  PROVE  TypeOK' /\ GroupInv' /\ Others(c) /\ GroupsKept(c)
<1>call. lsn[c] \in 1 .. MaxLsn
  BY CallTypes DEF flush_sync_if_needed
<1>pc. pc' \in [Committer -> Pcs]
  BY SwitchAssumption DEF TypeOK, ThreadTypeOK, flush_sync_if_needed, Acknowledge, Forget,
     GoTo, Pcs, WaitPcs, StatusPcs, WorkPcs
<1>log. LogTypeOK'
  BY <1>call, SetTypes, SizeAssumption DEF TypeOK, LogTypeOK, FSyncGroup, Failed,
     flush_sync_if_needed, Acknowledge, log_vars
<1>groups. groups' \in Seq(FSyncGroup) /\ GroupsKept(c)
  BY DEF TypeOK, ManagerTypeOK, GroupsKept, flush_sync_if_needed
<1>manager. ManagerTypeOK'
  BY <1>groups DEF TypeOK, ManagerTypeOK, flush_sync_if_needed, manager
<1>same. UNCHANGED <<in_progress_group, batch>>
  BY DEF flush_sync_if_needed, own
<1>lsn. lsn' \in [Committer -> 0 .. MaxLsn]
  BY SizeAssumption DEF TypeOK, ThreadTypeOK, flush_sync_if_needed, Forget, own
<1>target_lsn. target_lsn' \in [Committer -> 0 .. MaxLsn]
  BY SizeAssumption DEF TypeOK, ThreadTypeOK, flush_sync_if_needed, Forget, own
<1>my_group. my_group' \in [Committer -> Nat]
  BY DEF TypeOK, ThreadTypeOK, flush_sync_if_needed, Forget, own
<1>result. result' \in [Committer -> -1 .. MaxLsn + 1]
  BY SizeAssumption DEF TypeOK, ThreadTypeOK, flush_sync_if_needed, Forget
<1>others. Others(c)
  BY <1>same DEF TypeOK, ThreadTypeOK, Others, flush_sync_if_needed, Acknowledge, Forget,
     GoTo
<1>len. Len(groups) \in Nat /\ Len(groups') \in Nat /\ Len(groups') >= Len(groups)
  BY <1>groups DEF GroupsKept, TypeOK, ManagerTypeOK
<1>effect. /\ (pc'[c] = "idle" /\ my_group'[c] = 0) \/ (pc'[c] = "enter" /\ lsn'[c] = lsn[c] /\ my_group'[c] = my_group[c])
           /\ in_progress_group'[c] = in_progress_group[c]
  BY DEF TypeOK, ThreadTypeOK, flush_sync_if_needed, Acknowledge, Forget, GoTo, own
<1>ref. GroupRef(c)'
  BY <1>call, <1>effect, <1>groups, <1>len, <1>same, <1>lsn, <1>my_group DEF TypeOK,
     ThreadTypeOK, ManagerTypeOK, GroupInv, GroupRef, InGroup, Leading, WaitPcs, StatusPcs
<1>refs. GroupInv'
  BY <1>groups, <1>ref, <1>others, <1>same, <1>lsn, <1>my_group, <1>len, GroupStep
    DEF TypeOK, ThreadTypeOK
<1> QED BY <1>pc, <1>log, <1>groups, <1>manager, <1>same, <1>lsn, <1>target_lsn,
           <1>my_group, <1>result, <1>others, <1>refs DEF TypeOK, ThreadTypeOK

\* flush_and_sync: types, group references, and its effect on threads and groups.
LEMMA flush_and_syncTypes ==
  ASSUME TypeOK, GroupInv, NEW c \in Committer, flush_and_sync(c)
  PROVE  TypeOK' /\ GroupInv' /\ Others(c) /\ GroupsKept(c)
<1>call. lsn[c] \in 1 .. MaxLsn
  BY CallTypes DEF flush_and_sync
<1>pc. pc' \in [Committer -> Pcs]
  BY SwitchAssumption DEF TypeOK, ThreadTypeOK, flush_and_sync, TakeSlot, JoinWaiters,
     Capture, next_fsync_waiters, GoTo, Pcs, WaitPcs, StatusPcs, WorkPcs
<1>log. LogTypeOK'
  BY <1>call, SetTypes, SizeAssumption DEF TypeOK, LogTypeOK, FSyncGroup, Failed,
     flush_and_sync, log_vars
<1>groups. groups' \in Seq(FSyncGroup) /\ GroupsKept(c)
  BY GroupAppend DEF TypeOK, ManagerTypeOK, GroupsKept, flush_and_sync, TakeSlot,
     JoinWaiters, Capture, next_fsync_waiters
<1>manager. ManagerTypeOK'
  BY <1>groups DEF TypeOK, ManagerTypeOK, flush_and_sync, TakeSlot, JoinWaiters, Capture,
     manager
<1>same. UNCHANGED <<lsn, target_lsn, result, batch>>
  BY DEF flush_and_sync, own
<1>nat. Len(groups) \in Nat
  BY DEF TypeOK, ManagerTypeOK
<1>my_group. my_group' \in [Committer -> Nat]
  BY <1>nat DEF TypeOK, ThreadTypeOK, flush_and_sync, TakeSlot, JoinWaiters, Capture,
     next_fsync_waiters, own
<1>in_progress_group. in_progress_group' \in [Committer -> Nat]
  BY <1>nat DEF TypeOK, ThreadTypeOK, flush_and_sync, TakeSlot, JoinWaiters, Capture,
     next_fsync_waiters, own
<1>others. Others(c)
  BY <1>same DEF TypeOK, ThreadTypeOK, Others, flush_and_sync, TakeSlot, JoinWaiters,
     Capture, next_fsync_waiters, GoTo
<1>len. Len(groups) \in Nat /\ Len(groups') \in Nat /\ Len(groups') >= Len(groups)
  BY <1>groups DEF GroupsKept, TypeOK, ManagerTypeOK
<1>effect. /\ \/ pc'[c] = "drain" /\ my_group'[c] = 0 /\ in_progress_group'[c] = Len(groups) /\ Len(groups') = Len(groups) + 1
              \/ pc'[c] = "grpc_wait" /\ my_group'[c] = my_group[c] /\ in_progress_group'[c] = in_progress_group[c]
              \/ pc'[c] = "arrive" /\ my_group'[c] = Len(groups) /\ in_progress_group'[c] = in_progress_group[c]
           /\ lsn'[c] = lsn[c]
  <2>0. lsn'[c] = lsn[c]
    BY DEF flush_and_sync, TypeOK, ThreadTypeOK
  <2>1. CASE Capture(c, Len(groups))
    <3>1. pc'[c] = "drain" /\ my_group'[c] = 0 /\ in_progress_group'[c] = Len(groups)
      BY <2>1 DEF Capture, GoTo, TypeOK, ThreadTypeOK
    <3>2. Len(groups') = Len(groups) + 1
      BY <2>1, GroupAppend DEF Capture, TypeOK, ManagerTypeOK
    <3> QED BY <2>0, <3>1, <3>2
  <2>2. CASE TakeSlot(c, Len(groups)) /\ ~Capture(c, Len(groups))
    <3>1. pc'[c] = "grpc_wait" /\ UNCHANGED <<my_group, in_progress_group>>
      BY <2>2 DEF TakeSlot, GoTo, TypeOK, ThreadTypeOK
    <3> QED BY <2>0, <3>1
  <2>3. CASE JoinWaiters(c)
    BY <2>0, <2>3 DEF flush_and_sync, JoinWaiters, next_fsync_waiters, GoTo, TypeOK,
       ThreadTypeOK
  <2> QED BY <2>1, <2>2, <2>3 DEF flush_and_sync, next_fsync_waiters
<1>ref. GroupRef(c)'
  BY <1>call, <1>effect, <1>groups, <1>len, <1>same, <1>my_group, <1>in_progress_group
    DEF TypeOK, ThreadTypeOK, ManagerTypeOK, GroupInv, GroupRef, InGroup, Leading, WaitPcs,
        StatusPcs
<1>refs. GroupInv'
  BY <1>groups, <1>ref, <1>others, <1>same, <1>my_group, <1>in_progress_group, <1>len,
     GroupStep DEF TypeOK, ThreadTypeOK
<1> QED BY <1>pc, <1>log, <1>groups, <1>manager, <1>same, <1>my_group,
           <1>in_progress_group, <1>others, <1>refs DEF TypeOK, ThreadTypeOK

\* grpc_wait: types, group references, and its effect on threads and groups.
LEMMA grpc_waitTypes ==
  ASSUME TypeOK, GroupInv, NEW c \in Committer, grpc_wait(c)
  PROVE  TypeOK' /\ GroupInv' /\ Others(c) /\ GroupsKept(c)
<1>pc. pc' \in [Committer -> Pcs]
  BY SwitchAssumption DEF TypeOK, ThreadTypeOK, grpc_wait, Capture, next_fsync_waiters,
     GoTo, Pcs, WaitPcs, StatusPcs, WorkPcs
<1>log. LogTypeOK'
  BY SetTypes, SizeAssumption DEF TypeOK, LogTypeOK, FSyncGroup, Failed, grpc_wait, log_vars
<1>groups. groups' \in Seq(FSyncGroup) /\ GroupsKept(c)
  BY GroupAppend DEF TypeOK, ManagerTypeOK, GroupsKept, grpc_wait, Capture,
     next_fsync_waiters
<1>manager. ManagerTypeOK'
  BY <1>groups DEF TypeOK, ManagerTypeOK, grpc_wait, Capture, manager
<1>same. UNCHANGED <<lsn, target_lsn, result, batch>>
  BY DEF grpc_wait, own
<1>nat. Len(groups) \in Nat
  BY DEF TypeOK, ManagerTypeOK
<1>my_group. my_group' \in [Committer -> Nat]
  BY <1>nat DEF TypeOK, ThreadTypeOK, grpc_wait, Capture, next_fsync_waiters, own
<1>in_progress_group. in_progress_group' \in [Committer -> Nat]
  BY <1>nat DEF TypeOK, ThreadTypeOK, grpc_wait, Capture, next_fsync_waiters, own
<1>others. Others(c)
  BY <1>same DEF TypeOK, ThreadTypeOK, Others, grpc_wait, Capture, next_fsync_waiters, GoTo
<1>len. Len(groups) \in Nat /\ Len(groups') \in Nat /\ Len(groups') >= Len(groups)
  BY <1>groups DEF GroupsKept, TypeOK, ManagerTypeOK
<1>ref. GroupRef(c)'
  BY <1>groups, <1>len, <1>same, <1>my_group, <1>in_progress_group DEF TypeOK,
     ThreadTypeOK, ManagerTypeOK, LogTypeOK, GroupInv, GroupRef, InGroup, Leading, WaitPcs,
     StatusPcs, grpc_wait, Capture, next_fsync_waiters, GoTo, own, manager
<1>refs. GroupInv'
  BY <1>groups, <1>ref, <1>others, <1>same, <1>my_group, <1>in_progress_group, <1>len,
     GroupStep DEF TypeOK, ThreadTypeOK
<1> QED BY <1>pc, <1>log, <1>groups, <1>manager, <1>same, <1>my_group,
           <1>in_progress_group, <1>others, <1>refs DEF TypeOK, ThreadTypeOK

\* WaitFastPath: types, group references, and its effect on threads and groups.
LEMMA WaitFastPathTypes ==
  ASSUME TypeOK, GroupInv, NEW c \in Committer, WaitFastPath(c)
  PROVE  TypeOK' /\ GroupInv' /\ Others(c) /\ GroupsKept(c)
<1>pc. pc' \in [Committer -> Pcs]
  BY SwitchAssumption DEF TypeOK, ThreadTypeOK, WaitFastPath, Status, UnchangedLog, GoTo,
     Pcs, WaitPcs, StatusPcs, WorkPcs
<1>log. LogTypeOK'
  BY SetTypes, SizeAssumption DEF TypeOK, LogTypeOK, FSyncGroup, Failed, WaitFastPath,
     UnchangedLog, log_vars
<1>groups. groups' \in Seq(FSyncGroup) /\ GroupsKept(c)
  BY DEF TypeOK, ManagerTypeOK, GroupsKept, WaitFastPath, Status
<1>manager. ManagerTypeOK'
  BY <1>groups DEF TypeOK, ManagerTypeOK, WaitFastPath, manager
<1>same. UNCHANGED <<lsn, target_lsn, my_group, in_progress_group, result, batch>>
  BY DEF WaitFastPath, own
<1>others. Others(c)
  BY <1>same DEF TypeOK, ThreadTypeOK, Others, WaitFastPath, Status, UnchangedLog, GoTo
<1>len. Len(groups) \in Nat /\ Len(groups') \in Nat /\ Len(groups') >= Len(groups)
  BY <1>groups DEF GroupsKept, TypeOK, ManagerTypeOK
<1>ref. GroupRef(c)'
  BY <1>groups, <1>len, <1>same DEF TypeOK, ThreadTypeOK, ManagerTypeOK, LogTypeOK,
     GroupInv, GroupRef, InGroup, Leading, WaitPcs, StatusPcs, WaitFastPath, Status,
     UnchangedLog, GoTo, own, manager
<1>refs. GroupInv'
  BY <1>groups, <1>ref, <1>others, <1>same, <1>len, GroupStep DEF TypeOK, ThreadTypeOK
<1> QED BY <1>pc, <1>log, <1>groups, <1>manager, <1>same, <1>others, <1>refs DEF TypeOK,
           ThreadTypeOK

\* WaitArrives: types, group references, and its effect on threads and groups.
LEMMA WaitArrivesTypes ==
  ASSUME TypeOK, GroupInv, NEW c \in Committer, WaitArrives(c)
  PROVE  TypeOK' /\ GroupInv' /\ Others(c) /\ GroupsKept(c)
<1>call. lsn[c] \in 1 .. MaxLsn
  BY CallTypes DEF WaitArrives
<1>group. my_group[c] \in 1 .. Len(groups) /\ groups[my_group[c]] \in FSyncGroup
  BY WaiterTypes DEF WaitArrives, InGroup, WaitPcs, StatusPcs
<1>pc. pc' \in [Committer -> Pcs]
  BY SwitchAssumption DEF TypeOK, ThreadTypeOK, WaitArrives, Status, Designated, SetGroup,
     UnchangedLog, GoTo, Pcs, WaitPcs, StatusPcs, WorkPcs
<1>log. LogTypeOK'
  BY <1>call, <1>group, SetTypes, SizeAssumption DEF TypeOK, LogTypeOK, FSyncGroup, Failed,
     WaitArrives, UnchangedLog, log_vars
<1>set. my_group[c] \in 1 .. Len(groups) /\ [groups[my_group[c]] EXCEPT !.leader_exists = TRUE, !.leader_notified = FALSE] \in FSyncGroup
  BY <1>group, SizeAssumption DEF FSyncGroup
<1>groups. groups' \in Seq(FSyncGroup) /\ GroupsKept(c)
  <2> DEFINE r == [groups[my_group[c]] EXCEPT !.leader_exists = TRUE,
           !.leader_notified = FALSE]
  <2>1. groups[my_group[c]] \in FSyncGroup
    BY <1>set DEF TypeOK, ManagerTypeOK
  <2>2. /\ r.work_done_atomic = groups[my_group[c]].work_done_atomic
        /\ r.work_done = groups[my_group[c]].work_done
        /\ r.error = groups[my_group[c]].error
        /\ r.result_lsn = groups[my_group[c]].result_lsn
    BY <2>1 DEF FSyncGroup
  <2>3. groups' = groups \/ SetGroup(my_group[c], r)
    BY DEF WaitArrives, Status, Designated
  <2>4. r \in FSyncGroup
    BY <1>set
  <2> HIDE DEF r
  <2> QED BY <1>set, <2>2, <2>3, <2>4, GroupSet DEF GroupsKept, TypeOK, ManagerTypeOK
<1>manager. ManagerTypeOK'
  BY <1>groups DEF TypeOK, ManagerTypeOK, WaitArrives, manager
<1>same. UNCHANGED <<lsn, target_lsn, my_group, in_progress_group, result, batch>>
  BY DEF WaitArrives, own
<1>others. Others(c)
  BY <1>same DEF TypeOK, ThreadTypeOK, Others, WaitArrives, Status, Designated, SetGroup,
     UnchangedLog, GoTo
<1>len. Len(groups) \in Nat /\ Len(groups') \in Nat /\ Len(groups') >= Len(groups)
  BY <1>groups DEF GroupsKept, TypeOK, ManagerTypeOK
<1>effect. /\ pc'[c] \in {"no_fsync_needed", "do_leader_fsync", "parked"}
  BY DEF TypeOK, ThreadTypeOK, WaitArrives, Status, Designated, SetGroup, UnchangedLog,
     GoTo, own
<1>ref. GroupRef(c)'
  BY <1>call, <1>group, <1>effect, <1>groups, <1>len, <1>same DEF TypeOK, ThreadTypeOK,
     ManagerTypeOK, GroupInv, GroupRef, InGroup, Leading, WaitPcs, StatusPcs
<1>refs. GroupInv'
  BY <1>groups, <1>ref, <1>others, <1>same, <1>len, GroupStep DEF TypeOK, ThreadTypeOK
<1> QED BY <1>pc, <1>log, <1>groups, <1>manager, <1>same, <1>others, <1>refs DEF TypeOK,
           ThreadTypeOK

\* WaitReturns: types, group references, and its effect on threads and groups.
LEMMA WaitReturnsTypes ==
  ASSUME TypeOK, GroupInv, NEW c \in Committer, WaitReturns(c)
  PROVE  TypeOK' /\ GroupInv' /\ Others(c) /\ GroupsKept(c)
<1>group. my_group[c] \in 1 .. Len(groups) /\ groups[my_group[c]] \in FSyncGroup
  BY WaiterTypes DEF WaitReturns, InGroup, WaitPcs, StatusPcs
<1>pc. pc' \in [Committer -> Pcs]
  BY SwitchAssumption DEF TypeOK, ThreadTypeOK, WaitReturns, Status, Designated, SetGroup,
     UnchangedLog, GoTo, Pcs, WaitPcs, StatusPcs, WorkPcs
<1>log. LogTypeOK'
  BY <1>group, SetTypes, SizeAssumption DEF TypeOK, LogTypeOK, FSyncGroup, Failed,
     WaitReturns, UnchangedLog, log_vars
<1>set. my_group[c] \in 1 .. Len(groups) /\ [groups[my_group[c]] EXCEPT !.leader_exists = TRUE, !.leader_notified = FALSE] \in FSyncGroup
  BY <1>group, SizeAssumption DEF FSyncGroup
<1>groups. groups' \in Seq(FSyncGroup) /\ GroupsKept(c)
  <2> DEFINE r == [groups[my_group[c]] EXCEPT !.leader_exists = TRUE,
           !.leader_notified = FALSE]
  <2>1. groups[my_group[c]] \in FSyncGroup
    BY <1>set DEF TypeOK, ManagerTypeOK
  <2>2. /\ r.work_done_atomic = groups[my_group[c]].work_done_atomic
        /\ r.work_done = groups[my_group[c]].work_done
        /\ r.error = groups[my_group[c]].error
        /\ r.result_lsn = groups[my_group[c]].result_lsn
    BY <2>1 DEF FSyncGroup
  <2>3. groups' = groups \/ SetGroup(my_group[c], r)
    BY DEF WaitReturns, Status, Designated
  <2>4. r \in FSyncGroup
    BY <1>set
  <2> HIDE DEF r
  <2> QED BY <1>set, <2>2, <2>3, <2>4, GroupSet DEF GroupsKept, TypeOK, ManagerTypeOK
<1>manager. ManagerTypeOK'
  BY <1>groups DEF TypeOK, ManagerTypeOK, WaitReturns, manager
<1>same. UNCHANGED <<lsn, target_lsn, my_group, in_progress_group, result, batch>>
  BY DEF WaitReturns, own
<1>others. Others(c)
  BY <1>same DEF TypeOK, ThreadTypeOK, Others, WaitReturns, Status, Designated, SetGroup,
     UnchangedLog, GoTo
<1>len. Len(groups) \in Nat /\ Len(groups') \in Nat /\ Len(groups') >= Len(groups)
  BY <1>groups DEF GroupsKept, TypeOK, ManagerTypeOK
<1>ref. GroupRef(c)'
  BY <1>group, <1>groups, <1>len, <1>same DEF TypeOK, ThreadTypeOK, ManagerTypeOK,
     LogTypeOK, GroupInv, GroupRef, InGroup, Leading, WaitPcs, StatusPcs, WaitReturns,
     Status, Designated, SetGroup, UnchangedLog, GoTo, own, manager
<1>refs. GroupInv'
  BY <1>groups, <1>ref, <1>others, <1>same, <1>len, GroupStep DEF TypeOK, ThreadTypeOK
<1> QED BY <1>pc, <1>log, <1>groups, <1>manager, <1>same, <1>others, <1>refs DEF TypeOK,
           ThreadTypeOK

\* TakeError: types, group references, and its effect on threads and groups.
LEMMA TakeErrorTypes ==
  ASSUME TypeOK, GroupInv, NEW c \in Committer, TakeError(c)
  PROVE  TypeOK' /\ GroupInv' /\ Others(c) /\ GroupsKept(c)
<1>call. lsn[c] \in 1 .. MaxLsn
  BY CallTypes DEF TakeError
<1>group. my_group[c] \in 1 .. Len(groups) /\ groups[my_group[c]] \in FSyncGroup
  BY WaiterTypes DEF TakeError, InGroup, WaitPcs, StatusPcs
<1>pc. pc' \in [Committer -> Pcs]
  BY SwitchAssumption DEF TypeOK, ThreadTypeOK, TakeError, ReturnErr, Forget, GoTo, Pcs,
     WaitPcs, StatusPcs, WorkPcs
<1>log. LogTypeOK'
  BY <1>call, <1>group, SetTypes, SizeAssumption DEF TypeOK, LogTypeOK, FSyncGroup, Failed,
     TakeError, ReturnErr, log_vars
<1>groups. groups' \in Seq(FSyncGroup) /\ GroupsKept(c)
  BY DEF TypeOK, ManagerTypeOK, GroupsKept, TakeError, ReturnErr
<1>manager. ManagerTypeOK'
  BY <1>groups DEF TypeOK, ManagerTypeOK, TakeError, ReturnErr, manager
<1>same. UNCHANGED <<in_progress_group, batch>>
  BY DEF TakeError, own
<1>lsn. lsn' \in [Committer -> 0 .. MaxLsn]
  BY SizeAssumption DEF TypeOK, ThreadTypeOK, TakeError, ReturnErr, Forget, own
<1>target_lsn. target_lsn' \in [Committer -> 0 .. MaxLsn]
  BY SizeAssumption DEF TypeOK, ThreadTypeOK, TakeError, ReturnErr, Forget, own
<1>my_group. my_group' \in [Committer -> Nat]
  BY DEF TypeOK, ThreadTypeOK, TakeError, ReturnErr, Forget, own
<1>result. result' \in [Committer -> -1 .. MaxLsn + 1]
  BY SizeAssumption DEF TypeOK, ThreadTypeOK, TakeError, ReturnErr, Forget
<1>others. Others(c)
  BY <1>same DEF TypeOK, ThreadTypeOK, Others, TakeError, ReturnErr, Forget, GoTo
<1>len. Len(groups) \in Nat /\ Len(groups') \in Nat /\ Len(groups') >= Len(groups)
  BY <1>groups DEF GroupsKept, TypeOK, ManagerTypeOK
<1>effect. /\ (pc'[c] = "idle" /\ my_group'[c] = 0) \/ (pc'[c] = "result" /\ lsn'[c] = lsn[c] /\ my_group'[c] = my_group[c])
           /\ in_progress_group'[c] = in_progress_group[c]
  BY DEF TypeOK, ThreadTypeOK, TakeError, ReturnErr, Forget, GoTo, own
<1>ref. GroupRef(c)'
  BY <1>call, <1>group, <1>effect, <1>groups, <1>len, <1>same, <1>lsn, <1>my_group
    DEF TypeOK, ThreadTypeOK, ManagerTypeOK, GroupInv, GroupRef, InGroup, Leading, WaitPcs,
        StatusPcs
<1>refs. GroupInv'
  BY <1>groups, <1>ref, <1>others, <1>same, <1>lsn, <1>my_group, <1>len, GroupStep
    DEF TypeOK, ThreadTypeOK
<1> QED BY <1>pc, <1>log, <1>groups, <1>manager, <1>same, <1>lsn, <1>target_lsn,
           <1>my_group, <1>result, <1>others, <1>refs DEF TypeOK, ThreadTypeOK

\* Piggyback: types, group references, and its effect on threads and groups.
LEMMA PiggybackTypes ==
  ASSUME TypeOK, GroupInv, NEW c \in Committer, Piggyback(c)
  PROVE  TypeOK' /\ GroupInv' /\ Others(c) /\ GroupsKept(c)
<1>call. lsn[c] \in 1 .. MaxLsn
  BY CallTypes DEF Piggyback
<1>group. my_group[c] \in 1 .. Len(groups) /\ groups[my_group[c]] \in FSyncGroup
  BY WaiterTypes DEF Piggyback, InGroup, WaitPcs, StatusPcs
<1>pc. pc' \in [Committer -> Pcs]
  BY SwitchAssumption DEF TypeOK, ThreadTypeOK, Piggyback, ReturnOk, advance_watermark_max,
     Max2, Acknowledge, Forget, GoTo, Pcs, WaitPcs, StatusPcs, WorkPcs
<1>log. LogTypeOK'
  BY <1>call, <1>group, SetTypes, SizeAssumption DEF TypeOK, LogTypeOK, FSyncGroup, Failed,
     Piggyback, ReturnOk, advance_watermark_max, Max2, Acknowledge, log_vars
<1>groups. groups' \in Seq(FSyncGroup) /\ GroupsKept(c)
  BY DEF TypeOK, ManagerTypeOK, GroupsKept, Piggyback, ReturnOk
<1>manager. ManagerTypeOK'
  BY <1>groups DEF TypeOK, ManagerTypeOK, Piggyback, ReturnOk, manager
<1>same. UNCHANGED <<in_progress_group, batch>>
  BY DEF Piggyback, own
<1>own. /\ lsn' \in [Committer -> 0 .. MaxLsn] /\ target_lsn' \in [Committer -> 0 .. MaxLsn]
       /\ my_group' \in [Committer -> Nat] /\ result' \in [Committer -> -1 .. MaxLsn + 1]
       /\ my_group'[c] = 0 /\ lsn'[c] = 0
  BY ForgetTypes DEF TypeOK, Piggyback, ReturnOk
<1>others. Others(c)
  BY <1>same DEF TypeOK, ThreadTypeOK, Others, Piggyback, ReturnOk, advance_watermark_max,
     Max2, Acknowledge, Forget, GoTo
<1>len. Len(groups) \in Nat /\ Len(groups') \in Nat /\ Len(groups') >= Len(groups)
  BY <1>groups DEF GroupsKept, TypeOK, ManagerTypeOK
<1>ref. GroupRef(c)'
  BY <1>call, <1>group, <1>groups, <1>len, <1>same, <1>own DEF TypeOK, ThreadTypeOK,
     ManagerTypeOK, LogTypeOK, GroupInv, GroupRef, InGroup, Leading, WaitPcs, StatusPcs,
     Piggyback, ReturnOk, advance_watermark_max, Max2, Acknowledge, Forget, GoTo, own,
     manager
<1>refs. GroupInv'
  BY <1>groups, <1>ref, <1>others, <1>same, <1>own, <1>len, GroupStep DEF TypeOK,
     ThreadTypeOK
<1> QED BY <1>pc, <1>log, <1>groups, <1>manager, <1>same, <1>own, <1>others, <1>refs
  DEF TypeOK, ThreadTypeOK

\* handoff_leader: types, group references, and its effect on threads and groups.
LEMMA handoff_leaderTypes ==
  ASSUME TypeOK, GroupInv, NEW c \in Committer, handoff_leader(c)
  PROVE  TypeOK' /\ GroupInv' /\ Others(c) /\ GroupsKept(c)
<1>call. lsn[c] \in 1 .. MaxLsn
  BY CallTypes DEF handoff_leader
<1>group. my_group[c] \in 1 .. Len(groups) /\ groups[my_group[c]] \in FSyncGroup
  BY WaiterTypes DEF handoff_leader, InGroup, WaitPcs, StatusPcs
<1>pc. pc' \in [Committer -> Pcs]
  BY SwitchAssumption DEF TypeOK, ThreadTypeOK, handoff_leader, SetGroup, notify_one,
     Notify, ParkedIn, advance_watermark_max, Max2, Acknowledge, Forget, GoTo, Pcs,
     WaitPcs, StatusPcs, WorkPcs
<1>log. LogTypeOK'
  BY <1>call, <1>group, SetTypes, SizeAssumption DEF TypeOK, LogTypeOK, FSyncGroup, Failed,
     handoff_leader, advance_watermark_max, Max2, Acknowledge, log_vars
<1>set. my_group[c] \in 1 .. Len(groups) /\ [groups[my_group[c]] EXCEPT !.leader_exists = FALSE, !.leader_notified = TRUE] \in FSyncGroup
  BY <1>group, SizeAssumption DEF FSyncGroup
<1>groups. groups' \in Seq(FSyncGroup) /\ GroupsKept(c)
  <2> DEFINE r == [groups[my_group[c]] EXCEPT !.leader_exists = FALSE,
           !.leader_notified = TRUE]
  <2>1. groups[my_group[c]] \in FSyncGroup
    BY <1>set DEF TypeOK, ManagerTypeOK
  <2>2. /\ r.work_done_atomic = groups[my_group[c]].work_done_atomic
        /\ r.work_done = groups[my_group[c]].work_done
        /\ r.error = groups[my_group[c]].error
        /\ r.result_lsn = groups[my_group[c]].result_lsn
    BY <2>1 DEF FSyncGroup
  <2>3. groups' = groups \/ SetGroup(my_group[c], r)
    BY DEF handoff_leader
  <2>4. r \in FSyncGroup
    BY <1>set
  <2> HIDE DEF r
  <2> QED BY <1>set, <2>2, <2>3, <2>4, GroupSet DEF GroupsKept, TypeOK, ManagerTypeOK
<1>manager. ManagerTypeOK'
  BY <1>groups DEF TypeOK, ManagerTypeOK, handoff_leader, manager
<1>same. UNCHANGED <<in_progress_group, batch>>
  BY DEF handoff_leader, own
<1>own. /\ lsn' \in [Committer -> 0 .. MaxLsn] /\ target_lsn' \in [Committer -> 0 .. MaxLsn]
       /\ my_group' \in [Committer -> Nat] /\ result' \in [Committer -> -1 .. MaxLsn + 1]
       /\ my_group'[c] = 0 /\ lsn'[c] = 0
  BY ForgetTypes DEF TypeOK, handoff_leader
<1>others. Others(c)
  BY <1>same DEF TypeOK, ThreadTypeOK, Others, handoff_leader, SetGroup, notify_one,
     Notify, ParkedIn, advance_watermark_max, Max2, Acknowledge, Forget, GoTo
<1>len. Len(groups) \in Nat /\ Len(groups') \in Nat /\ Len(groups') >= Len(groups)
  BY <1>groups DEF GroupsKept, TypeOK, ManagerTypeOK
<1>effect. /\ pc'[c] = "idle"
  BY DEF TypeOK, ThreadTypeOK, handoff_leader, SetGroup, notify_one, Notify, ParkedIn,
     advance_watermark_max, Max2, Acknowledge, Forget, GoTo, own
<1>ref. GroupRef(c)'
  BY <1>call, <1>group, <1>effect, <1>groups, <1>len, <1>same, <1>own DEF TypeOK,
     ThreadTypeOK, ManagerTypeOK, GroupInv, GroupRef, InGroup, Leading, WaitPcs, StatusPcs
<1>refs. GroupInv'
  BY <1>groups, <1>ref, <1>others, <1>same, <1>own, <1>len, GroupStep DEF TypeOK,
     ThreadTypeOK
<1> QED BY <1>pc, <1>log, <1>groups, <1>manager, <1>same, <1>own, <1>others, <1>refs
  DEF TypeOK, ThreadTypeOK

\* NotCovered: types, group references, and its effect on threads and groups.
LEMMA NotCoveredTypes ==
  ASSUME TypeOK, GroupInv, NEW c \in Committer, NotCovered(c)
  PROVE  TypeOK' /\ GroupInv' /\ Others(c) /\ GroupsKept(c)
<1>call. lsn[c] \in 1 .. MaxLsn
  BY CallTypes DEF NotCovered
<1>group. my_group[c] \in 1 .. Len(groups) /\ groups[my_group[c]] \in FSyncGroup
  BY WaiterTypes DEF NotCovered, InGroup, WaitPcs, StatusPcs
<1>pc. pc' \in [Committer -> Pcs]
  BY SwitchAssumption DEF TypeOK, ThreadTypeOK, NotCovered, UnchangedLog, GoTo, Pcs,
     WaitPcs, StatusPcs, WorkPcs
<1>log. LogTypeOK'
  BY <1>call, <1>group, SetTypes, SizeAssumption DEF TypeOK, LogTypeOK, FSyncGroup, Failed,
     NotCovered, UnchangedLog, log_vars
<1>groups. groups' \in Seq(FSyncGroup) /\ GroupsKept(c)
  BY DEF TypeOK, ManagerTypeOK, GroupsKept, NotCovered
<1>manager. ManagerTypeOK'
  BY <1>groups DEF TypeOK, ManagerTypeOK, NotCovered, manager
<1>same. UNCHANGED <<lsn, target_lsn, in_progress_group, result, batch>>
  BY DEF NotCovered, own
<1>my_group. my_group' \in [Committer -> Nat]
  BY DEF TypeOK, ThreadTypeOK, NotCovered, own
<1>others. Others(c)
  BY <1>same DEF TypeOK, ThreadTypeOK, Others, NotCovered, UnchangedLog, GoTo
<1>len. Len(groups) \in Nat /\ Len(groups') \in Nat /\ Len(groups') >= Len(groups)
  BY <1>groups DEF GroupsKept, TypeOK, ManagerTypeOK
<1>effect. /\ (pc'[c] = "lead" /\ my_group'[c] = my_group[c]) \/ (pc'[c] = "drain" /\ my_group'[c] = 0)
           /\ lsn'[c] = lsn[c]
           /\ in_progress_group'[c] = in_progress_group[c]
  BY DEF TypeOK, ThreadTypeOK, NotCovered, UnchangedLog, GoTo, own
<1>ref. GroupRef(c)'
  BY <1>call, <1>group, <1>effect, <1>groups, <1>len, <1>same, <1>my_group DEF TypeOK,
     ThreadTypeOK, ManagerTypeOK, GroupInv, GroupRef, InGroup, Leading, WaitPcs, StatusPcs
<1>refs. GroupInv'
  BY <1>groups, <1>ref, <1>others, <1>same, <1>my_group, <1>len, GroupStep DEF TypeOK,
     ThreadTypeOK
<1> QED BY <1>pc, <1>log, <1>groups, <1>manager, <1>same, <1>my_group, <1>others, <1>refs
  DEF TypeOK, ThreadTypeOK

\* DoLeaderFsync: types, group references, and its effect on threads and groups.
LEMMA DoLeaderFsyncTypes ==
  ASSUME TypeOK, GroupInv, NEW c \in Committer, DoLeaderFsync(c)
  PROVE  TypeOK' /\ GroupInv' /\ Others(c) /\ GroupsKept(c)
<1>call. lsn[c] \in 1 .. MaxLsn
  BY CallTypes DEF DoLeaderFsync
<1>group. my_group[c] \in 1 .. Len(groups) /\ groups[my_group[c]] \in FSyncGroup
  BY WaiterTypes DEF DoLeaderFsync, InGroup, WaitPcs, StatusPcs
<1>pc. pc' \in [Committer -> Pcs]
  BY SwitchAssumption DEF TypeOK, ThreadTypeOK, DoLeaderFsync, TakeSlot, Capture,
     UnchangedLog, GoTo, Pcs, WaitPcs, StatusPcs, WorkPcs
<1>log. LogTypeOK'
  BY <1>call, <1>group, SetTypes, SizeAssumption DEF TypeOK, LogTypeOK, FSyncGroup, Failed,
     DoLeaderFsync, UnchangedLog, log_vars
<1>groups. groups' \in Seq(FSyncGroup) /\ GroupsKept(c)
  BY GroupAppend DEF TypeOK, ManagerTypeOK, GroupsKept, DoLeaderFsync, TakeSlot, Capture
<1>manager. ManagerTypeOK'
  BY <1>groups DEF TypeOK, ManagerTypeOK, DoLeaderFsync, TakeSlot, Capture, manager
<1>same. UNCHANGED <<lsn, target_lsn, result, batch>>
  BY DEF DoLeaderFsync, own
<1>my_group. my_group' \in [Committer -> Nat]
  BY DEF TypeOK, ThreadTypeOK, DoLeaderFsync, TakeSlot, Capture, own
<1>in_progress_group. in_progress_group' \in [Committer -> Nat]
  BY DEF TypeOK, ThreadTypeOK, DoLeaderFsync, TakeSlot, Capture, own
<1>others. Others(c)
  BY <1>same DEF TypeOK, ThreadTypeOK, Others, DoLeaderFsync, TakeSlot, Capture,
     UnchangedLog, GoTo
<1>len. Len(groups) \in Nat /\ Len(groups') \in Nat /\ Len(groups') >= Len(groups)
  BY <1>groups DEF GroupsKept, TypeOK, ManagerTypeOK
<1>effect. /\ \/ pc'[c] = "drain" /\ my_group'[c] = 0 /\ in_progress_group'[c] = my_group[c] /\ Len(groups') = Len(groups) + 1
              \/ pc'[c] = "grpc_wait" /\ my_group'[c] = my_group[c] /\ in_progress_group'[c] = in_progress_group[c]
              \/ pc'[c] = "drain" /\ my_group'[c] = 0 /\ in_progress_group'[c] = in_progress_group[c]
           /\ lsn'[c] = lsn[c]
  <2>0. lsn'[c] = lsn[c]
    BY DEF DoLeaderFsync, TypeOK, ThreadTypeOK
  <2>1. CASE Capture(c, my_group[c])
    <3>1. pc'[c] = "drain" /\ my_group'[c] = 0 /\ in_progress_group'[c] = my_group[c]
      BY <2>1 DEF Capture, GoTo, TypeOK, ThreadTypeOK
    <3>2. Len(groups') = Len(groups) + 1
      BY <2>1, GroupAppend DEF Capture, TypeOK, ManagerTypeOK
    <3> QED BY <2>0, <3>1, <3>2
  <2>2. CASE TakeSlot(c, my_group[c]) /\ ~Capture(c, my_group[c])
    <3>1. pc'[c] = "grpc_wait" /\ UNCHANGED <<my_group, in_progress_group>>
      BY <2>2 DEF TakeSlot, GoTo, TypeOK, ThreadTypeOK
    <3> QED BY <2>0, <3>1
  <2>3. CASE ~SlotFree
    BY <2>0, <2>3 DEF DoLeaderFsync, JoinWaiters, next_fsync_waiters, GoTo, TypeOK,
       ThreadTypeOK
  <2> QED BY <2>1, <2>2, <2>3 DEF DoLeaderFsync, next_fsync_waiters
<1>ref. GroupRef(c)'
  BY <1>call, <1>group, <1>effect, <1>groups, <1>len, <1>same, <1>my_group,
     <1>in_progress_group DEF TypeOK, ThreadTypeOK, ManagerTypeOK, GroupInv, GroupRef,
     InGroup, Leading, WaitPcs, StatusPcs
<1>refs. GroupInv'
  BY <1>groups, <1>ref, <1>others, <1>same, <1>my_group, <1>in_progress_group, <1>len,
     GroupStep DEF TypeOK, ThreadTypeOK
<1> QED BY <1>pc, <1>log, <1>groups, <1>manager, <1>same, <1>my_group,
           <1>in_progress_group, <1>others, <1>refs DEF TypeOK, ThreadTypeOK

\* Drain: types, group references, and its effect on threads and groups.
LEMMA DrainTypes ==
  ASSUME TypeOK, GroupInv, NEW c \in Committer, Drain(c)
  PROVE  TypeOK' /\ GroupInv' /\ Others(c) /\ GroupsKept(c)
<1>pc. pc' \in [Committer -> Pcs]
  BY SwitchAssumption DEF TypeOK, ThreadTypeOK, Drain, fill_flush_pending, WorkDone, GoTo,
     Pcs, WaitPcs, StatusPcs, WorkPcs
<1>log. LogTypeOK'
  BY SetTypes, SizeAssumption DEF TypeOK, LogTypeOK, FSyncGroup, Failed, Drain,
     fill_flush_pending, log_vars
<1>groups. groups' \in Seq(FSyncGroup) /\ GroupsKept(c)
  BY DEF TypeOK, ManagerTypeOK, GroupsKept, Drain
<1>manager. ManagerTypeOK'
  BY <1>groups DEF TypeOK, ManagerTypeOK, Drain, manager
<1>same. UNCHANGED <<lsn, target_lsn, my_group, in_progress_group>>
  BY DEF Drain, own
<1>result. result' \in [Committer -> -1 .. MaxLsn + 1]
  BY SizeAssumption DEF TypeOK, ThreadTypeOK, LogTypeOK, Failed, Drain, WorkDone
<1>batch. batch' \in [Committer -> SUBSET (1 .. MaxLsn)]
  BY SetTypes DEF TypeOK, ThreadTypeOK, Drain, fill_flush_pending
<1>others. Others(c)
  BY <1>same DEF TypeOK, ThreadTypeOK, Others, Drain, fill_flush_pending, WorkDone, GoTo
<1>len. Len(groups) \in Nat /\ Len(groups') \in Nat /\ Len(groups') >= Len(groups)
  BY <1>groups DEF GroupsKept, TypeOK, ManagerTypeOK
<1>ref. GroupRef(c)'
  BY <1>groups, <1>len, <1>same DEF TypeOK, ThreadTypeOK, ManagerTypeOK, LogTypeOK,
     GroupInv, GroupRef, InGroup, Leading, WaitPcs, StatusPcs, Drain, fill_flush_pending,
     WorkDone, GoTo, own, manager
<1>refs. GroupInv'
  BY <1>groups, <1>ref, <1>others, <1>same, <1>len, GroupStep DEF TypeOK, ThreadTypeOK
<1> QED BY <1>pc, <1>log, <1>groups, <1>manager, <1>same, <1>result, <1>batch, <1>others,
           <1>refs DEF TypeOK, ThreadTypeOK

\* Pwrite: types, group references, and its effect on threads and groups.
LEMMA PwriteTypes ==
  ASSUME TypeOK, GroupInv, NEW c \in Committer, Pwrite(c)
  PROVE  TypeOK' /\ GroupInv' /\ Others(c) /\ GroupsKept(c)
<1>pc. pc' \in [Committer -> Pcs]
  BY SwitchAssumption DEF TypeOK, ThreadTypeOK, Pwrite, Pwritten, PwriteFailed, WorkDone,
     GoTo, Pcs, WaitPcs, StatusPcs, WorkPcs
<1>log. LogTypeOK'
  BY SetTypes, SizeAssumption DEF TypeOK, LogTypeOK, FSyncGroup, Failed, Pwrite, Pwritten,
     PwriteFailed, log_vars, ThreadTypeOK
<1>groups. groups' \in Seq(FSyncGroup) /\ GroupsKept(c)
  BY DEF TypeOK, ManagerTypeOK, GroupsKept, Pwrite
<1>manager. ManagerTypeOK'
  BY <1>groups DEF TypeOK, ManagerTypeOK, Pwrite, manager
<1>same. UNCHANGED <<lsn, target_lsn, my_group, in_progress_group>>
  BY DEF Pwrite, own
<1>result. result' \in [Committer -> -1 .. MaxLsn + 1]
  BY SizeAssumption DEF TypeOK, ThreadTypeOK, LogTypeOK, Failed, Pwrite, WorkDone
<1>batch. batch' \in [Committer -> SUBSET (1 .. MaxLsn)]
  BY SetTypes DEF TypeOK, ThreadTypeOK, Pwrite, Pwritten, PwriteFailed
<1>others. Others(c)
  BY <1>same DEF TypeOK, ThreadTypeOK, Others, Pwrite, Pwritten, PwriteFailed, WorkDone,
     GoTo
<1>len. Len(groups) \in Nat /\ Len(groups') \in Nat /\ Len(groups') >= Len(groups)
  BY <1>groups DEF GroupsKept, TypeOK, ManagerTypeOK
<1>ref. GroupRef(c)'
  BY <1>groups, <1>len, <1>same DEF TypeOK, ThreadTypeOK, ManagerTypeOK, LogTypeOK,
     GroupInv, GroupRef, InGroup, Leading, WaitPcs, StatusPcs, Pwrite, Pwritten,
     PwriteFailed, WorkDone, GoTo, own, manager
<1>refs. GroupInv'
  BY <1>groups, <1>ref, <1>others, <1>same, <1>len, GroupStep DEF TypeOK, ThreadTypeOK
<1> QED BY <1>pc, <1>log, <1>groups, <1>manager, <1>same, <1>result, <1>batch, <1>others,
           <1>refs DEF TypeOK, ThreadTypeOK

\* sync_log_end: types, group references, and its effect on threads and groups.
LEMMA sync_log_endTypes ==
  ASSUME TypeOK, GroupInv, NEW c \in Committer, sync_log_end(c)
  PROVE  TypeOK' /\ GroupInv' /\ Others(c) /\ GroupsKept(c)
<1>pc. pc' \in [Committer -> Pcs]
  BY SwitchAssumption DEF TypeOK, ThreadTypeOK, sync_log_end, UnchangedLog, GoTo, Pcs,
     WaitPcs, StatusPcs, WorkPcs
<1>log. LogTypeOK'
  BY SetTypes, SizeAssumption DEF TypeOK, LogTypeOK, FSyncGroup, Failed, sync_log_end,
     UnchangedLog, log_vars
<1>groups. groups' \in Seq(FSyncGroup) /\ GroupsKept(c)
  BY DEF TypeOK, ManagerTypeOK, GroupsKept, sync_log_end
<1>manager. ManagerTypeOK'
  BY <1>groups DEF TypeOK, ManagerTypeOK, sync_log_end, manager
<1>same. UNCHANGED <<lsn, target_lsn, my_group, in_progress_group, result>>
  BY DEF sync_log_end, own
<1>batch. batch' \in [Committer -> SUBSET (1 .. MaxLsn)]
  BY SetTypes DEF TypeOK, ThreadTypeOK, LogTypeOK, sync_log_end
<1>others. Others(c)
  BY <1>same DEF TypeOK, ThreadTypeOK, Others, sync_log_end, UnchangedLog, GoTo
<1>len. Len(groups) \in Nat /\ Len(groups') \in Nat /\ Len(groups') >= Len(groups)
  BY <1>groups DEF GroupsKept, TypeOK, ManagerTypeOK
<1>ref. GroupRef(c)'
  BY <1>groups, <1>len, <1>same DEF TypeOK, ThreadTypeOK, ManagerTypeOK, LogTypeOK,
     GroupInv, GroupRef, InGroup, Leading, WaitPcs, StatusPcs, sync_log_end, UnchangedLog,
     GoTo, own, manager
<1>refs. GroupInv'
  BY <1>groups, <1>ref, <1>others, <1>same, <1>len, GroupStep DEF TypeOK, ThreadTypeOK
<1> QED BY <1>pc, <1>log, <1>groups, <1>manager, <1>same, <1>batch, <1>others, <1>refs
  DEF TypeOK, ThreadTypeOK

\* Fdatasync: types, group references, and its effect on threads and groups.
LEMMA FdatasyncTypes ==
  ASSUME TypeOK, GroupInv, NEW c \in Committer, Fdatasync(c)
  PROVE  TypeOK' /\ GroupInv' /\ Others(c) /\ GroupsKept(c)
<1>pc. pc' \in [Committer -> Pcs]
  BY SwitchAssumption DEF TypeOK, ThreadTypeOK, Fdatasync, WorkDone, GoTo, Pcs, WaitPcs,
     StatusPcs, WorkPcs
<1>log. LogTypeOK'
  BY SetTypes, SizeAssumption DEF TypeOK, LogTypeOK, FSyncGroup, Failed, Fdatasync,
     log_vars, ThreadTypeOK
<1>groups. groups' \in Seq(FSyncGroup) /\ GroupsKept(c)
  BY DEF TypeOK, ManagerTypeOK, GroupsKept, Fdatasync
<1>manager. ManagerTypeOK'
  BY <1>groups DEF TypeOK, ManagerTypeOK, Fdatasync, manager
<1>same. UNCHANGED <<lsn, target_lsn, my_group, in_progress_group>>
  BY DEF Fdatasync, own
<1>result. result' \in [Committer -> -1 .. MaxLsn + 1]
  BY SizeAssumption DEF TypeOK, ThreadTypeOK, LogTypeOK, Failed, Fdatasync, WorkDone
<1>batch. batch' \in [Committer -> SUBSET (1 .. MaxLsn)]
  BY SetTypes DEF TypeOK, ThreadTypeOK, Fdatasync
<1>others. Others(c)
  BY <1>same DEF TypeOK, ThreadTypeOK, Others, Fdatasync, WorkDone, GoTo
<1>len. Len(groups) \in Nat /\ Len(groups') \in Nat /\ Len(groups') >= Len(groups)
  BY <1>groups DEF GroupsKept, TypeOK, ManagerTypeOK
<1>ref. GroupRef(c)'
  BY <1>groups, <1>len, <1>same DEF TypeOK, ThreadTypeOK, ManagerTypeOK, LogTypeOK,
     GroupInv, GroupRef, InGroup, Leading, WaitPcs, StatusPcs, Fdatasync, WorkDone, GoTo,
     own, manager
<1>refs. GroupInv'
  BY <1>groups, <1>ref, <1>others, <1>same, <1>len, GroupStep DEF TypeOK, ThreadTypeOK
<1> QED BY <1>pc, <1>log, <1>groups, <1>manager, <1>same, <1>result, <1>batch, <1>others,
           <1>refs DEF TypeOK, ThreadTypeOK

\* wakeup_all: types, group references, and its effect on threads and groups.
LEMMA wakeup_allTypes ==
  ASSUME TypeOK, GroupInv, NEW c \in Committer, wakeup_all(c)
  PROVE  TypeOK' /\ GroupInv' /\ Others(c) /\ GroupsKept(c)
<1>group. /\ in_progress_group[c] \in 1 .. Len(groups)
          /\ in_progress_group[c] < Len(groups)
          /\ groups[in_progress_group[c]] \in FSyncGroup
  BY LeaderTypes DEF wakeup_all, Leading
<1>pc. pc' \in [Committer -> Pcs]
  BY SwitchAssumption DEF TypeOK, ThreadTypeOK, wakeup_all, SetGroup, UnchangedLog, GoTo,
     Pcs, WaitPcs, StatusPcs, WorkPcs
<1>log. LogTypeOK'
  BY <1>group, SetTypes, SizeAssumption DEF TypeOK, LogTypeOK, FSyncGroup, Failed,
     wakeup_all, UnchangedLog, log_vars
<1>set. in_progress_group[c] \in 1 .. Len(groups) /\ [groups[in_progress_group[c]] EXCEPT !.work_done_atomic = TRUE] \in FSyncGroup
  BY <1>group, SizeAssumption DEF FSyncGroup
<1>groups. groups' \in Seq(FSyncGroup) /\ GroupsKept(c)
  <2> DEFINE r == [groups[in_progress_group[c]] EXCEPT !.work_done_atomic = TRUE]
  <2>1. groups[in_progress_group[c]] \in FSyncGroup
    BY <1>set DEF TypeOK, ManagerTypeOK
  <2>2. /\ r.work_done_atomic = TRUE
        /\ r.work_done = groups[in_progress_group[c]].work_done
        /\ r.error = groups[in_progress_group[c]].error
        /\ r.result_lsn = groups[in_progress_group[c]].result_lsn
    BY <2>1 DEF FSyncGroup
  <2>3. groups' = groups \/ SetGroup(in_progress_group[c], r)
    BY DEF wakeup_all
  <2>4. r \in FSyncGroup
    BY <1>set
  <2> HIDE DEF r
  <2> QED BY <1>set, <2>2, <2>3, <2>4, GroupSet DEF GroupsKept, TypeOK, ManagerTypeOK,
             wakeup_all
<1>manager. ManagerTypeOK'
  BY <1>groups DEF TypeOK, ManagerTypeOK, wakeup_all, manager
<1>same. UNCHANGED <<lsn, target_lsn, my_group, in_progress_group, result, batch>>
  BY DEF wakeup_all, own
<1>others. Others(c)
  BY <1>same DEF TypeOK, ThreadTypeOK, Others, wakeup_all, SetGroup, UnchangedLog, GoTo
<1>len. Len(groups) \in Nat /\ Len(groups') \in Nat /\ Len(groups') >= Len(groups)
  BY <1>groups DEF GroupsKept, TypeOK, ManagerTypeOK
<1>ref. GroupRef(c)'
  BY <1>group, <1>groups, <1>len, <1>same DEF TypeOK, ThreadTypeOK, ManagerTypeOK,
     LogTypeOK, GroupInv, GroupRef, InGroup, Leading, WaitPcs, StatusPcs, wakeup_all,
     SetGroup, UnchangedLog, GoTo, own, manager
<1>refs. GroupInv'
  BY <1>groups, <1>ref, <1>others, <1>same, <1>len, GroupStep DEF TypeOK, ThreadTypeOK
<1> QED BY <1>pc, <1>log, <1>groups, <1>manager, <1>same, <1>others, <1>refs DEF TypeOK,
           ThreadTypeOK

\* WakeupInner: types, group references, and its effect on threads and groups.
LEMMA WakeupInnerTypes ==
  ASSUME TypeOK, GroupInv, NEW c \in Committer, WakeupInner(c)
  PROVE  TypeOK' /\ GroupInv' /\ Others(c) /\ GroupsKept(c)
<1>group. /\ in_progress_group[c] \in 1 .. Len(groups)
          /\ in_progress_group[c] < Len(groups)
          /\ groups[in_progress_group[c]] \in FSyncGroup
  BY LeaderTypes DEF WakeupInner, Leading
<1>pc. pc' \in [Committer -> Pcs]
  BY SwitchAssumption DEF TypeOK, ThreadTypeOK, WakeupInner, SetGroup, Notify, ParkedIn,
     UnchangedLog, GoTo, Pcs, WaitPcs, StatusPcs, WorkPcs
<1>log. LogTypeOK'
  BY <1>group, SetTypes, SizeAssumption DEF TypeOK, LogTypeOK, FSyncGroup, Failed,
     WakeupInner, UnchangedLog, log_vars
<1>set. in_progress_group[c] \in 1 .. Len(groups) /\ [groups[in_progress_group[c]] EXCEPT !.work_done = TRUE, !.error = (result[c] = Failed), !.result_lsn = IF result[c] = Failed THEN @ ELSE result[c]] \in FSyncGroup
  <2>1. result[c] \in -1 .. MaxLsn + 1
    BY DEF TypeOK, ThreadTypeOK
  <2>2. (IF result[c] = Failed THEN groups[in_progress_group[c]].result_lsn ELSE result[c]) \in 0 .. MaxLsn + 1
    BY <1>group, <2>1 DEF FSyncGroup, Failed
  <2> QED BY <1>group, <2>2 DEF FSyncGroup
<1>groups. groups' \in Seq(FSyncGroup) /\ GroupsKept(c)
  <2> DEFINE r == [groups[in_progress_group[c]] EXCEPT !.work_done = TRUE,
           !.error = (result[c] = Failed),
           !.result_lsn = IF result[c] = Failed THEN @ ELSE result[c]]
  <2>1. groups[in_progress_group[c]] \in FSyncGroup
    BY <1>set DEF TypeOK, ManagerTypeOK
  <2>2. /\ r.work_done_atomic = groups[in_progress_group[c]].work_done_atomic
        /\ r.work_done = TRUE
        /\ r.error = (result[c] = Failed)
        /\ r.result_lsn = (IF result[c] = Failed THEN groups[in_progress_group[c]].result_lsn ELSE result[c])
    BY <2>1 DEF FSyncGroup
  <2>3. groups' = groups \/ SetGroup(in_progress_group[c], r)
    BY DEF WakeupInner
  <2>4. r \in FSyncGroup
    BY <1>set
  <2> HIDE DEF r
  <2> QED BY <1>set, <2>2, <2>3, <2>4, GroupSet DEF GroupsKept, TypeOK, ManagerTypeOK,
             WakeupInner
<1>manager. ManagerTypeOK'
  BY <1>groups DEF TypeOK, ManagerTypeOK, WakeupInner, manager
<1>same. UNCHANGED <<lsn, target_lsn, my_group, in_progress_group, result, batch>>
  BY DEF WakeupInner, own
<1>others. Others(c)
  BY <1>same DEF TypeOK, ThreadTypeOK, Others, WakeupInner, SetGroup, Notify, ParkedIn,
     UnchangedLog, GoTo
<1>len. Len(groups) \in Nat /\ Len(groups') \in Nat /\ Len(groups') >= Len(groups)
  BY <1>groups DEF GroupsKept, TypeOK, ManagerTypeOK
<1>ref. GroupRef(c)'
  BY <1>group, <1>groups, <1>len, <1>same DEF TypeOK, ThreadTypeOK, ManagerTypeOK,
     LogTypeOK, GroupInv, GroupRef, InGroup, Leading, WaitPcs, StatusPcs, WakeupInner,
     SetGroup, Notify, ParkedIn, UnchangedLog, GoTo, own, manager
<1>refs. GroupInv'
  BY <1>groups, <1>ref, <1>others, <1>same, <1>len, GroupStep DEF TypeOK, ThreadTypeOK
<1> QED BY <1>pc, <1>log, <1>groups, <1>manager, <1>same, <1>others, <1>refs DEF TypeOK,
           ThreadTypeOK

\* ReleaseSlot: types, group references, and its effect on threads and groups.
LEMMA ReleaseSlotTypes ==
  ASSUME TypeOK, GroupInv, NEW c \in Committer, ReleaseSlot(c)
  PROVE  TypeOK' /\ GroupInv' /\ Others(c) /\ GroupsKept(c)
<1>pc. pc' \in [Committer -> Pcs]
  BY SwitchAssumption DEF TypeOK, ThreadTypeOK, ReleaseSlot, SetGroup, notify_one, Notify,
     ParkedIn, next_fsync_waiters, UnchangedLog, GoTo, Pcs, WaitPcs, StatusPcs, WorkPcs
<1>log. LogTypeOK'
  BY SetTypes, SizeAssumption DEF TypeOK, LogTypeOK, FSyncGroup, Failed, ReleaseSlot,
     UnchangedLog, log_vars
<1>set. Len(groups) \in 1 .. Len(groups) /\ [groups[Len(groups)] EXCEPT !.leader_notified = @ \/ ~groups[Len(groups)].leader_exists] \in FSyncGroup
  <2>1. Len(groups) \in 1 .. Len(groups) /\ groups[Len(groups)] \in FSyncGroup
    BY DEF TypeOK, ManagerTypeOK, GroupInv
  <2> QED BY <2>1 DEF FSyncGroup
<1>groups. groups' \in Seq(FSyncGroup) /\ GroupsKept(c)
  <2> DEFINE r == [groups[Len(groups)] EXCEPT !.leader_notified = @ \/ ~groups[Len(groups)].leader_exists]
  <2>1. groups[Len(groups)] \in FSyncGroup
    BY <1>set DEF TypeOK, ManagerTypeOK
  <2>2. /\ r.work_done_atomic = groups[Len(groups)].work_done_atomic
        /\ r.work_done = groups[Len(groups)].work_done
        /\ r.error = groups[Len(groups)].error
        /\ r.result_lsn = groups[Len(groups)].result_lsn
    BY <2>1 DEF FSyncGroup
  <2>3. groups' = groups \/ SetGroup(Len(groups), r)
    BY DEF ReleaseSlot, next_fsync_waiters
  <2>4. r \in FSyncGroup
    BY <1>set
  <2> HIDE DEF r
  <2> QED BY <1>set, <2>2, <2>3, <2>4, GroupSet DEF GroupsKept, TypeOK, ManagerTypeOK
<1>manager. ManagerTypeOK'
  BY <1>groups DEF TypeOK, ManagerTypeOK, ReleaseSlot, manager
<1>same. UNCHANGED <<lsn, target_lsn, my_group, result, batch>>
  BY DEF ReleaseSlot, own
<1>in_progress_group. in_progress_group' \in [Committer -> Nat]
  BY DEF TypeOK, ThreadTypeOK, ReleaseSlot, next_fsync_waiters, own
<1>others. Others(c)
  BY <1>same DEF TypeOK, ThreadTypeOK, Others, ReleaseSlot, SetGroup, notify_one, Notify,
     ParkedIn, next_fsync_waiters, UnchangedLog, GoTo
<1>len. Len(groups) \in Nat /\ Len(groups') \in Nat /\ Len(groups') >= Len(groups)
  BY <1>groups DEF GroupsKept, TypeOK, ManagerTypeOK
<1>ref. GroupRef(c)'
  BY <1>groups, <1>len, <1>same, <1>in_progress_group DEF TypeOK, ThreadTypeOK,
     ManagerTypeOK, LogTypeOK, GroupInv, GroupRef, InGroup, Leading, WaitPcs, StatusPcs,
     ReleaseSlot, SetGroup, notify_one, Notify, ParkedIn, next_fsync_waiters, UnchangedLog,
     GoTo, own, manager
<1>refs. GroupInv'
  BY <1>groups, <1>ref, <1>others, <1>same, <1>in_progress_group, <1>len, GroupStep
    DEF TypeOK, ThreadTypeOK
<1> QED BY <1>pc, <1>log, <1>groups, <1>manager, <1>same, <1>in_progress_group, <1>others,
           <1>refs DEF TypeOK, ThreadTypeOK

\* Return: types, group references, and its effect on threads and groups.
LEMMA ReturnTypes ==
  ASSUME TypeOK, GroupInv, NEW c \in Committer, Return(c)
  PROVE  TypeOK' /\ GroupInv' /\ Others(c) /\ GroupsKept(c)
<1>call. lsn[c] \in 1 .. MaxLsn
  BY CallTypes DEF Return
<1>pc. pc' \in [Committer -> Pcs]
  BY SwitchAssumption DEF TypeOK, ThreadTypeOK, Return, ReturnErr, ReturnOk,
     advance_watermark_max, Max2, Acknowledge, Forget, GoTo, Pcs, WaitPcs, StatusPcs,
     WorkPcs
<1>log. LogTypeOK'
  <2>1. CASE result[c] = Failed
    BY <2>1 DEF TypeOK, LogTypeOK, Return, ReturnErr, log_vars
  <2>2. CASE result[c] # Failed
    <3>1. result[c] \in 0 .. MaxLsn + 1
      BY <2>2 DEF TypeOK, ThreadTypeOK, Failed
    <3> QED BY <1>call, <2>2, <3>1 DEF TypeOK, LogTypeOK, Return, ReturnOk,
               advance_watermark_max, Max2,
                                Acknowledge, log_vars
  <2> QED BY <2>1, <2>2
<1>groups. groups' \in Seq(FSyncGroup) /\ GroupsKept(c)
  BY DEF TypeOK, ManagerTypeOK, GroupsKept, Return, ReturnErr, ReturnOk
<1>manager. ManagerTypeOK'
  BY <1>groups DEF TypeOK, ManagerTypeOK, Return, ReturnErr, ReturnOk, manager
<1>same. UNCHANGED <<in_progress_group, batch>>
  BY DEF Return, own
<1>own. /\ lsn' \in [Committer -> 0 .. MaxLsn] /\ target_lsn' \in [Committer -> 0 .. MaxLsn]
       /\ my_group' \in [Committer -> Nat] /\ result' \in [Committer -> -1 .. MaxLsn + 1]
       /\ my_group'[c] = 0 /\ lsn'[c] = 0
  BY ForgetTypes DEF TypeOK, Return, ReturnOk, ReturnErr
<1>others. Others(c)
  BY <1>same DEF TypeOK, ThreadTypeOK, Others, Return, ReturnErr, ReturnOk,
     advance_watermark_max, Max2, Acknowledge, Forget, GoTo
<1>len. Len(groups) \in Nat /\ Len(groups') \in Nat /\ Len(groups') >= Len(groups)
  BY <1>groups DEF GroupsKept, TypeOK, ManagerTypeOK
<1>effect. /\ pc'[c] = "idle" /\ my_group'[c] = 0
           /\ in_progress_group'[c] = in_progress_group[c]
  BY DEF TypeOK, ThreadTypeOK, Return, ReturnErr, ReturnOk, advance_watermark_max, Max2,
     Acknowledge, Forget, GoTo, own
<1>ref. GroupRef(c)'
  BY <1>call, <1>effect, <1>groups, <1>len, <1>same, <1>own DEF TypeOK, ThreadTypeOK,
     ManagerTypeOK, GroupInv, GroupRef, InGroup, Leading, WaitPcs, StatusPcs
<1>refs. GroupInv'
  BY <1>groups, <1>ref, <1>others, <1>same, <1>own, <1>len, GroupStep DEF TypeOK,
     ThreadTypeOK
<1> QED BY <1>pc, <1>log, <1>groups, <1>manager, <1>same, <1>own, <1>others, <1>refs
  DEF TypeOK, ThreadTypeOK

-----------------------------------------------------------------------------
(* Durability: the watermark and the groups promise only what is on disk.  *)

\* Where a thread holds the latch or relies on the page cache.
Settled == {"pwrite", "nosync_pwrite", "sync", "fdatasync"}

\* A step of c that leaves the log alone.
Quiet(c) ==
  /\ UNCHANGED <<log_vars, batch>>
  /\ io_invalid => io_invalid'
  /\ pc[c] \notin Settled /\ pc'[c] \notin Settled
  /\ result'[c] = 0 \/ result'[c] = result[c]
  /\ pc'[c] \in Synced => pc[c] \in Synced /\ result'[c] = result[c]

\* The watermark stays, or moves to an LSN below which everything is durable.
Publishes(c) ==
  \/ UNCHANGED last_synced_lsn
  \/ Below(last_synced_lsn', durable)

\* What groups and watermark promise stays durable.
LEMMA PromiseStep ==
  ASSUME IInv, NEW c \in Committer, GroupsKept(c), TypeOK', GroupInv',
         durable \subseteq durable',
         Publishes(c)
  PROVE  PromiseInv'
<1>1. ASSUME NEW h \in 1 .. Len(groups') PROVE Below(groups'[h].result_lsn, durable')
  <2>1. CASE h > Len(groups) /\ groups'[h] = NewGroup
    BY <2>1 DEF NewGroup, Below
  <2>2. CASE h <= Len(groups) /\ groups'[h].result_lsn = groups[h].result_lsn
    BY <2>2 DEF IInv, PromiseInv, Below, TypeOK, ManagerTypeOK
  <2>3. CASE pc[c] = "wakeup_inner" /\ groups'[h].result_lsn = result[c]
    BY <2>3 DEF IInv, WorkInv, Synced, Leading, Below
  <2> QED BY <2>1, <2>2, <2>3 DEF GroupsKept
<1>2. Below(last_synced_lsn', durable')
  BY DEF Publishes, IInv, PromiseInv, Below
<1> QED BY <1>1, <1>2 DEF PromiseInv

\* A step that leaves the log alone keeps what is known about it.
LEMMA QuietStep ==
  ASSUME IInv, NEW c \in Committer, Others(c), Quiet(c), TypeOK'
  PROVE  LatchInv' /\ FileInv' /\ WorkInv'
<1>1. LatchInv'
  BY CommitterAssumption DEF IInv, LatchInv, Quiet, Others, log_vars, Settled, Below
<1>2. FileInv'
  BY DEF IInv, FileInv, Quiet, log_vars, CurrentFile
<1>3. WorkInv'
  BY DEF IInv, WorkInv, Quiet, Others, log_vars, Settled, Synced, Leading, Below, TypeOK,
     LogTypeOK
<1> QED BY <1>1, <1>2, <1>3

\* The actions of FsyncManager and of flush_sync_to that leave the log alone.
QuietAction(c) ==
  \/ flush_sync_if_needed(c) \/ flush_and_sync(c) \/ grpc_wait(c)
  \/ WaitFastPath(c) \/ WaitArrives(c) \/ WaitReturns(c)
  \/ TakeError(c) \/ Piggyback(c) \/ handoff_leader(c)
  \/ NotCovered(c) \/ DoLeaderFsync(c) \/ wakeup_all(c)
  \/ WakeupInner(c) \/ ReleaseSlot(c) \/ Return(c)

\* The steps of FsyncManager itself leave the log alone, and publish durable LSNs only.
LEMMA QuietActions ==
  ASSUME IInv, NEW c \in Committer, QuietAction(c)
  PROVE  Quiet(c) /\ Publishes(c)
<1>1. CASE flush_sync_if_needed(c)
  <2>1. Quiet(c)
    BY <1>1 DEF IInv, TypeOK, ThreadTypeOK, Quiet, Settled, Synced, Leading,
       flush_sync_if_needed, Acknowledge, Forget, GoTo, own, log_vars
  <2>2. UNCHANGED last_synced_lsn
    BY <1>1 DEF flush_sync_if_needed, Acknowledge, Forget, GoTo
  <2> QED BY <2>1, <2>2 DEF Publishes
<1>2. CASE flush_and_sync(c)
  <2>1. Quiet(c)
    BY <1>2 DEF IInv, TypeOK, ThreadTypeOK, Quiet, Settled, Synced, Leading,
       flush_and_sync, TakeSlot, JoinWaiters, Capture, next_fsync_waiters, GoTo, own,
       log_vars
  <2>2. UNCHANGED last_synced_lsn
    BY <1>2 DEF flush_and_sync, TakeSlot, JoinWaiters, Capture, next_fsync_waiters, GoTo
  <2> QED BY <2>1, <2>2 DEF Publishes
<1>3. CASE grpc_wait(c)
  <2>1. Quiet(c)
    BY <1>3 DEF IInv, TypeOK, ThreadTypeOK, Quiet, Settled, Synced, Leading, grpc_wait,
       Capture, next_fsync_waiters, GoTo, own, log_vars
  <2>2. UNCHANGED last_synced_lsn
    BY <1>3 DEF grpc_wait, Capture, next_fsync_waiters, GoTo
  <2> QED BY <2>1, <2>2 DEF Publishes
<1>4. CASE WaitFastPath(c)
  <2>1. Quiet(c)
    BY <1>4 DEF IInv, TypeOK, ThreadTypeOK, Quiet, Settled, Synced, Leading, WaitFastPath,
       Status, UnchangedLog, GoTo, own, log_vars
  <2>2. UNCHANGED last_synced_lsn
    BY <1>4 DEF WaitFastPath, Status, UnchangedLog, GoTo
  <2> QED BY <2>1, <2>2 DEF Publishes
<1>5. CASE WaitArrives(c)
  <2>1. Quiet(c)
    BY <1>5 DEF IInv, TypeOK, ThreadTypeOK, Quiet, Settled, Synced, Leading, WaitArrives,
       Status, Designated, SetGroup, UnchangedLog, GoTo, own, log_vars
  <2>2. UNCHANGED last_synced_lsn
    BY <1>5 DEF WaitArrives, Status, Designated, SetGroup, UnchangedLog, GoTo
  <2> QED BY <2>1, <2>2 DEF Publishes
<1>6. CASE WaitReturns(c)
  <2>1. Quiet(c)
    BY <1>6 DEF IInv, TypeOK, ThreadTypeOK, Quiet, Settled, Synced, Leading, WaitReturns,
       Status, Designated, SetGroup, UnchangedLog, GoTo, own, log_vars
  <2>2. UNCHANGED last_synced_lsn
    BY <1>6 DEF WaitReturns, Status, Designated, SetGroup, UnchangedLog, GoTo
  <2> QED BY <2>1, <2>2 DEF Publishes
<1>7. CASE TakeError(c)
  <2>1. Quiet(c)
    BY <1>7 DEF IInv, TypeOK, ThreadTypeOK, Quiet, Settled, Synced, Leading, TakeError,
       ReturnErr, Forget, GoTo, own, log_vars
  <2>2. UNCHANGED last_synced_lsn
    BY <1>7 DEF TakeError, ReturnErr, Forget, GoTo
  <2> QED BY <2>1, <2>2 DEF Publishes
<1>8. CASE Piggyback(c)
  <2>1. Quiet(c)
    BY <1>8 DEF IInv, TypeOK, ThreadTypeOK, Quiet, Settled, Synced, Leading, Piggyback,
       ReturnOk, advance_watermark_max, Max2, Acknowledge, Forget, GoTo, own, log_vars
  <2>2. my_group[c] \in 1 .. Len(groups)
    BY <1>8, WaiterTypes DEF IInv, Piggyback, InGroup, StatusPcs
  <2>3. Publishes(c)
    BY <1>8, <2>2 DEF IInv, PromiseInv, Below, Publishes, Piggyback, ReturnOk,
       advance_watermark_max, Max2, Acknowledge, Forget, GoTo
  <2> QED BY <2>1, <2>3
<1>9. CASE handoff_leader(c)
  <2>1. Quiet(c)
    BY <1>9 DEF IInv, TypeOK, ThreadTypeOK, Quiet, Settled, Synced, Leading,
       handoff_leader, SetGroup, notify_one, Notify, ParkedIn, advance_watermark_max, Max2,
       Acknowledge, Forget, GoTo, own, log_vars
  <2>2. Publishes(c)
    BY <1>9 DEF IInv, PromiseInv, Publishes, handoff_leader, advance_watermark_max, Max2
  <2> QED BY <2>1, <2>2
<1>10. CASE NotCovered(c)
  <2>1. Quiet(c)
    BY <1>10 DEF IInv, TypeOK, ThreadTypeOK, Quiet, Settled, Synced, Leading, NotCovered,
       UnchangedLog, GoTo, own, log_vars
  <2>2. UNCHANGED last_synced_lsn
    BY <1>10 DEF NotCovered, UnchangedLog, GoTo
  <2> QED BY <2>1, <2>2 DEF Publishes
<1>11. CASE DoLeaderFsync(c)
  <2>1. Quiet(c)
    BY <1>11 DEF IInv, TypeOK, ThreadTypeOK, Quiet, Settled, Synced, Leading,
       DoLeaderFsync, TakeSlot, Capture, UnchangedLog, GoTo, own, log_vars
  <2>2. UNCHANGED last_synced_lsn
    BY <1>11 DEF DoLeaderFsync, TakeSlot, Capture, UnchangedLog, GoTo
  <2> QED BY <2>1, <2>2 DEF Publishes
<1>12. CASE wakeup_all(c)
  <2>1. Quiet(c)
    BY <1>12 DEF IInv, TypeOK, ThreadTypeOK, Quiet, Settled, Synced, Leading, wakeup_all,
       SetGroup, UnchangedLog, GoTo, own, log_vars
  <2>2. UNCHANGED last_synced_lsn
    BY <1>12 DEF wakeup_all, SetGroup, UnchangedLog, GoTo
  <2> QED BY <2>1, <2>2 DEF Publishes
<1>13. CASE WakeupInner(c)
  <2>1. Quiet(c)
    BY <1>13 DEF IInv, TypeOK, ThreadTypeOK, Quiet, Settled, Synced, Leading, WakeupInner,
       SetGroup, Notify, ParkedIn, UnchangedLog, GoTo, own, log_vars
  <2>2. UNCHANGED last_synced_lsn
    BY <1>13 DEF WakeupInner, SetGroup, Notify, ParkedIn, UnchangedLog, GoTo
  <2> QED BY <2>1, <2>2 DEF Publishes
<1>14. CASE ReleaseSlot(c)
  <2>1. Quiet(c)
    BY <1>14 DEF IInv, TypeOK, ThreadTypeOK, Quiet, Settled, Synced, Leading, ReleaseSlot,
       SetGroup, notify_one, Notify, ParkedIn, next_fsync_waiters, UnchangedLog, GoTo, own,
       log_vars
  <2>2. UNCHANGED last_synced_lsn
    BY <1>14 DEF ReleaseSlot, SetGroup, notify_one, Notify, ParkedIn, next_fsync_waiters,
       UnchangedLog, GoTo
  <2> QED BY <2>1, <2>2 DEF Publishes
<1>15. CASE Return(c)
  <2>1. Quiet(c)
    BY <1>15 DEF IInv, TypeOK, ThreadTypeOK, Quiet, Settled, Synced, Leading, Return,
       ReturnErr, ReturnOk, advance_watermark_max, Max2, Acknowledge, Forget, GoTo, own,
       log_vars
  <2>2. Publishes(c)
    BY <1>15 DEF IInv, PromiseInv, WorkInv, Synced, Below, Publishes, Return, ReturnErr,
       ReturnOk, advance_watermark_max, Max2, Acknowledge, Forget, GoTo
  <2> QED BY <2>1, <2>2
<1> QED BY <1>1, <1>2, <1>3, <1>4, <1>5, <1>6, <1>7, <1>8, <1>9, <1>10, <1>11, <1>12,
           <1>13, <1>14, <1>15 DEF QuietAction

\* Log: the latch, the files and the work in flight.
LEMMA LogDurable ==
  ASSUME IInv, NEW c \in Committer, NEW mode \in Modes, NEW p \in Placements, Log(c, mode,
         p),
         TypeOK', Others(c)
  PROVE  LatchInv' /\ FileInv' /\ WorkInv' /\ durable \subseteq durable'
<1>0. /\ pc'[c] \in {"logged", "enter", "nosync"}
      /\ result' = result /\ batch' = batch
  BY SwitchAssumption DEF Log, Call, GoTo, IInv, TypeOK, ThreadTypeOK
<1>1. LatchInv'
  <2>1. \A d \in Committer : pc'[d] \in {"pwrite", "nosync_pwrite"} <=> lwl' = d
    BY <1>0, CommitterAssumption DEF Log, IInv, LatchInv, Others
  <2>2. flushed_len' <= next_available_lsn'
    BY DEF Log, IInv, LatchInv, TypeOK, LogTypeOK
  <2>3. Below(flushed_len', page_cache')
    BY DEF Log, IInv, LatchInv, TypeOK, LogTypeOK, Below, Unflushed, DrainsFirst
  <2> QED BY <2>1, <2>2, <2>3 DEF LatchInv, Log
<1>2. FileInv'
  BY DEF IInv, TypeOK, LogTypeOK, LatchInv, FileInv, CurrentFile, Flips, DrainsFirst,
     Unflushed,
         DirtyIn, Below, Log
<1>3. WorkInv'
  <2>1. page_cache \subseteq page_cache' /\ durable \subseteq durable'
    BY DEF Log
  <2>2. next_available_lsn' >= next_available_lsn
    BY DEF Log, IInv, TypeOK, LogTypeOK
  <2>3. ASSUME NEW d \in Committer
        PROVE  /\ result'[d] <= next_available_lsn'
               /\ pc'[d] = "sync" => Below(result'[d], page_cache')
               /\ pc'[d] = "fdatasync" => Below(result'[d], durable' \cup batch'[d])
               /\ pc'[d] \in Synced => Below(result'[d], durable')
    BY <1>0, <2>1, <2>2 DEF IInv, WorkInv, Below, Others, Synced, Leading, TypeOK,
       LogTypeOK,
                          ThreadTypeOK
  <2> QED BY <2>3 DEF WorkInv
<1> QED BY <1>1, <1>2, <1>3 DEF Log

\* LogFails: the latch, the files and the work in flight.
LEMMA LogFailsDurable ==
  ASSUME IInv, NoLoss, NEW c \in Committer, NEW p \in Placements, LogFails(c, p), TypeOK',
         Others(c)
  PROVE  LatchInv' /\ FileInv' /\ WorkInv' /\ durable \subseteq durable'
<1>1. LatchInv'
  BY CommitterAssumption DEF IInv, TypeOK, LogTypeOK, ThreadTypeOK, LatchInv, Below,
     Unflushed, LogFails, GoTo, log_vars, own, NoLoss
<1>2. FileInv'
  BY DEF IInv, TypeOK, LogTypeOK, LatchInv, FileInv, CurrentFile, Flips, DrainsFirst,
     Unflushed, DirtyIn, Below, LogFails, GoTo, log_vars, own
<1>3. WorkInv'
  BY DEF IInv, TypeOK, LogTypeOK, ThreadTypeOK, LatchInv, FileInv, WorkInv, DirtyIn, Below,
     Synced, Leading, NoLoss, LogFails, GoTo, log_vars, own, Failed
<1> QED BY <1>1, <1>2, <1>3 DEF LogFails, log_vars, UnchangedLog

\* DirectWriteFails: the latch, the files and the work in flight.
LEMMA DirectWriteFailsDurable ==
  ASSUME IInv, NoLoss, NEW c \in Committer, DirectWriteFails(c), TypeOK', Others(c)
  PROVE  LatchInv' /\ FileInv' /\ WorkInv' /\ durable \subseteq durable'
<1>1. LatchInv'
  BY CommitterAssumption DEF IInv, TypeOK, LogTypeOK, ThreadTypeOK, LatchInv, Below,
     Unflushed, DirectWriteFails, GoTo, log_vars, own, NoLoss
<1>2. FileInv'
  BY DEF IInv, TypeOK, LogTypeOK, LatchInv, FileInv, CurrentFile, Flips, DrainsFirst,
     Unflushed, DirtyIn, Below, DirectWriteFails, GoTo, log_vars, own
<1>3. WorkInv'
  BY DEF IInv, TypeOK, LogTypeOK, ThreadTypeOK, LatchInv, FileInv, WorkInv, DirtyIn, Below,
     Synced, Leading, NoLoss, DirectWriteFails, GoTo, log_vars, own, Failed
<1> QED BY <1>1, <1>2, <1>3 DEF DirectWriteFails, log_vars, UnchangedLog

\* flush_no_sync: the latch, the files and the work in flight.
LEMMA flush_no_syncDurable ==
  ASSUME IInv, NoLoss, NEW c \in Committer, flush_no_sync(c), TypeOK', Others(c)
  PROVE  LatchInv' /\ FileInv' /\ WorkInv' /\ durable \subseteq durable'
<1>1. LatchInv'
  <2>1. CASE io_invalid
    BY <2>1, CommitterAssumption DEF IInv, LatchInv, flush_no_sync, fill_flush_pending,
       GoTo, Others, Below, TypeOK, ThreadTypeOK
  <2>2. CASE ~io_invalid
    <3>1. /\ lwl = 0 /\ lwl' = c /\ flushed_len' = next_available_lsn /\ batch'[c] = Unflushed
          /\ pc'[c] = "nosync_pwrite" /\ UNCHANGED <<next_available_lsn, page_cache>>
      BY <2>2 DEF flush_no_sync, fill_flush_pending, GoTo, IInv, TypeOK, ThreadTypeOK
    <3>2. Below(next_available_lsn, page_cache \cup Unflushed)
      BY <2>2, <3>1 DEF IInv, LatchInv, Below, Unflushed, TypeOK, LogTypeOK
    <3>3. \A d \in Committer : pc'[d] \in {"pwrite", "nosync_pwrite"} <=> lwl' = d
      BY <3>1, CommitterAssumption DEF IInv, LatchInv, Others
    <3> QED BY <3>1, <3>2, <3>3, CommitterAssumption DEF LatchInv, IInv, TypeOK, LogTypeOK
  <2> QED BY <2>1, <2>2
<1>2. FileInv'
  BY DEF IInv, TypeOK, LogTypeOK, LatchInv, FileInv, CurrentFile, Flips, DrainsFirst,
     Unflushed, DirtyIn, Below, flush_no_sync, fill_flush_pending, Forget, GoTo, log_vars,
     own
<1>3. WorkInv'
  BY DEF IInv, TypeOK, LogTypeOK, ThreadTypeOK, LatchInv, FileInv, WorkInv, DirtyIn, Below,
     Synced, Leading, NoLoss, flush_no_sync, fill_flush_pending, Forget, GoTo, log_vars,
     own, Failed
<1> QED BY <1>1, <1>2, <1>3 DEF flush_no_sync, log_vars, UnchangedLog

\* NoSyncPwrite: the latch, the files and the work in flight.
LEMMA NoSyncPwriteDurable ==
  ASSUME IInv, NoLoss, NEW c \in Committer, NoSyncPwrite(c), TypeOK', Others(c)
  PROVE  LatchInv' /\ FileInv' /\ WorkInv' /\ durable \subseteq durable'
<1>1. LatchInv'
  BY CommitterAssumption DEF IInv, TypeOK, LogTypeOK, ThreadTypeOK, LatchInv, Below,
     Unflushed, NoSyncPwrite, Pwritten, PwriteFailed, Forget, GoTo, log_vars, own, NoLoss
<1>2. FileInv'
  BY DEF IInv, TypeOK, LogTypeOK, LatchInv, FileInv, CurrentFile, Flips, DrainsFirst,
     Unflushed, DirtyIn, Below, NoSyncPwrite, Pwritten, PwriteFailed, Forget, GoTo,
     log_vars, own
<1>3. WorkInv'
  BY DEF IInv, TypeOK, LogTypeOK, ThreadTypeOK, LatchInv, FileInv, WorkInv, DirtyIn, Below,
     Synced, Leading, NoLoss, NoSyncPwrite, Pwritten, PwriteFailed, Forget, GoTo, log_vars,
     own, Failed
<1> QED BY <1>1, <1>2, <1>3 DEF NoSyncPwrite, log_vars, UnchangedLog

\* Drain: the latch, the files and the work in flight.
LEMMA DrainDurable ==
  ASSUME IInv, NoLoss, NEW c \in Committer, Drain(c), TypeOK', Others(c)
  PROVE  LatchInv' /\ FileInv' /\ WorkInv' /\ durable \subseteq durable'
<1>1. LatchInv'
  <2>1. CASE io_invalid /\ lwl = 0 /\ WorkDone(c, Failed) /\ UNCHANGED <<flushed_len, lwl, batch>>
    <3>1. pc[c] = "drain" /\ pc'[c] \in {"wakeup_all", "return"}
      BY <2>1 DEF Drain, WorkDone, GoTo, IInv, TypeOK, ThreadTypeOK
    <3>2. UNCHANGED <<next_available_lsn, page_cache, io_invalid>>
      BY DEF Drain
    <3> QED BY <2>1, <3>1, <3>2 DEF IInv, LatchInv, Others
  <2>2. CASE ~io_invalid /\ fill_flush_pending(c) /\ GoTo(c, "pwrite")
    <3>1. /\ pc'[c] = "pwrite" /\ lwl = 0 /\ lwl' = c /\ c # 0
          /\ batch'[c] = Unflushed /\ flushed_len' = next_available_lsn
          /\ UNCHANGED <<next_available_lsn, page_cache>>
      BY <2>2, CommitterAssumption
         DEF Drain, GoTo, fill_flush_pending, IInv, TypeOK, ThreadTypeOK
    <3>2. \A d \in Committer : pc'[d] \in {"pwrite", "nosync_pwrite"} <=> lwl' = d
      BY <3>1, CommitterAssumption DEF IInv, LatchInv, Others
    <3>3. Below(flushed_len, page_cache)
      BY <2>2, <3>1 DEF IInv, LatchInv
    <3>4. Below(next_available_lsn, page_cache \cup Unflushed)
      BY <3>3 DEF Below, Unflushed, IInv, TypeOK, LogTypeOK
    <3>5. next_available_lsn <= next_available_lsn
      BY DEF IInv, TypeOK, LogTypeOK
    <3> QED BY <3>1, <3>2, <3>4, <3>5 DEF LatchInv
  <2> QED BY <2>1, <2>2 DEF Drain
<1>2. FileInv'
  BY DEF IInv, TypeOK, LogTypeOK, LatchInv, FileInv, CurrentFile, Flips, DrainsFirst,
     Unflushed, DirtyIn, Below, Drain, fill_flush_pending, WorkDone, GoTo, log_vars, own
<1>3. WorkInv'
  BY DEF IInv, TypeOK, LogTypeOK, ThreadTypeOK, LatchInv, FileInv, WorkInv, DirtyIn, Below,
     Synced, Leading, NoLoss, Drain, fill_flush_pending, WorkDone, GoTo, log_vars, own,
     Failed
<1> QED BY <1>1, <1>2, <1>3 DEF Drain, log_vars, UnchangedLog

\* sync_log_end: the latch, the files and the work in flight.
LEMMA sync_log_endDurable ==
  ASSUME IInv, NoLoss, NEW c \in Committer, sync_log_end(c), TypeOK', Others(c)
  PROVE  LatchInv' /\ FileInv' /\ WorkInv' /\ durable \subseteq durable'
<1>1. LatchInv'
  BY CommitterAssumption DEF IInv, TypeOK, LogTypeOK, ThreadTypeOK, LatchInv, Below,
     Unflushed, sync_log_end, UnchangedLog, GoTo, log_vars, own, NoLoss
<1>2. FileInv'
  BY DEF IInv, TypeOK, LogTypeOK, LatchInv, FileInv, CurrentFile, Flips, DrainsFirst,
     Unflushed, DirtyIn, Below, sync_log_end, UnchangedLog, GoTo, log_vars, own
<1>3. WorkInv'
  BY DEF IInv, TypeOK, LogTypeOK, ThreadTypeOK, LatchInv, FileInv, WorkInv, DirtyIn, Below,
     Synced, Leading, NoLoss, sync_log_end, UnchangedLog, GoTo, log_vars, own, Failed
<1> QED BY <1>1, <1>2, <1>3 DEF sync_log_end, log_vars, UnchangedLog

\* Fdatasync: the latch, the files and the work in flight.
LEMMA FdatasyncDurable ==
  ASSUME IInv, NoLoss, NEW c \in Committer, Fdatasync(c), TypeOK', Others(c)
  PROVE  LatchInv' /\ FileInv' /\ WorkInv' /\ durable \subseteq durable'
<1>1. LatchInv'
  BY CommitterAssumption DEF IInv, TypeOK, LogTypeOK, ThreadTypeOK, LatchInv, Below,
     Unflushed, Fdatasync, WorkDone, GoTo, log_vars, own, NoLoss
<1>2. FileInv'
  BY DEF IInv, TypeOK, LogTypeOK, LatchInv, FileInv, CurrentFile, Flips, DrainsFirst,
     Unflushed, DirtyIn, Below, Fdatasync, WorkDone, GoTo, log_vars, own
<1>3. WorkInv'
  BY DEF IInv, TypeOK, LogTypeOK, ThreadTypeOK, LatchInv, FileInv, WorkInv, DirtyIn, Below,
     Synced, Leading, NoLoss, Fdatasync, WorkDone, GoTo, log_vars, own, Failed
<1> QED BY <1>1, <1>2, <1>3 DEF Fdatasync, log_vars, UnchangedLog

\* Pwrite: the latch, the files and the work in flight.
LEMMA PwriteDurable ==
  ASSUME IInv, NoLoss, NEW c \in Committer, Pwrite(c), TypeOK', Others(c)
  PROVE  LatchInv' /\ FileInv' /\ WorkInv' /\ durable \subseteq durable'
<1>1. LatchInv'
  BY CommitterAssumption DEF IInv, TypeOK, LogTypeOK, ThreadTypeOK, LatchInv, Below,
     Unflushed, Pwrite, Pwritten, PwriteFailed, WorkDone, GoTo, log_vars, own, NoLoss
<1>2. FileInv'
  BY DEF IInv, TypeOK, LogTypeOK, LatchInv, FileInv, CurrentFile, Flips, DrainsFirst,
     Unflushed, DirtyIn, Below, Pwrite, Pwritten, PwriteFailed, WorkDone, GoTo, log_vars,
     own
<1>3. WorkInv'
  <2>1. CASE PwriteFailed(c) /\ WorkDone(c, Failed)
    <3>1. result'[c] = -1 /\ pc'[c] \in {"wakeup_all", "return"} /\ page_cache' = page_cache
          /\ UNCHANGED <<next_available_lsn, durable>>
      BY <2>1 DEF Pwrite, PwriteFailed, Pwritten, WorkDone, GoTo, Failed, IInv, TypeOK,
         ThreadTypeOK
    <3>2. \A d \in Committer : d # c => batch'[d] = batch[d]
      BY <2>1 DEF PwriteFailed, IInv, TypeOK, ThreadTypeOK
    <3> QED BY <3>1, <3>2 DEF IInv, WorkInv, Others, Below, Synced, Leading, TypeOK,
               LogTypeOK
  <2>2. CASE Pwritten(c) /\ result' = [result EXCEPT ![c] = next_available_lsn] /\ GoTo(c, "sync")
    <3>1. result'[c] = next_available_lsn /\ pc'[c] = "sync" /\ page_cache' = page_cache \cup batch[c]
          /\ UNCHANGED <<next_available_lsn, durable>>
      BY <2>2 DEF Pwrite, Pwritten, GoTo, IInv, TypeOK, ThreadTypeOK
    <3>2. \A d \in Committer : d # c => batch'[d] = batch[d]
      BY <2>2 DEF Pwritten, IInv, TypeOK, ThreadTypeOK
    <3>3. Below(next_available_lsn, page_cache')
      BY <2>2, <3>1, CommitterAssumption DEF Pwrite, IInv, LatchInv, Below
    <3> QED BY <3>1, <3>2, <3>3 DEF IInv, WorkInv, Others, Below, Synced, Leading, TypeOK,
               LogTypeOK
  <2> QED BY <2>1, <2>2 DEF Pwrite
<1> QED BY <1>1, <1>2, <1>3 DEF Pwrite, log_vars, UnchangedLog

\* Every step keeps types and group references.
LEMMA TypesStep ==
  ASSUME TypeOK, GroupInv, NEW c \in Committer, Begin(c) \/ Step(c)
  PROVE  TypeOK' /\ GroupInv' /\ Others(c) /\ GroupsKept(c)
<1>1. CASE Begin(c)
  BY <1>1, LogTypes, LogFailsTypes, DirectWriteFailsTypes DEF Begin
<1>2. CASE Step(c)
  BY <1>2,
     flush_no_syncTypes, NoSyncPwriteTypes, flush_sync_if_neededTypes,
     flush_and_syncTypes, grpc_waitTypes, WaitFastPathTypes,
     WaitArrivesTypes, WaitReturnsTypes, TakeErrorTypes,
     PiggybackTypes, handoff_leaderTypes, NotCoveredTypes,
     DoLeaderFsyncTypes, DrainTypes, PwriteTypes,
     sync_log_endTypes, FdatasyncTypes, wakeup_allTypes,
     WakeupInnerTypes, ReleaseSlotTypes, ReturnTypes
  DEF Step
<1> QED BY <1>1, <1>2

\* Every step keeps IInv, and durability is never lost.
LEMMA DurableStep ==
  ASSUME IInv, NoLoss, NEW c \in Committer, Begin(c) \/ Step(c)
  PROVE  IInv' /\ durable \subseteq durable'
<1>1. TypeOK' /\ GroupInv' /\ Others(c) /\ GroupsKept(c)
  BY TypesStep DEF IInv
<1>2. CASE QuietAction(c)
  <2>1. Quiet(c) /\ Publishes(c)
    BY <1>2, QuietActions
  <2>2. LatchInv' /\ FileInv' /\ WorkInv' /\ durable \subseteq durable'
    BY <1>1, <2>1, QuietStep DEF Quiet, log_vars
  <2> QED BY <1>1, <2>1, <2>2, PromiseStep DEF IInv
<1>3. CASE ~QuietAction(c)
  <2>1. LatchInv' /\ FileInv' /\ WorkInv' /\ durable \subseteq durable'
    BY <1>1, <1>3, LogDurable, LogFailsDurable, DirectWriteFailsDurable,
       flush_no_syncDurable,
       NoSyncPwriteDurable, DrainDurable, PwriteDurable, sync_log_endDurable, FdatasyncDurable
    DEF Begin, Step, QuietAction
  <2>2. UNCHANGED last_synced_lsn
    BY <1>3 DEF Begin, Step, QuietAction, Log, LogFails, DirectWriteFails, flush_no_sync,
                NoSyncPwrite, Drain, Pwrite, sync_log_end, Fdatasync, UnchangedLog
  <2> QED BY <1>1, <2>1, <2>2, PromiseStep DEF IInv, Publishes
<1> QED BY <1>2, <1>3

\* The initial state.
LEMMA InitInv ==
  ASSUME Init
  PROVE  IInv
<1>1. groups = <<NewGroup>> /\ groups \in Seq(FSyncGroup) /\ Len(groups) = 1
  BY SizeAssumption DEF Init, NewGroup, FSyncGroup
<1>2. TypeOK
  <2>1. "idle" \in Pcs
    BY DEF Pcs
  <2>2. LogTypeOK
    <3>1. 1 \in 1 .. MaxLsn + 1 /\ 0 \in 0 .. MaxLsn + 1
      BY SizeAssumption
    <3> QED BY <3>1, Zenon DEF Init, LogTypeOK
  <2>3. ManagerTypeOK
    BY <1>1 DEF Init, ManagerTypeOK
  <2>4. ThreadTypeOK
    BY <2>1, SizeAssumption DEF Init, ThreadTypeOK
  <2> QED BY <2>2, <2>3, <2>4 DEF TypeOK
<1>3. GroupInv
  BY <1>1 DEF Init, GroupInv, GroupRef, InGroup, Leading, WaitPcs, StatusPcs
<1>4. LatchInv /\ FileInv /\ WorkInv
  BY CommitterAssumption DEF Init, LatchInv, FileInv, WorkInv, Below, Synced, Leading
<1>5. PromiseInv
  BY <1>1 DEF Init, PromiseInv, NewGroup, Below
<1> QED BY <1>2, <1>3, <1>4, <1>5 DEF IInv

\* Stuttering.
LEMMA StutterInv ==
  ASSUME UNCHANGED vars
  PROVE  /\ TypeOK /\ GroupInv => TypeOK' /\ GroupInv'
         /\ IInv => IInv'
         /\ AckInv => AckInv'
  BY DEF vars, log_vars, manager, own, IInv, AckInv, TypeOK, LogTypeOK, ManagerTypeOK,
     ThreadTypeOK,
         GroupInv, GroupRef, LatchInv, FileInv, CurrentFile, WorkInv, PromiseInv, CohortInv, Done, Below

\* The type invariant of the commit path, whatever fails: in particular no thread
\* ever waits in, leads or reads the result of a group that does not exist.
THEOREM TypeCorrect == Spec => []TypeOK
<1>1. Init => TypeOK /\ GroupInv
  BY InitInv DEF IInv
<1>2. TypeOK /\ GroupInv /\ [Next]_vars => TypeOK' /\ GroupInv'
  BY TypesStep, StutterInv DEF Next
<1> QED BY <1>1, <1>2, PTL DEF Spec

\* Unless a failed fdatasync loses dirty pages, everything below the durable
\* watermark is durable: with any number of leaders, with private fsyncs, file
\* flips, failures and waiters that publish a leader's result late.
THEOREM WatermarkIsDurable ==
  ASSUME NoLoss
  PROVE  Spec => []WatermarkDurable
<1>1. Init => IInv
  BY InitInv
<1>2. IInv /\ [Next]_vars => IInv'
  BY DurableStep, StutterInv DEF Next
<1>3. IInv => WatermarkDurable
  BY DEF IInv, PromiseInv, WatermarkDurable, Below, TypeOK, LogTypeOK
<1> QED BY <1>1, <1>2, <1>3, PTL DEF Spec

-----------------------------------------------------------------------------
(* Acknowledgements: a leader's eol covers its cohort.                     *)

\* What a step of c does to the cohort relations.
CohortOwn(c) ==
  /\ ~io_invalid'
  /\ next_available_lsn' >= next_available_lsn
  /\ lsn'[c] < next_available_lsn'
  /\ target_lsn'[c] # 0 \/ pc'[c] = "logged" => target_lsn'[c] = lsn'[c]
  /\ pc'[c] \in Drained =>
       /\ lsn'[c] = lsn[c]
       /\ \/ /\ pc[c] \in Drained
             /\ result'[c] = result[c]
             /\ in_progress_group'[c] \in {0, in_progress_group[c]}
          \/ result'[c] = next_available_lsn
  /\ pc'[c] \in InGroup =>
       /\ lsn'[c] = lsn[c]
       /\ \/ pc[c] \in InGroup /\ my_group'[c] = my_group[c]
          \/ my_group'[c] = Len(groups) /\ Len(groups') = Len(groups)
  /\ pc'[c] \in {"no_fsync_needed", "result"} => my_group'[c] = my_group[c] /\ Done(my_group[c])
  /\ \A a \in acked' : a \in acked \/ Below(a + 1, durable)

\* From one thread's part to the cohort relations of all threads.
LEMMA CohortStep ==
  ASSUME AckInv, IInv', NEW c \in Committer, Others(c), GroupsKept(c),
         durable \subseteq durable',
         CohortOwn(c)
  PROVE  CohortInv'
<1> USE DEF AckInv
<1>1. \A d \in Committer : pc'[d] \in InGroup => pc[d] \in InGroup \/ d = c
  BY DEF Others, InGroup, WaitPcs
<1>2. \A d \in Committer : d # c => (pc'[d] \in Drained <=> pc[d] \in Drained)
  BY DEF Others, Drained, Synced, Leading
<1>3. Len(groups) \in Nat /\ Len(groups') \in Nat /\ Len(groups') >= Len(groups)
  BY DEF IInv, TypeOK, ManagerTypeOK, GroupsKept
<1>4. \A h \in 1 .. Len(groups) :
         /\ Done(h) => Done(h)'
         /\ Done(h)' => \/ Done(h)
                        \/ h = in_progress_group[c] /\ pc[c] \in {"wakeup_all", "wakeup_inner"}
  BY <1>3 DEF GroupsKept, Done
<1>5. \A h \in 1 .. Len(groups') : Done(h)' => h <= Len(groups)
  BY <1>3 DEF GroupsKept, Done, NewGroup
<1>6. pc[c] \in {"wakeup_all", "wakeup_inner"} =>
         /\ in_progress_group[c] # 0 /\ in_progress_group[c] < Len(groups)
         /\ result[c] > 0
         /\ Below(result[c], durable)
         /\ \A w \in Committer :
              pc[w] \in InGroup /\ my_group[w] = in_progress_group[c] => Below(lsn[w] + 1, durable)
  <2> SUFFICES ASSUME pc[c] \in {"wakeup_all", "wakeup_inner"}
               PROVE  /\ in_progress_group[c] # 0 /\ in_progress_group[c] < Len(groups)
                      /\ result[c] > 0
                      /\ Below(result[c], durable)
                      /\ \A w \in Committer :
                           pc[w] \in InGroup /\ my_group[w] = in_progress_group[c]
                             => Below(lsn[w] + 1, durable)
    OBVIOUS
  <2>1. pc[c] \in Leading /\ pc[c] \in Synced /\ pc[c] \in Drained
    BY DEF Drained, Synced, Leading
  <2>2. in_progress_group[c] # 0 /\ in_progress_group[c] < Len(groups)
    BY <2>1 DEF IInv, GroupInv, GroupRef
  <2>3. Below(result[c], durable)
    BY <2>1 DEF IInv, WorkInv
  <2>4. result[c] > 0
    BY <2>1 DEF CohortInv, IInv, TypeOK, ThreadTypeOK
  <2>5. ASSUME NEW w \in Committer, pc[w] \in InGroup, my_group[w] = in_progress_group[c]
        PROVE  Below(lsn[w] + 1, durable)
    <3>1. lsn[w] < result[c]
      BY <2>1, <2>2, <2>5 DEF CohortInv
    <3>2. lsn[w] \in Int /\ result[c] \in Int
      BY DEF IInv, TypeOK, ThreadTypeOK
    <3> QED BY <2>3, <3>1, <3>2 DEF Below
  <2> QED BY <2>2, <2>3, <2>4, <2>5
<1>7. ASSUME NEW d \in Committer
      PROVE  /\ lsn'[d] < next_available_lsn'
             /\ target_lsn'[d] # 0 \/ pc'[d] = "logged" => target_lsn'[d] = lsn'[d]
  <2>1. CASE d = c
    BY <2>1 DEF CohortOwn
  <2>2. CASE d # c
    <3>1. lsn[d] \in Int /\ next_available_lsn \in Int /\ next_available_lsn' \in Int
      BY DEF IInv, TypeOK, ThreadTypeOK, LogTypeOK
    <3>2. lsn'[d] = lsn[d] /\ target_lsn'[d] = target_lsn[d] /\ (pc'[d] = "logged" => pc[d] = "logged")
      BY <2>2 DEF Others
    <3>3. next_available_lsn' >= next_available_lsn
      BY DEF CohortOwn
    <3> QED BY <3>1, <3>2, <3>3 DEF CohortInv
  <2> QED BY <2>1, <2>2
<1>8. ASSUME NEW d \in Committer, pc'[d] \in Drained PROVE lsn'[d] < result'[d]
  <2>1. CASE d = c
    BY <1>8, <2>1 DEF CohortOwn, CohortInv
  <2>2. CASE d # c
    BY <1>2, <1>8, <2>2 DEF CohortInv, Others
  <2> QED BY <2>1, <2>2
<1>9. ASSUME NEW d \in Committer, pc'[d] \in {"no_fsync_needed",
         "result"} PROVE Done(my_group[d])'
  <2>1. Done(my_group[d]) /\ my_group'[d] = my_group[d]
    BY <1>9 DEF CohortOwn, CohortInv, Others
  <2>2. my_group[d] # 0 /\ my_group[d] \in Nat /\ Done(my_group[d])
    <3>1. pc'[d] \in InGroup
      BY <1>9 DEF InGroup, StatusPcs
    <3>2. my_group'[d] # 0
      BY <3>1 DEF IInv, GroupInv, GroupRef
    <3> QED BY <2>1, <3>2 DEF IInv, TypeOK, ThreadTypeOK
  <2>3. my_group[d] <= Len(groups)
    BY DEF IInv, GroupInv, GroupRef
  <2>4. my_group[d] \in 1 .. Len(groups)
    BY <1>3, <2>2, <2>3
  <2> QED BY <1>4, <2>1, <2>4 DEF Done
<1>10. ASSUME NEW d \in Committer, pc'[d] \in InGroup, Done(my_group[d])'
       PROVE  Below(lsn'[d] + 1, durable')
  <2>1. my_group'[d] \in 1 .. Len(groups')
    <3>1. my_group'[d] # 0 /\ my_group'[d] <= Len(groups')
      BY <1>10 DEF IInv, GroupInv, GroupRef
    <3>2. my_group'[d] \in Nat
      BY DEF IInv, TypeOK, ThreadTypeOK
    <3> QED BY <1>3, <3>1, <3>2
  <2>2. my_group'[d] \in 1 .. Len(groups)
    BY <1>3, <1>5, <1>10, <2>1 DEF Done
  <2>3. \/ Done(my_group'[d])
        \/ my_group'[d] = in_progress_group[c] /\ pc[c] \in {"wakeup_all", "wakeup_inner"}
    BY <1>4, <1>10, <2>2 DEF Done
  <2>4. my_group'[d] # Len(groups)
    BY <1>6, <2>2, <2>3 DEF CohortInv
  <2>5. lsn'[d] = lsn[d] /\ pc[d] \in InGroup /\ my_group'[d] = my_group[d]
    BY <1>1, <1>10, <2>4 DEF CohortOwn, Others
  <2>6. Below(lsn[d] + 1, durable)
    BY <1>6, <2>3, <2>5 DEF CohortInv
  <2> QED BY <2>5, <2>6 DEF Below
<1>11. ASSUME NEW d \in Committer, NEW w \in Committer,
              pc'[d] \in Drained, in_progress_group'[d] # 0,
              pc'[w] \in InGroup, my_group'[w] = in_progress_group'[d]
       PROVE  lsn'[w] < result'[d]
  <2>1. lsn'[w] = lsn[w] /\ lsn[w] < next_available_lsn
    BY <1>11 DEF CohortOwn, CohortInv, Others
  <2>2. CASE pc[d] \in Drained /\ result'[d] = result[d] /\ in_progress_group'[d] = in_progress_group[d]
    <3>1. in_progress_group[d] < Len(groups)
      BY <1>11, <2>2 DEF IInv, GroupInv, GroupRef
    <3>2. pc[w] \in InGroup /\ my_group'[w] = my_group[w]
      <4>1. my_group'[w] # Len(groups)
        BY <1>3, <1>11, <2>2, <3>1 DEF IInv, TypeOK, ThreadTypeOK
      <4> QED BY <1>1, <1>11, <4>1 DEF CohortOwn, Others
    <3> QED BY <1>11, <2>1, <2>2, <3>2 DEF CohortInv
  <2>3. CASE d = c /\ result'[d] = next_available_lsn
    BY <2>1, <2>3
  <2> QED BY <1>2, <1>11, <2>2, <2>3 DEF CohortOwn, Others
<1>12. ASSUME NEW h \in 1 .. Len(groups') PROVE ~groups'[h].error /\ (Done(h)' => h < Len(groups'))
  <2>1. CASE h > Len(groups) /\ groups'[h] = NewGroup
    BY <1>5, <2>1, <1>3 DEF NewGroup
  <2>2. CASE h <= Len(groups)
    <3>1. h \in 1 .. Len(groups)
      BY <2>2, <1>3
    <3>2. Done(h)' => h < Len(groups)
      BY <1>4, <1>6, <3>1 DEF CohortInv
    <3>3. ~groups'[h].error
      <4>1. \/ groups'[h].error = groups[h].error
            \/ pc[c] = "wakeup_inner" /\ groups'[h].error = (result[c] = Failed)
        BY <1>3, <2>2, <3>1 DEF GroupsKept
      <4>2. pc[c] = "wakeup_inner" => result[c] # Failed
        BY <1>6 DEF Failed
      <4> QED BY <3>1, <4>1, <4>2 DEF CohortInv
    <3> QED BY <1>3, <3>2, <3>3
  <2> QED BY <1>3, <2>1, <2>2 DEF GroupsKept
<1>13. ASSUME NEW a \in acked' PROVE Below(a + 1, durable')
  BY DEF CohortOwn, CohortInv, Below
<1> QED BY <1>7, <1>8, <1>9, <1>10, <1>11, <1>12, <1>13 DEF CohortInv, CohortOwn

\* Log: its part of the cohort relations.
LEMMA LogCohort ==
  ASSUME AckInv, ~Failures, NEW c \in Committer, NEW mode \in Modes, NEW p \in Placements,
         Log(c, mode, p), TypeOK'
  PROVE  CohortOwn(c)
<1>0. /\ lsn'[c] = next_available_lsn
      /\ pc'[c] \in {"logged", "enter", "nosync"}
      /\ pc'[c] = "logged" => target_lsn'[c] = next_available_lsn
      /\ target_lsn'[c] \in {0, next_available_lsn}
  BY SwitchAssumption DEF Log, Call, GoTo, AckInv, IInv, TypeOK, ThreadTypeOK
<1>1. /\ ~io_invalid'
      /\ next_available_lsn' >= next_available_lsn
      /\ lsn'[c] < next_available_lsn'
      /\ target_lsn'[c] # 0 \/ pc'[c] = "logged" => target_lsn'[c] = lsn'[c]
  BY <1>0 DEF Log, AckInv, IInv, TypeOK, LogTypeOK
<1>2. /\ pc'[c] \notin Drained /\ pc'[c] \notin InGroup
      /\ pc'[c] \notin {"no_fsync_needed", "result"}
  BY <1>0 DEF Drained, Synced, Leading, InGroup, WaitPcs, StatusPcs
<1>5. \A a \in acked' : a \in acked \/ Below(a + 1, durable)
  BY DEF AckInv, CohortInv, IInv, PromiseInv, WorkInv, Below, Synced, Drained, Leading,
     InGroup, StatusPcs, WaitPcs, TypeOK, LogTypeOK, ThreadTypeOK, Log, Call, GoTo,
     log_vars, own
<1> QED BY <1>1, <1>2, <1>5 DEF CohortOwn

\* flush_no_sync: its part of the cohort relations.
LEMMA flush_no_syncCohort ==
  ASSUME AckInv, ~Failures, NEW c \in Committer, flush_no_sync(c), TypeOK'
  PROVE  CohortOwn(c)
  BY SMTT(40) DEF CohortOwn, AckInv, CohortInv, Done, IInv, PromiseInv, WorkInv, Below,
     TypeOK, ThreadTypeOK, LogTypeOK, Drained, Synced, Leading, InGroup, WaitPcs,
     StatusPcs, flush_no_sync, fill_flush_pending, Forget, GoTo, log_vars, own

\* NoSyncPwrite: its part of the cohort relations.
LEMMA NoSyncPwriteCohort ==
  ASSUME AckInv, ~Failures, NEW c \in Committer, NoSyncPwrite(c), TypeOK'
  PROVE  CohortOwn(c)
  BY SMTT(40) DEF CohortOwn, AckInv, CohortInv, Done, IInv, PromiseInv, WorkInv, Below,
     TypeOK, ThreadTypeOK, LogTypeOK, Drained, Synced, Leading, InGroup, WaitPcs,
     StatusPcs, NoSyncPwrite, Pwritten, PwriteFailed, Forget, GoTo, log_vars, own

\* flush_sync_if_needed: its part of the cohort relations.
LEMMA flush_sync_if_neededCohort ==
  ASSUME AckInv, ~Failures, NEW c \in Committer, flush_sync_if_needed(c), TypeOK'
  PROVE  CohortOwn(c)
<1>0. /\ pc[c] = "logged" /\ ~io_invalid
      /\ UNCHANGED <<io_invalid, next_available_lsn, durable>>
  BY DEF AckInv, CohortInv, flush_sync_if_needed, log_vars
<1>1. CASE /\ last_synced_lsn > target_lsn[c] /\ Acknowledge(c) /\ GoTo(c, "idle") /\ Forget(c)
  <2>1. pc'[c] = "idle" /\ lsn'[c] = 0 /\ target_lsn'[c] = 0
    BY <1>1 DEF GoTo, Forget, AckInv, IInv, TypeOK, ThreadTypeOK
  <2>2. target_lsn[c] = lsn[c] /\ 0 < next_available_lsn
    BY <1>0 DEF AckInv, CohortInv, IInv, TypeOK, LogTypeOK
  <2>3. Below(lsn[c] + 1, durable)
    <3>1. last_synced_lsn \in Int /\ lsn[c] \in Int /\ Below(last_synced_lsn, durable)
      BY DEF AckInv, IInv, TypeOK, LogTypeOK, ThreadTypeOK, PromiseInv
    <3> QED BY <1>1, <2>2, <3>1 DEF Below
  <2>4. \A a \in acked' : a \in acked \/ Below(a + 1, durable)
    BY <1>1, <2>3 DEF Acknowledge
  <2>5. next_available_lsn' >= next_available_lsn
    BY <1>0 DEF AckInv, IInv, TypeOK, LogTypeOK
  <2> QED BY <1>0, <2>1, <2>2, <2>4, <2>5
          DEF CohortOwn, Drained, Synced, Leading, InGroup, WaitPcs, StatusPcs
<1>2. CASE GoTo(c, "enter") /\ UNCHANGED <<acked, lsn, target_lsn, my_group, result>>
  <2>1. pc'[c] = "enter"
    BY <1>2 DEF GoTo, AckInv, IInv, TypeOK, ThreadTypeOK
  <2>2. /\ lsn[c] < next_available_lsn /\ target_lsn[c] = lsn[c]
        /\ next_available_lsn >= next_available_lsn
    BY <1>0 DEF AckInv, CohortInv, IInv, TypeOK, LogTypeOK
  <2> QED BY <1>0, <1>2, <2>1, <2>2
          DEF CohortOwn, Drained, Synced, Leading, InGroup, WaitPcs, StatusPcs
<1> QED BY <1>0, <1>1, <1>2 DEF flush_sync_if_needed

\* flush_and_sync: its part of the cohort relations.
LEMMA flush_and_syncCohort ==
  ASSUME AckInv, ~Failures, NEW c \in Committer, flush_and_sync(c), TypeOK'
  PROVE  CohortOwn(c)
<1>1. /\ ~io_invalid'
      /\ next_available_lsn' >= next_available_lsn
      /\ lsn'[c] < next_available_lsn'
      /\ target_lsn'[c] # 0 \/ pc'[c] = "logged" => target_lsn'[c] = lsn'[c]
  BY DEF AckInv, CohortInv, IInv, TypeOK, ThreadTypeOK, LogTypeOK, flush_and_sync,
     TakeSlot, JoinWaiters, Capture, next_fsync_waiters, GoTo, log_vars, own
<1>2. pc'[c] \in Drained =>
         /\ lsn'[c] = lsn[c]
         /\ \/ /\ pc[c] \in Drained
               /\ result'[c] = result[c]
               /\ in_progress_group'[c] \in {0, in_progress_group[c]}
            \/ result'[c] = next_available_lsn
  BY DEF AckInv, CohortInv, IInv, TypeOK, ThreadTypeOK, Drained, Synced, Leading,
     flush_and_sync, TakeSlot, JoinWaiters, Capture, next_fsync_waiters, GoTo, log_vars,
     own
<1>3. pc'[c] \in InGroup =>
         /\ lsn'[c] = lsn[c]
         /\ \/ pc[c] \in InGroup /\ my_group'[c] = my_group[c]
            \/ my_group'[c] = Len(groups) /\ Len(groups') = Len(groups)
  BY DEF IInv, AckInv, TypeOK, ThreadTypeOK, InGroup, WaitPcs, StatusPcs, flush_and_sync,
     TakeSlot, JoinWaiters, Capture, next_fsync_waiters, GoTo, log_vars, own
<1>4. pc'[c] \in {"no_fsync_needed", "result"} => my_group'[c] = my_group[c] /\ Done(my_group[c])
  BY DEF AckInv, CohortInv, Done, IInv, TypeOK, ThreadTypeOK, flush_and_sync, TakeSlot,
     JoinWaiters, Capture, next_fsync_waiters, GoTo, log_vars, own
<1>5. \A a \in acked' : a \in acked \/ Below(a + 1, durable)
  BY DEF AckInv, CohortInv, IInv, PromiseInv, WorkInv, Below, Synced, Drained, Leading,
     InGroup, StatusPcs, WaitPcs, TypeOK, LogTypeOK, ThreadTypeOK, flush_and_sync,
     TakeSlot, JoinWaiters, Capture, next_fsync_waiters, GoTo, log_vars, own
<1> QED BY <1>1, <1>2, <1>3, <1>4, <1>5 DEF CohortOwn

\* grpc_wait: its part of the cohort relations.
LEMMA grpc_waitCohort ==
  ASSUME AckInv, ~Failures, NEW c \in Committer, grpc_wait(c), TypeOK'
  PROVE  CohortOwn(c)
  BY SMTT(40) DEF CohortOwn, AckInv, CohortInv, Done, IInv, PromiseInv, WorkInv, Below,
     TypeOK, ThreadTypeOK, LogTypeOK, Drained, Synced, Leading, InGroup, WaitPcs,
     StatusPcs, grpc_wait, Capture, next_fsync_waiters, GoTo, log_vars, own

\* WaitFastPath: its part of the cohort relations.
LEMMA WaitFastPathCohort ==
  ASSUME AckInv, ~Failures, NEW c \in Committer, WaitFastPath(c), TypeOK'
  PROVE  CohortOwn(c)
  BY SMTT(40) DEF CohortOwn, AckInv, CohortInv, Done, IInv, PromiseInv, WorkInv, Below,
     TypeOK, ThreadTypeOK, LogTypeOK, Drained, Synced, Leading, InGroup, WaitPcs,
     StatusPcs, WaitFastPath, Status, UnchangedLog, GoTo, log_vars, own

\* WaitArrives: its part of the cohort relations.
LEMMA WaitArrivesCohort ==
  ASSUME AckInv, ~Failures, NEW c \in Committer, WaitArrives(c), TypeOK'
  PROVE  CohortOwn(c)
  BY SMTT(40) DEF CohortOwn, AckInv, CohortInv, Done, IInv, PromiseInv, WorkInv, Below,
     TypeOK, ThreadTypeOK, LogTypeOK, Drained, Synced, Leading, InGroup, WaitPcs,
     StatusPcs, WaitArrives, Status, Designated, SetGroup, UnchangedLog, GoTo, log_vars,
     own

\* WaitReturns: its part of the cohort relations.
LEMMA WaitReturnsCohort ==
  ASSUME AckInv, ~Failures, NEW c \in Committer, WaitReturns(c), TypeOK'
  PROVE  CohortOwn(c)
  BY SMTT(40) DEF CohortOwn, AckInv, CohortInv, Done, IInv, PromiseInv, WorkInv, Below,
     TypeOK, ThreadTypeOK, LogTypeOK, Drained, Synced, Leading, InGroup, WaitPcs,
     StatusPcs, WaitReturns, Status, Designated, SetGroup, UnchangedLog, GoTo, log_vars,
     own

\* TakeError: its part of the cohort relations.
LEMMA TakeErrorCohort ==
  ASSUME AckInv, ~Failures, NEW c \in Committer, TakeError(c), TypeOK'
  PROVE  CohortOwn(c)
<1>1. /\ ~io_invalid'
      /\ next_available_lsn' >= next_available_lsn
      /\ lsn'[c] < next_available_lsn'
      /\ target_lsn'[c] # 0 \/ pc'[c] = "logged" => target_lsn'[c] = lsn'[c]
  <2>1. my_group[c] \in 1 .. Len(groups)
    BY WaiterTypes DEF AckInv, IInv, TakeError, InGroup, StatusPcs
  <2>2. ~groups[my_group[c]].error
    BY <2>1 DEF AckInv, CohortInv
  <2> QED BY <2>2 DEF AckInv, CohortInv, IInv, TypeOK, ThreadTypeOK, LogTypeOK, TakeError,
             GoTo,
                      log_vars
<1>2. pc'[c] \in Drained =>
         /\ lsn'[c] = lsn[c]
         /\ \/ /\ pc[c] \in Drained
               /\ result'[c] = result[c]
               /\ in_progress_group'[c] \in {0, in_progress_group[c]}
            \/ result'[c] = next_available_lsn
  BY DEF AckInv, CohortInv, IInv, TypeOK, ThreadTypeOK, Drained, Synced, Leading,
     TakeError, ReturnErr, Forget, GoTo, log_vars, own
<1>3. pc'[c] \in InGroup =>
         /\ lsn'[c] = lsn[c]
         /\ \/ pc[c] \in InGroup /\ my_group'[c] = my_group[c]
            \/ my_group'[c] = Len(groups) /\ Len(groups') = Len(groups)
  BY DEF IInv, AckInv, TypeOK, ThreadTypeOK, InGroup, WaitPcs, StatusPcs, TakeError,
     ReturnErr, Forget, GoTo, log_vars, own
<1>4. pc'[c] \in {"no_fsync_needed", "result"} => my_group'[c] = my_group[c] /\ Done(my_group[c])
  BY DEF AckInv, CohortInv, Done, IInv, TypeOK, ThreadTypeOK, TakeError, ReturnErr, Forget,
     GoTo, log_vars, own
<1>5. \A a \in acked' : a \in acked \/ Below(a + 1, durable)
  BY DEF AckInv, CohortInv, IInv, PromiseInv, WorkInv, Below, Synced, Drained, Leading,
     InGroup, StatusPcs, WaitPcs, TypeOK, LogTypeOK, ThreadTypeOK, TakeError, ReturnErr,
     Forget, GoTo, log_vars, own
<1> QED BY <1>1, <1>2, <1>3, <1>4, <1>5 DEF CohortOwn

\* Piggyback: its part of the cohort relations.
LEMMA PiggybackCohort ==
  ASSUME AckInv, ~Failures, NEW c \in Committer, Piggyback(c), TypeOK'
  PROVE  CohortOwn(c)
  BY SMTT(40) DEF CohortOwn, AckInv, CohortInv, Done, IInv, PromiseInv, WorkInv, Below,
     TypeOK, ThreadTypeOK, LogTypeOK, Drained, Synced, Leading, InGroup, WaitPcs,
     StatusPcs, Piggyback, ReturnOk, advance_watermark_max, Max2, Acknowledge, Forget,
     GoTo, log_vars, own

\* handoff_leader: its part of the cohort relations.
LEMMA handoff_leaderCohort ==
  ASSUME AckInv, ~Failures, NEW c \in Committer, handoff_leader(c), TypeOK'
  PROVE  CohortOwn(c)
<1>1. /\ ~io_invalid'
      /\ next_available_lsn' >= next_available_lsn
      /\ lsn'[c] < next_available_lsn'
      /\ target_lsn'[c] # 0 \/ pc'[c] = "logged" => target_lsn'[c] = lsn'[c]
  BY DEF AckInv, CohortInv, IInv, TypeOK, ThreadTypeOK, LogTypeOK, handoff_leader,
     SetGroup, notify_one, Notify, ParkedIn, advance_watermark_max, Max2, Acknowledge,
     Forget, GoTo, log_vars, own
<1>2. pc'[c] \in Drained =>
         /\ lsn'[c] = lsn[c]
         /\ \/ /\ pc[c] \in Drained
               /\ result'[c] = result[c]
               /\ in_progress_group'[c] \in {0, in_progress_group[c]}
            \/ result'[c] = next_available_lsn
  BY DEF AckInv, CohortInv, IInv, TypeOK, ThreadTypeOK, Drained, Synced, Leading,
     handoff_leader, SetGroup, notify_one, Notify, ParkedIn, advance_watermark_max, Max2,
     Acknowledge, Forget, GoTo, log_vars, own
<1>3. pc'[c] \in InGroup =>
         /\ lsn'[c] = lsn[c]
         /\ \/ pc[c] \in InGroup /\ my_group'[c] = my_group[c]
            \/ my_group'[c] = Len(groups) /\ Len(groups') = Len(groups)
  BY DEF IInv, AckInv, TypeOK, ThreadTypeOK, InGroup, WaitPcs, StatusPcs, handoff_leader,
     SetGroup, notify_one, Notify, ParkedIn, advance_watermark_max, Max2, Acknowledge,
     Forget, GoTo, log_vars, own
<1>4. pc'[c] \in {"no_fsync_needed", "result"} => my_group'[c] = my_group[c] /\ Done(my_group[c])
  BY DEF AckInv, CohortInv, Done, IInv, TypeOK, ThreadTypeOK, handoff_leader, SetGroup,
     notify_one, Notify, ParkedIn, advance_watermark_max, Max2, Acknowledge, Forget, GoTo,
     log_vars, own
<1>5. \A a \in acked' : a \in acked \/ Below(a + 1, durable)
  <2>1. last_synced_lsn > lsn[c]
    BY DEF AckInv, CohortInv, handoff_leader, Covered
  <2>2. Below(lsn[c] + 1, durable)
    <3>1. last_synced_lsn \in Int /\ lsn[c] \in Int
      BY DEF AckInv, IInv, TypeOK, LogTypeOK, ThreadTypeOK
    <3>2. Below(last_synced_lsn, durable)
      BY DEF AckInv, IInv, PromiseInv
    <3> QED BY <2>1, <3>1, <3>2 DEF Below
  <2> QED BY <2>2 DEF handoff_leader, Acknowledge
<1> QED BY <1>1, <1>2, <1>3, <1>4, <1>5 DEF CohortOwn

\* NotCovered: its part of the cohort relations.
LEMMA NotCoveredCohort ==
  ASSUME AckInv, ~Failures, NEW c \in Committer, NotCovered(c), TypeOK'
  PROVE  CohortOwn(c)
  BY SMTT(40) DEF CohortOwn, AckInv, CohortInv, Done, IInv, PromiseInv, WorkInv, Below,
     TypeOK, ThreadTypeOK, LogTypeOK, Drained, Synced, Leading, InGroup, WaitPcs,
     StatusPcs, NotCovered, UnchangedLog, GoTo, log_vars, own

\* DoLeaderFsync: its part of the cohort relations.
LEMMA DoLeaderFsyncCohort ==
  ASSUME AckInv, ~Failures, NEW c \in Committer, DoLeaderFsync(c), TypeOK'
  PROVE  CohortOwn(c)
<1>1. /\ ~io_invalid'
      /\ next_available_lsn' >= next_available_lsn
      /\ lsn'[c] < next_available_lsn'
      /\ target_lsn'[c] # 0 \/ pc'[c] = "logged" => target_lsn'[c] = lsn'[c]
  BY DEF AckInv, CohortInv, IInv, TypeOK, ThreadTypeOK, LogTypeOK, DoLeaderFsync, TakeSlot,
     Capture, UnchangedLog, GoTo, log_vars, own
<1>2. pc'[c] \in Drained =>
         /\ lsn'[c] = lsn[c]
         /\ \/ /\ pc[c] \in Drained
               /\ result'[c] = result[c]
               /\ in_progress_group'[c] \in {0, in_progress_group[c]}
            \/ result'[c] = next_available_lsn
  BY DEF AckInv, CohortInv, IInv, TypeOK, ThreadTypeOK, Drained, Synced, Leading,
     DoLeaderFsync, TakeSlot, Capture, UnchangedLog, GoTo, log_vars, own
<1>3. pc'[c] \in InGroup =>
         /\ lsn'[c] = lsn[c]
         /\ \/ pc[c] \in InGroup /\ my_group'[c] = my_group[c]
            \/ my_group'[c] = Len(groups) /\ Len(groups') = Len(groups)
  BY DEF IInv, AckInv, TypeOK, ThreadTypeOK, InGroup, WaitPcs, StatusPcs, DoLeaderFsync,
     TakeSlot, Capture, UnchangedLog, GoTo, log_vars, own
<1>4. pc'[c] \in {"no_fsync_needed", "result"} => my_group'[c] = my_group[c] /\ Done(my_group[c])
  BY DEF AckInv, CohortInv, Done, IInv, TypeOK, ThreadTypeOK, DoLeaderFsync, TakeSlot,
     Capture, UnchangedLog, GoTo, log_vars, own
<1>5. \A a \in acked' : a \in acked \/ Below(a + 1, durable)
  BY DEF AckInv, CohortInv, IInv, PromiseInv, WorkInv, Below, Synced, Drained, Leading,
     InGroup, StatusPcs, WaitPcs, TypeOK, LogTypeOK, ThreadTypeOK, DoLeaderFsync, TakeSlot,
     Capture, UnchangedLog, GoTo, log_vars, own
<1> QED BY <1>1, <1>2, <1>3, <1>4, <1>5 DEF CohortOwn

\* Drain: its part of the cohort relations.
LEMMA DrainCohort ==
  ASSUME AckInv, ~Failures, NEW c \in Committer, Drain(c), TypeOK'
  PROVE  CohortOwn(c)
  BY SMTT(40) DEF CohortOwn, AckInv, CohortInv, Done, IInv, PromiseInv, WorkInv, Below,
     TypeOK, ThreadTypeOK, LogTypeOK, Drained, Synced, Leading, InGroup, WaitPcs,
     StatusPcs, Drain, fill_flush_pending, WorkDone, GoTo, log_vars, own

\* Pwrite: its part of the cohort relations.
LEMMA PwriteCohort ==
  ASSUME AckInv, ~Failures, NEW c \in Committer, Pwrite(c), TypeOK'
  PROVE  CohortOwn(c)
  BY SMTT(40) DEF CohortOwn, AckInv, CohortInv, Done, IInv, PromiseInv, WorkInv, Below,
     TypeOK, ThreadTypeOK, LogTypeOK, Drained, Synced, Leading, InGroup, WaitPcs,
     StatusPcs, Pwrite, Pwritten, PwriteFailed, WorkDone, GoTo, log_vars, own

\* sync_log_end: its part of the cohort relations.
LEMMA sync_log_endCohort ==
  ASSUME AckInv, ~Failures, NEW c \in Committer, sync_log_end(c), TypeOK'
  PROVE  CohortOwn(c)
  BY SMTT(40) DEF CohortOwn, AckInv, CohortInv, Done, IInv, PromiseInv, WorkInv, Below,
     TypeOK, ThreadTypeOK, LogTypeOK, Drained, Synced, Leading, InGroup, WaitPcs,
     StatusPcs, sync_log_end, UnchangedLog, GoTo, log_vars, own

\* Fdatasync: its part of the cohort relations.
LEMMA FdatasyncCohort ==
  ASSUME AckInv, ~Failures, NEW c \in Committer, Fdatasync(c), TypeOK'
  PROVE  CohortOwn(c)
  BY SMTT(40) DEF CohortOwn, AckInv, CohortInv, Done, IInv, PromiseInv, WorkInv, Below,
     TypeOK, ThreadTypeOK, LogTypeOK, Drained, Synced, Leading, InGroup, WaitPcs,
     StatusPcs, Fdatasync, WorkDone, GoTo, log_vars, own

\* wakeup_all: its part of the cohort relations.
LEMMA wakeup_allCohort ==
  ASSUME AckInv, ~Failures, NEW c \in Committer, wakeup_all(c), TypeOK'
  PROVE  CohortOwn(c)
  BY SMTT(40) DEF CohortOwn, AckInv, CohortInv, Done, IInv, PromiseInv, WorkInv, Below,
     TypeOK, ThreadTypeOK, LogTypeOK, Drained, Synced, Leading, InGroup, WaitPcs,
     StatusPcs, wakeup_all, SetGroup, UnchangedLog, GoTo, log_vars, own

\* WakeupInner: its part of the cohort relations.
LEMMA WakeupInnerCohort ==
  ASSUME AckInv, ~Failures, NEW c \in Committer, WakeupInner(c), TypeOK'
  PROVE  CohortOwn(c)
  BY SMTT(40) DEF CohortOwn, AckInv, CohortInv, Done, IInv, PromiseInv, WorkInv, Below,
     TypeOK, ThreadTypeOK, LogTypeOK, Drained, Synced, Leading, InGroup, WaitPcs,
     StatusPcs, WakeupInner, SetGroup, Notify, ParkedIn, UnchangedLog, GoTo, log_vars, own

\* ReleaseSlot: its part of the cohort relations.
LEMMA ReleaseSlotCohort ==
  ASSUME AckInv, ~Failures, NEW c \in Committer, ReleaseSlot(c), TypeOK'
  PROVE  CohortOwn(c)
  BY SMTT(40) DEF CohortOwn, AckInv, CohortInv, Done, IInv, PromiseInv, WorkInv, Below,
     TypeOK, ThreadTypeOK, LogTypeOK, Drained, Synced, Leading, InGroup, WaitPcs,
     StatusPcs, ReleaseSlot, SetGroup, notify_one, Notify, ParkedIn, next_fsync_waiters,
     UnchangedLog, GoTo, log_vars, own

\* Return: its part of the cohort relations.
LEMMA ReturnCohort ==
  ASSUME AckInv, ~Failures, NEW c \in Committer, Return(c), TypeOK'
  PROVE  CohortOwn(c)
<1>1. /\ ~io_invalid'
      /\ next_available_lsn' >= next_available_lsn
      /\ lsn'[c] < next_available_lsn'
      /\ target_lsn'[c] # 0 \/ pc'[c] = "logged" => target_lsn'[c] = lsn'[c]
  <2>1. result[c] # Failed
    BY DEF AckInv, CohortInv, Return, Drained, Synced, Failed, IInv, TypeOK, ThreadTypeOK
  <2>2. ReturnOk(c, result[c]) /\ UNCHANGED next_available_lsn
    BY <2>1 DEF Return, log_vars
  <2>3. /\ lsn'[c] = 0 /\ target_lsn'[c] = 0 /\ pc'[c] = "idle"
        /\ UNCHANGED io_invalid
    BY <2>2 DEF ReturnOk, Forget, GoTo, AckInv, IInv, TypeOK, ThreadTypeOK
  <2> QED BY <2>2, <2>3 DEF AckInv, CohortInv, IInv, TypeOK, LogTypeOK
<1>2. pc'[c] \in Drained =>
         /\ lsn'[c] = lsn[c]
         /\ \/ /\ pc[c] \in Drained
               /\ result'[c] = result[c]
               /\ in_progress_group'[c] \in {0, in_progress_group[c]}
            \/ result'[c] = next_available_lsn
  BY DEF AckInv, CohortInv, IInv, TypeOK, ThreadTypeOK, Drained, Synced, Leading, Return,
     ReturnErr, ReturnOk, advance_watermark_max, Max2, Acknowledge, Forget, GoTo, log_vars,
     own
<1>3. pc'[c] \in InGroup =>
         /\ lsn'[c] = lsn[c]
         /\ \/ pc[c] \in InGroup /\ my_group'[c] = my_group[c]
            \/ my_group'[c] = Len(groups) /\ Len(groups') = Len(groups)
  BY DEF IInv, AckInv, TypeOK, ThreadTypeOK, InGroup, WaitPcs, StatusPcs, Return,
     ReturnErr, ReturnOk, advance_watermark_max, Max2, Acknowledge, Forget, GoTo, log_vars,
     own
<1>4. pc'[c] \in {"no_fsync_needed", "result"} => my_group'[c] = my_group[c] /\ Done(my_group[c])
  BY DEF AckInv, CohortInv, Done, IInv, TypeOK, ThreadTypeOK, Return, ReturnErr, ReturnOk,
     advance_watermark_max, Max2, Acknowledge, Forget, GoTo, log_vars, own
<1>5. \A a \in acked' : a \in acked \/ Below(a + 1, durable)
  BY DEF AckInv, CohortInv, IInv, PromiseInv, WorkInv, Below, Synced, Drained, Leading,
     InGroup, StatusPcs, WaitPcs, TypeOK, LogTypeOK, ThreadTypeOK, Return, ReturnErr,
     ReturnOk, advance_watermark_max, Max2, Acknowledge, Forget, GoTo, log_vars, own
<1> QED BY <1>1, <1>2, <1>3, <1>4, <1>5 DEF CohortOwn

\* Without failures every step keeps AckInv.
LEMMA AckStep ==
  ASSUME AckInv, ~Failures, NEW c \in Committer, Begin(c) \/ Step(c)
  PROVE  AckInv'
<1>1. IInv' /\ durable \subseteq durable'
  BY DurableStep DEF AckInv, NoLoss
<1>2. Others(c) /\ GroupsKept(c) /\ TypeOK'
  BY TypesStep DEF AckInv, IInv
<1>3. CohortOwn(c)
  <2>1. CASE Begin(c)
    BY <1>2, <2>1, LogCohort DEF Begin, LogFails, DirectWriteFails
  <2>2. CASE Step(c)
    BY <1>2, <2>2,
       flush_no_syncCohort, NoSyncPwriteCohort, flush_sync_if_neededCohort,
       flush_and_syncCohort, grpc_waitCohort, WaitFastPathCohort,
       WaitArrivesCohort, WaitReturnsCohort, TakeErrorCohort,
       PiggybackCohort, handoff_leaderCohort, NotCoveredCohort,
       DoLeaderFsyncCohort, DrainCohort, PwriteCohort,
       sync_log_endCohort, FdatasyncCohort, wakeup_allCohort,
       WakeupInnerCohort, ReleaseSlotCohort, ReturnCohort
    DEF Step
  <2> QED BY <2>1, <2>2
<1> QED BY <1>1, <1>2, <1>3, CohortStep DEF AckInv

\* The initial state.
LEMMA InitAck ==
  ASSUME Init
  PROVE  AckInv
<1>1. CohortInv
  BY SizeAssumption DEF Init, CohortInv, NewGroup, Done, Drained, Synced, Leading, InGroup,
     WaitPcs, StatusPcs
<1> QED BY <1>1, InitInv DEF AckInv

\* While no I/O fails, a commit or flush that returned Ok is durable together
\* with every entry before it, whichever of the paths of flush_sync_to,
\* flush_and_sync and wait_for_event it came back on.
THEOREM AckedSafe ==
  ASSUME ~Failures
  PROVE  Spec => []AckedIsDurable
<1>1. Init => AckInv
  BY InitAck
<1>2. AckInv /\ [Next]_vars => AckInv'
  BY AckStep, StutterInv DEF Next
<1>3. AckInv => AckedIsDurable
  BY DEF AckInv, IInv, CohortInv, AckedIsDurable, Below, TypeOK, LogTypeOK
<1> QED BY <1>1, <1>2, <1>3, PTL DEF Spec

-----------------------------------------------------------------------------
(* Leader slots and the watermark.                                         *)

Working == WorkPcs \ {"return"}

\* d holds a leader slot.
Leads(d) == pc[d] = "grpc_wait" \/ (in_progress_group[d] # 0 /\ pc[d] \in Working)

\* Outside the work of phase 3 a thread leads no group.
LeadRef(d) == pc[d] \notin Working => in_progress_group[d] = 0

SlotInv == SlotsAccounted /\ \A d \in Committer : LeadRef(d)

\* What a step of c does to the slots: it keeps what it has, takes a free one, or
\* gives its own back.
SlotMove(c) ==
  /\ LeadRef(c)'
  /\ \/ Leads(c)' = Leads(c) /\ leaders_in_flight' = leaders_in_flight
     \/ ~Leads(c) /\ Leads(c)' /\ SlotFree /\ leaders_in_flight' = leaders_in_flight + 1
     \/ Leads(c) /\ ~Leads(c)' /\ leaders_in_flight' = leaders_in_flight - 1

\* Such a step keeps the account.
LEMMA SlotStep ==
  ASSUME TypeOK, SlotInv, NEW c \in Committer, Others(c), SlotMove(c)
  PROVE  SlotInv'
<1>1. \A d \in Committer : d # c => Leads(d)' = Leads(d) /\ LeadRef(d)'
  BY DEF Others, Leads, LeadRef, SlotInv, Working, WorkPcs
<1>2. Leaders = {d \in Committer : Leads(d)} /\ Leaders' = {d \in Committer : Leads(d)'}
  BY DEF Leaders, Leads, Working
<1>3. IsFiniteSet(Leaders)
  BY <1>2, CommitterAssumption, FS_Subset
<1>4. /\ leaders_in_flight = Cardinality(Leaders) /\ Cardinality(Leaders) \in Nat
      /\ leaders_in_flight <= Max2(MaxLeaders, AdaptiveLeaders)
  BY <1>3, FS_CardinalityType DEF SlotInv, SlotsAccounted
<1>5. SlotsAccounted'
  <2>1. CASE Leads(c)' = Leads(c) /\ leaders_in_flight' = leaders_in_flight
    <3>1. Leaders' = Leaders
      BY <1>1, <1>2, <2>1
    <3> QED BY <1>4, <2>1, <3>1 DEF SlotsAccounted
  <2>2. CASE ~Leads(c) /\ Leads(c)' /\ SlotFree /\ leaders_in_flight' = leaders_in_flight + 1
    <3>1. Leaders' = Leaders \cup {c} /\ c \notin Leaders
      BY <1>1, <1>2, <2>2
    <3>2. Cardinality(Leaders') = Cardinality(Leaders) + 1
      BY <1>3, <3>1, FS_AddElement
    <3>3. leaders_in_flight + 1 <= Max2(MaxLeaders, AdaptiveLeaders)
      BY <1>4, <2>2, SizeAssumption DEF SlotFree, effective_ceiling, Max2
    <3> QED BY <1>4, <2>2, <3>2, <3>3 DEF SlotsAccounted
  <2>3. CASE Leads(c) /\ ~Leads(c)' /\ leaders_in_flight' = leaders_in_flight - 1
    <3>1. Leaders' = Leaders \ {c} /\ c \in Leaders
      BY <1>1, <1>2, <2>3
    <3>2. Cardinality(Leaders') = Cardinality(Leaders) - 1
      BY <1>3, <3>1, FS_RemoveElement
    <3>3. Max2(MaxLeaders, AdaptiveLeaders) \in Nat
      BY SizeAssumption DEF Max2
    <3> QED BY <1>4, <2>3, <3>2, <3>3 DEF SlotsAccounted
  <2> QED BY <2>1, <2>2, <2>3 DEF SlotMove
<1> QED BY <1>1, <1>5 DEF SlotInv, SlotMove

\* The actions of a thread that is not at work on the log.
LEMMA AwayMoves ==
  ASSUME TypeOK, GroupInv, SlotInv, NEW c \in Committer,
         \/ Begin(c) \/ flush_no_sync(c) \/ NoSyncPwrite(c) \/ flush_sync_if_needed(c)
         \/ WaitFastPath(c) \/ WaitArrives(c) \/ WaitReturns(c) \/ TakeError(c) \/ Piggyback(c)
         \/ handoff_leader(c) \/ NotCovered(c) \/ Return(c)
  PROVE  SlotMove(c)
<1>0. LeadRef(c) /\ pc \in [Committer -> Pcs]
  BY DEF SlotInv, TypeOK, ThreadTypeOK
<1>1. /\ pc[c] \notin Working \cup {"grpc_wait"}
      /\ pc'[c] \notin (Working \ {"drain"}) \cup {"grpc_wait"}
      /\ UNCHANGED <<leaders_in_flight, in_progress_group>>
  <2>1. ASSUME NEW p, GoTo(c, p) PROVE pc'[c] = p
    BY <1>0, <2>1 DEF GoTo
  <2>2. ASSUME NEW p, NEW g, notify_one(c, p, g) PROVE pc'[c] = p
    BY <2>2 DEF notify_one, Notify
  <2> DEFINE away == /\ pc[c] \notin Working \cup {"grpc_wait"}
                     /\ pc'[c] \notin (Working \ {"drain"}) \cup {"grpc_wait"}
                     /\ UNCHANGED <<leaders_in_flight, in_progress_group>>
  <2>3. CASE Begin(c)
    <3>1. ASSUME NEW mode, NEW p, Log(c, mode, p), mode \in Modes PROVE away
      <4>1. pc[c] = "idle" /\ UNCHANGED <<leaders_in_flight, in_progress_group>>
        BY <3>1 DEF Log, manager
      <4>2. pc'[c] \in {"logged", "enter", "nosync"}
        BY <2>1, <3>1, SwitchAssumption DEF Log, Call
      <4> QED BY <4>1, <4>2 DEF Working, WorkPcs
    <3>2. ASSUME NEW p, LogFails(c, p) PROVE away
      BY <3>2 DEF LogFails, manager, own, Working, WorkPcs
    <3>3. CASE DirectWriteFails(c)
      BY <3>3 DEF DirectWriteFails, manager, own, Working, WorkPcs
    <3> HIDE DEF away
    <3>4. away
      BY <2>3, <3>1, <3>2, <3>3 DEF Begin, away
    <3> QED BY <3>4 DEF away
  <2>4. CASE flush_no_sync(c) \/ NoSyncPwrite(c)
    <3>1. /\ pc[c] \in {"nosync", "nosync_pwrite"}
          /\ UNCHANGED <<leaders_in_flight, in_progress_group>>
      BY <2>4 DEF flush_no_sync, NoSyncPwrite, manager
    <3>2. pc'[c] \in {"idle", "nosync_pwrite"}
      BY <2>1, <2>4 DEF flush_no_sync, NoSyncPwrite
    <3> QED BY <3>1, <3>2 DEF Working, WorkPcs
  <2>5. CASE flush_sync_if_needed(c)
    <3>1. pc[c] = "logged" /\ UNCHANGED <<leaders_in_flight, in_progress_group>>
      BY <2>5 DEF flush_sync_if_needed, manager
    <3>2. pc'[c] \in {"idle", "enter"}
      BY <2>1, <2>5 DEF flush_sync_if_needed
    <3> QED BY <3>1, <3>2 DEF Working, WorkPcs
  <2>6. CASE WaitFastPath(c) \/ WaitArrives(c) \/ WaitReturns(c)
    <3>1. pc[c] \in WaitPcs /\ UNCHANGED <<leaders_in_flight, in_progress_group>>
      BY <2>6 DEF WaitFastPath, WaitArrives, WaitReturns, WaitPcs, manager, own
    <3>2. pc'[c] \in {"no_fsync_needed", "do_leader_fsync", "parked", "do_timeout_fsync"}
      <4>1. ASSUME NEW p, Status(c, p) PROVE pc'[c] = p
        BY <2>1, <4>1 DEF Status
      <4>2. Designated(c) => pc'[c] = "do_leader_fsync"
        BY <2>1 DEF Designated
      <4> QED BY <2>6, <4>1, <4>2 DEF WaitFastPath, WaitArrives, WaitReturns
    <3> QED BY <3>1, <3>2 DEF Working, WorkPcs, WaitPcs
  <2>7. CASE TakeError(c) \/ Piggyback(c) \/ Return(c)
    <3>1. /\ pc[c] \in {"no_fsync_needed", "result", "return"}
          /\ UNCHANGED <<leaders_in_flight, in_progress_group>>
      BY <2>7 DEF TakeError, Piggyback, Return, manager
    <3>2. pc'[c] \in {"idle", "result"}
      BY <2>1, <2>7 DEF TakeError, Piggyback, Return, ReturnErr, ReturnOk
    <3> QED BY <3>1, <3>2 DEF Working, WorkPcs
  <2>8. CASE handoff_leader(c) \/ NotCovered(c)
    <3>1. /\ pc[c] \in {"do_leader_fsync", "do_timeout_fsync"}
          /\ UNCHANGED <<leaders_in_flight, in_progress_group>>
      BY <2>8 DEF handoff_leader, NotCovered, manager
    <3>2. pc'[c] \in {"idle", "lead", "drain"}
      BY <2>1, <2>2, <2>8 DEF handoff_leader, NotCovered
    <3> QED BY <3>1, <3>2 DEF Working, WorkPcs
  <2> QED BY <2>3, <2>4, <2>5, <2>6, <2>7, <2>8
<1> QED BY <1>0, <1>1 DEF SlotMove, Leads, LeadRef

\* The actions that take a slot, work with it and give it back.
LEMMA LeaderMoves ==
  ASSUME TypeOK, GroupInv, SlotInv, NEW c \in Committer,
         \/ flush_and_sync(c) \/ grpc_wait(c) \/ DoLeaderFsync(c)
         \/ Drain(c) \/ Pwrite(c) \/ sync_log_end(c) \/ Fdatasync(c)
         \/ wakeup_all(c) \/ WakeupInner(c) \/ ReleaseSlot(c)
  PROVE  SlotMove(c)
<1>0. /\ LeadRef(c) /\ pc \in [Committer -> Pcs] /\ in_progress_group \in [Committer -> Nat]
      /\ Len(groups) # 0 /\ (pc[c] \in InGroup => my_group[c] # 0)
      /\ (pc[c] \in Leading => in_progress_group[c] # 0)
  BY DEF SlotInv, TypeOK, ThreadTypeOK, GroupInv, GroupRef
<1>1. ASSUME NEW p, GoTo(c, p) PROVE pc'[c] = p
  BY <1>0, <1>1 DEF GoTo
<1>2. ASSUME NEW g, Capture(c, g) PROVE pc'[c] = "drain" /\ in_progress_group'[c] = g
  BY <1>0, <1>1, <1>2 DEF Capture
<1>3. ASSUME NEW g, g # 0, SlotFree, TakeSlot(c, g), pc[c] \notin Working \cup {"grpc_wait"}
      PROVE  SlotMove(c)
  <2>1. leaders_in_flight' = leaders_in_flight + 1 /\ ~Leads(c)
    BY <1>3 DEF TakeSlot, Leads
  <2>2. \/ pc'[c] = "drain" /\ in_progress_group'[c] # 0
        \/ pc'[c] = "grpc_wait" /\ in_progress_group'[c] = in_progress_group[c]
    BY <1>1, <1>2, <1>3 DEF TakeSlot
  <2> QED BY <1>0, <1>3, <2>1, <2>2 DEF SlotMove, Leads, LeadRef, Working, WorkPcs
<1>4. CASE flush_and_sync(c)
  <2>1. pc[c] = "enter" /\ pc[c] \notin Working \cup {"grpc_wait"}
    BY <1>4 DEF flush_and_sync, Working, WorkPcs
  <2>2. CASE SlotFree
    <3>1. TakeSlot(c, next_fsync_waiters) /\ next_fsync_waiters # 0
      BY <1>0, <1>4, <2>2 DEF flush_and_sync, next_fsync_waiters
    <3> HIDE DEF next_fsync_waiters
    <3> QED BY <1>3, <2>1, <2>2, <3>1
  <2>3. CASE ~SlotFree
    <3>1. pc'[c] = "arrive" /\ UNCHANGED <<leaders_in_flight, in_progress_group>>
      BY <1>1, <1>4, <2>3 DEF flush_and_sync, JoinWaiters
    <3> QED BY <1>0, <2>1, <3>1 DEF SlotMove, Leads, LeadRef, Working, WorkPcs
  <2> QED BY <2>2, <2>3
<1>5. CASE DoLeaderFsync(c)
  <2>1. pc[c] = "lead" /\ pc[c] \notin Working \cup {"grpc_wait"} /\ my_group[c] # 0
    BY <1>0, <1>5 DEF DoLeaderFsync, Working, WorkPcs, InGroup
  <2>2. CASE SlotFree /\ TakeSlot(c, my_group[c])
    BY <1>3, <2>1, <2>2
  <2>3. CASE GoTo(c, "drain") /\ UNCHANGED <<groups, manager, in_progress_group>>
    <3>1. pc'[c] = "drain" /\ UNCHANGED <<leaders_in_flight, in_progress_group>>
      BY <1>1, <2>3 DEF manager
    <3> QED BY <1>0, <2>1, <3>1 DEF SlotMove, Leads, LeadRef, Working, WorkPcs
  <2> QED BY <1>5, <2>2, <2>3 DEF DoLeaderFsync
<1>6. CASE grpc_wait(c)
  <2> DEFINE g == IF my_group[c] # 0 THEN my_group[c] ELSE next_fsync_waiters
  <2>1. pc[c] = "grpc_wait" /\ UNCHANGED leaders_in_flight /\ Capture(c, g) /\ g # 0
    BY <1>0, <1>6 DEF grpc_wait, next_fsync_waiters
  <2> HIDE DEF g
  <2>2. pc'[c] = "drain" /\ in_progress_group'[c] # 0
    BY <1>2, <2>1
  <2> QED BY <2>1, <2>2 DEF SlotMove, Leads, LeadRef, Working, WorkPcs
<1>7. CASE \/ Drain(c) \/ Pwrite(c) \/ sync_log_end(c) \/ Fdatasync(c)
           \/ wakeup_all(c) \/ WakeupInner(c)
  <2>1. /\ pc[c] \in {"drain", "pwrite", "sync", "fdatasync", "wakeup_all", "wakeup_inner"}
        /\ UNCHANGED <<leaders_in_flight, in_progress_group>>
    BY <1>7 DEF Drain, Pwrite, sync_log_end, Fdatasync, wakeup_all, WakeupInner, manager, own
  <2>2. ASSUME NEW r, WorkDone(c, r)
        PROVE  pc'[c] = IF in_progress_group[c] # 0 THEN "wakeup_all" ELSE "return"
    BY <1>1, <2>2 DEF WorkDone
  <2>3. \/ pc'[c] \in Working
        \/ pc'[c] = "return" /\ in_progress_group[c] = 0
    <3>1. CASE Drain(c) \/ Pwrite(c) \/ sync_log_end(c) \/ Fdatasync(c)
      BY <1>1, <2>2, <3>1 DEF Drain, Pwrite, sync_log_end, Fdatasync, Working, WorkPcs
    <3>2. CASE wakeup_all(c) \/ WakeupInner(c)
      BY <1>1, <3>2 DEF wakeup_all, WakeupInner, Notify, Working, WorkPcs
    <3> QED BY <1>7, <3>1, <3>2
  <2> QED BY <2>1, <2>3 DEF SlotMove, Leads, LeadRef, Working, WorkPcs
<1>8. CASE ReleaseSlot(c)
  <2>1. pc[c] = "release_slot" /\ leaders_in_flight' = leaders_in_flight - 1
    BY <1>8 DEF ReleaseSlot
  <2>2. pc'[c] = "return" /\ in_progress_group'[c] = 0
    BY <1>0, <1>8 DEF ReleaseSlot, notify_one, Notify
  <2>3. Leads(c)
    BY <1>0, <2>1 DEF Leads, Leading, Working, WorkPcs
  <2> QED BY <2>1, <2>2, <2>3 DEF SlotMove, Leads, LeadRef
<1> QED BY <1>4, <1>5, <1>6, <1>7, <1>8

\* No leader slot is lost or given back twice, and the ceiling holds: on the way
\* of a leader, of one that waits for its group (grpc_wait), of a designated
\* waiter and of a private fsync, with errors and hand-offs (flush_and_sync).
THEOREM SlotsAreAccounted == Spec => []SlotsAccounted
<1>1. Init => TypeOK /\ GroupInv /\ SlotInv
  <2> SUFFICES ASSUME Init PROVE SlotInv
    BY InitInv DEF IInv
  <2>1. Leaders = {}
    BY DEF Init, Leaders
  <2>2. Cardinality({}) = 0
    BY FS_EmptySet
  <2>3. SlotsAccounted
    BY <2>1, <2>2, SizeAssumption DEF Init, SlotsAccounted, Max2
  <2> QED BY <2>3 DEF Init, SlotInv, LeadRef
<1>2. TypeOK /\ GroupInv /\ SlotInv /\ [Next]_vars => (TypeOK /\ GroupInv /\ SlotInv)'
  <2> SUFFICES ASSUME TypeOK, GroupInv, SlotInv, [Next]_vars
               PROVE  (TypeOK /\ GroupInv /\ SlotInv)'
    OBVIOUS
  <2>1. ASSUME NEW c \in Committer, Begin(c) \/ Step(c) PROVE (TypeOK /\ GroupInv /\ SlotInv)'
    <3>1. TypeOK' /\ GroupInv' /\ Others(c)
      BY <2>1, TypesStep
    <3>2. SlotMove(c)
      BY <2>1, AwayMoves, LeaderMoves DEF Step
    <3> QED BY <3>1, <3>2, SlotStep
  <2>2. CASE UNCHANGED vars
    <3>1. SlotInv'
      BY <2>2 DEF vars, manager, own, SlotInv, SlotsAccounted, Leaders, LeadRef
    <3> QED BY <2>2, <3>1, StutterInv
  <2> QED BY <2>1, <2>2 DEF Next
<1> QED BY <1>1, <1>2, PTL DEF Spec, SlotInv
=============================================================================
