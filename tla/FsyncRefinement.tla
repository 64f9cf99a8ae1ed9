-------------------------- MODULE FsyncRefinement ---------------------------
(***************************************************************************)
(* The commit path implements CommitLog.  Durable entries form a prefix    *)
(* because the page cache does (drains run one after the other under the   *)
(* log write latch and collect everything), because an fdatasync writes    *)
(* all of the current file, and because the files before it are durable    *)
(* (PrefixInv, on top of IInv).                                            *)
(***************************************************************************)
EXTENDS FsyncManagerProofs

\* Nothing is missing below an entry of S.
Closed(S) == \A x \in S : Below(x, S)

\* Entries below flushed_len.
Collected(S) == \A x \in S : x < flushed_len

PrefixInv ==
  /\ durable \subseteq page_cache
  /\ Collected(page_cache)
  /\ Closed(page_cache)
  /\ Closed(durable)
  /\ \A c \in Committer :
       /\ pc[c] \in {"pwrite", "nosync_pwrite"} => Collected(batch[c])
       /\ pc[c] = "fdatasync" =>
            batch[c] \subseteq page_cache /\ Closed(durable \cup batch[c])

-----------------------------------------------------------------------------
\* The union of two prefixes is one.
LEMMA ClosedUnion ==
  ASSUME NEW S, NEW T, Closed(S), Closed(T)
  PROVE  Closed(S \cup T)
  BY DEF Closed, Below

\* Together with what is durable, the pages of the current file make a prefix of
\* any page cache that is one.
LEMMA CurrentFileCloses ==
  ASSUME IInv, Closed(durable),
         NEW S \in SUBSET (1 .. next_available_lsn - 1), Closed(S)
  PROVE  Closed(durable \cup DirtyIn(S))
<1>1. next_available_lsn \in Int /\ MaxLsn \in Int
  BY SizeAssumption DEF IInv, TypeOK, LogTypeOK
<1> SUFFICES ASSUME NEW x \in durable \cup DirtyIn(S), NEW y \in Int, 1 <= y, y < x
             PROVE  y \in durable \cup DirtyIn(S)
  BY DEF Closed, Below
<1>2. CASE x \in durable
  BY <1>2 DEF Closed, Below
<1>3. CASE x \in S /\ FileOf(x) = CurrentFile
  <2>1. y \in S
    BY <1>3 DEF Closed, Below
  <2>2. y < next_available_lsn
    BY <1>1, <2>1
  <2>3. FileOf(y) = CurrentFile \/ y \in durable
    BY <2>2 DEF IInv, FileInv
  <2> QED BY <2>1, <2>3 DEF DirtyIn
<1> QED BY <1>2, <1>3 DEF DirtyIn

\* A valid log whose latch is free: a drain leaves everything appended in the
\* page cache.
LEMMA DrainCloses ==
  ASSUME IInv, PrefixInv, ~io_invalid, lwl = 0
  PROVE  /\ page_cache \cup Unflushed = 1 .. next_available_lsn - 1
         /\ Closed(page_cache \cup Unflushed)
<1>1. /\ next_available_lsn \in Int /\ flushed_len \in Int /\ flushed_len >= 1
      /\ page_cache \in SUBSET (1 .. MaxLsn) /\ flushed_len <= next_available_lsn
  BY SizeAssumption DEF IInv, TypeOK, LogTypeOK, LatchInv
<1>2. Below(flushed_len, page_cache)
  BY DEF IInv, LatchInv
<1>3. \A x \in page_cache : x \in Int /\ 1 <= x /\ x < next_available_lsn
  BY <1>1, SizeAssumption DEF PrefixInv, Collected
<1>4. page_cache \cup Unflushed = 1 .. next_available_lsn - 1
  <2>1. ASSUME NEW x \in page_cache \cup Unflushed PROVE x \in 1 .. next_available_lsn - 1
    BY <1>1, <1>3 DEF Unflushed
  <2>2. ASSUME NEW x \in 1 .. next_available_lsn - 1 PROVE x \in page_cache \cup Unflushed
    BY <1>1, <1>2 DEF Unflushed, Below
  <2> QED BY <2>1, <2>2
<1> QED BY <1>1, <1>4 DEF Closed, Below

-----------------------------------------------------------------------------
(* Each step keeps PrefixInv; what it makes durable was appended before.   *)

\* What a step needs of the entries it makes durable.
Kept == PrefixInv' /\ durable' \subseteq 1 .. next_available_lsn - 1

\* Everything in the page cache was appended.
LEMMA CachedIsAppended ==
  ASSUME IInv, PrefixInv
  PROVE  page_cache \subseteq 1 .. next_available_lsn - 1
<1>1. /\ next_available_lsn \in Int /\ flushed_len \in Int
      /\ page_cache \in SUBSET (1 .. MaxLsn) /\ flushed_len <= next_available_lsn
  BY SizeAssumption DEF IInv, TypeOK, LogTypeOK, LatchInv
<1> QED BY <1>1, SizeAssumption DEF PrefixInv, Collected

\* The threads that are in an fdatasync or hold the latch and take no step keep
\* their part when the log only grows.
LEMMA OtherThreads ==
  ASSUME IInv, PrefixInv, TypeOK', NEW c \in Committer, Others(c), Closed(durable'),
         page_cache \subseteq page_cache', flushed_len' >= flushed_len,
         durable \subseteq durable',
         NEW d \in Committer, d # c, batch'[d] = batch[d]
  PROVE  /\ pc'[d] \in {"pwrite", "nosync_pwrite"} => \A x \in batch'[d] : x < flushed_len'
         /\ pc'[d] = "fdatasync" =>
              batch'[d] \subseteq page_cache' /\ Closed(durable' \cup batch'[d])
<1>1. pc'[d] \in {"pwrite", "nosync_pwrite", "fdatasync"} => pc'[d] = pc[d]
  BY DEF Others
<1>2. batch[d] \in SUBSET (1 .. MaxLsn) /\ flushed_len \in Int /\ flushed_len' \in Int
  BY SizeAssumption DEF IInv, TypeOK, LogTypeOK, ThreadTypeOK
<1>3. ASSUME pc'[d] \in {"pwrite", "nosync_pwrite"}, NEW x \in batch'[d]
      PROVE  x < flushed_len'
  <2>1. x \in batch[d] /\ x \in Int
    BY <1>2, SizeAssumption
  <2>2. x < flushed_len
    BY <1>1, <1>3, <2>1 DEF PrefixInv, Collected
  <2> QED BY <1>2, <2>1, <2>2
<1>4. ASSUME pc'[d] = "fdatasync"
      PROVE  batch'[d] \subseteq page_cache' /\ Closed(durable' \cup batch'[d])
  <2>1. batch[d] \subseteq page_cache /\ Closed(durable \cup batch[d])
    BY <1>1, <1>4 DEF PrefixInv
  <2>2. durable' \cup batch'[d] = durable' \cup (durable \cup batch[d])
    OBVIOUS
  <2> QED BY <2>1, <2>2, ClosedUnion
<1> QED BY <1>3, <1>4

\* The general shape of a step of c.
LEMMA GrowStep ==
  ASSUME IInv, PrefixInv, TypeOK', NEW c \in Committer, Others(c),
         page_cache \subseteq page_cache', flushed_len' >= flushed_len,
         durable \subseteq durable', durable' \subseteq page_cache',
         \A x \in page_cache' : x < flushed_len',
         Closed(page_cache'), Closed(durable'),
         \A d \in Committer : d # c => batch'[d] = batch[d],
         pc'[c] \in {"pwrite", "nosync_pwrite"} => \A x \in batch'[c] : x < flushed_len',
         pc'[c] = "fdatasync" =>
           batch'[c] \subseteq page_cache' /\ Closed(durable' \cup batch'[c])
  PROVE  PrefixInv'
<1>1. ASSUME NEW d \in Committer
      PROVE  /\ pc'[d] \in {"pwrite", "nosync_pwrite"} => \A x \in batch'[d] : x < flushed_len'
             /\ pc'[d] = "fdatasync" =>
                  batch'[d] \subseteq page_cache' /\ Closed(durable' \cup batch'[d])
  <2>1. CASE d = c  BY <2>1
  <2>2. CASE d # c  BY <2>2, OtherThreads
  <2> QED BY <2>1, <2>2
<1> QED BY <1>1 DEF PrefixInv, Collected, Closed, Below

\* The steps of FsyncManager that leave the log alone.
LEMMA QuietPrefix ==
  ASSUME IInv, PrefixInv, TypeOK', NEW c \in Committer, Others(c), Quiet(c)
  PROVE  Kept
<1>1. /\ UNCHANGED <<page_cache, flushed_len, durable, batch>>
      /\ pc'[c] \notin {"pwrite", "nosync_pwrite", "fdatasync"}
  BY DEF Quiet, log_vars, Settled
<1>2. flushed_len \in Int
  BY DEF IInv, TypeOK, LogTypeOK
<1>3. /\ Closed(page_cache) /\ Closed(durable) /\ durable \subseteq page_cache
      /\ \A x \in page_cache : x < flushed_len
  BY DEF PrefixInv, Collected
<1>4. Closed(page_cache') /\ Closed(durable') /\ flushed_len' >= flushed_len
  BY <1>1, <1>2, <1>3
<1>5. PrefixInv'
  BY <1>1, <1>3, <1>4, GrowStep
<1> QED BY <1>1, <1>5, CachedIsAppended DEF PrefixInv, Kept

\* An append: on a flip everything before it becomes durable.
LEMMA LogPrefix ==
  ASSUME IInv, PrefixInv, TypeOK', NEW c \in Committer, Others(c),
         NEW mode \in Modes, NEW p \in Placements, Log(c, mode, p)
  PROVE  Kept
<1> DEFINE drained == IF DrainsFirst(p) THEN page_cache \cup Unflushed ELSE page_cache
<1>1. /\ next_available_lsn \in Int /\ flushed_len \in Int
      /\ flushed_len <= next_available_lsn /\ next_available_lsn >= 1
  BY SizeAssumption DEF IInv, TypeOK, LogTypeOK, LatchInv
<1>2. /\ page_cache \cup Unflushed = 1 .. next_available_lsn - 1
      /\ Closed(page_cache \cup Unflushed)
  BY DrainCloses DEF Log
<1>3. /\ page_cache \subseteq 1 .. next_available_lsn - 1
      /\ Closed(page_cache) /\ Closed(durable) /\ durable \subseteq page_cache
  BY CachedIsAppended DEF PrefixInv
<1>4. drained \in SUBSET (1 .. next_available_lsn - 1) /\ Closed(drained)
  BY <1>2, <1>3
<1>5. /\ batch' = batch
      /\ pc'[c] \notin {"pwrite", "nosync_pwrite", "fdatasync"}
  BY SwitchAssumption DEF Log, Call, GoTo, IInv, TypeOK, ThreadTypeOK
<1>6. durable' = (IF Flips THEN durable \cup DirtyIn(drained) ELSE durable)
  BY DEF Log
<1>7. /\ durable \subseteq durable' /\ durable' \subseteq drained
      /\ page_cache \subseteq drained
  BY <1>3, <1>6 DEF DirtyIn
<1>8. Closed(durable')
  BY <1>3, <1>4, <1>6, CurrentFileCloses
<1>9. CASE p = "oversized"
  <2>1. page_cache' = 1 .. next_available_lsn /\ flushed_len' = next_available_lsn + 1
    BY <1>1, <1>2, <1>9 DEF Log, DrainsFirst
  <2>2. Closed(page_cache')
    BY <1>1, <2>1 DEF Closed, Below
  <2>3. /\ page_cache \subseteq page_cache' /\ durable' \subseteq page_cache'
        /\ \A x \in page_cache' : x < flushed_len'
        /\ flushed_len' >= flushed_len
    BY <1>1, <1>3, <1>4, <1>7, <2>1
  <2>4. PrefixInv'
    BY <1>5, <1>7, <1>8, <2>2, <2>3, GrowStep
  <2> QED BY <1>4, <1>7, <2>4 DEF Kept
<1>10. CASE p # "oversized"
  <2>1. /\ page_cache' = drained
        /\ flushed_len' = IF DrainsFirst(p) THEN next_available_lsn ELSE flushed_len
    BY <1>10 DEF Log
  <2>2. /\ \A x \in page_cache' : x < flushed_len'
        /\ flushed_len' >= flushed_len
    BY <1>1, <1>2, <2>1 DEF PrefixInv, Collected
  <2>3. PrefixInv'
    <3> HIDE DEF drained
    <3> QED BY <1>4, <1>5, <1>7, <1>8, <2>1, <2>2, GrowStep
  <2> QED BY <1>4, <1>7, <2>3 DEF Kept
<1> QED BY <1>9, <1>10

\* An append whose drain, rotation or direct write fails.
LEMMA LogFailsPrefix ==
  ASSUME IInv, PrefixInv, TypeOK', NEW c \in Committer, Others(c),
         (\E p \in Placements : LogFails(c, p)) \/ DirectWriteFails(c)
  PROVE  Kept
<1>1. /\ next_available_lsn \in Int /\ flushed_len \in Int
      /\ flushed_len <= next_available_lsn /\ next_available_lsn >= 1
  BY SizeAssumption DEF IInv, TypeOK, LogTypeOK, LatchInv
<1>2. /\ page_cache \cup Unflushed = 1 .. next_available_lsn - 1
      /\ Closed(page_cache \cup Unflushed)
  BY DrainCloses DEF LogFails, DirectWriteFails
<1>3. /\ page_cache \subseteq 1 .. next_available_lsn - 1
      /\ Closed(page_cache) /\ Closed(durable) /\ durable \subseteq page_cache
  BY CachedIsAppended DEF PrefixInv
<1>4. /\ batch' = batch
      /\ pc'[c] \notin {"pwrite", "nosync_pwrite", "fdatasync"}
  BY DEF LogFails, DirectWriteFails
<1>5. CASE \E p \in Placements : LogFails(c, p)
  <2>1. /\ UNCHANGED <<page_cache, durable>>
        /\ flushed_len' = next_available_lsn
    BY <1>5 DEF LogFails
  <2>2. \A x \in page_cache' : x < flushed_len'
    BY <1>1, <1>3, <2>1
  <2>3. PrefixInv'
    BY <1>1, <1>3, <1>4, <2>1, <2>2, GrowStep
  <2> QED BY <1>3, <2>1, <2>3 DEF Kept
<1>6. CASE DirectWriteFails(c)
  <2>1. /\ page_cache' = 1 .. next_available_lsn - 1
        /\ flushed_len' = next_available_lsn + 1
        /\ durable' = IF Flips THEN durable \cup DirtyIn(page_cache') ELSE durable
    BY <1>2, <1>6 DEF DirectWriteFails
  <2>2. /\ Closed(page_cache')
        /\ \A x \in page_cache' : x < flushed_len'
    BY <1>1, <2>1 DEF Closed, Below
  <2>3. /\ durable \subseteq durable' /\ durable' \subseteq page_cache'
        /\ page_cache \subseteq page_cache'
    BY <1>3, <2>1 DEF DirtyIn
  <2>4. Closed(durable')
    BY <1>3, <2>1, <2>2, CurrentFileCloses
  <2>5. flushed_len' >= flushed_len
    BY <1>1, <2>1
  <2>6. PrefixInv'
    BY <1>4, <2>2, <2>3, <2>4, <2>5, GrowStep
  <2> QED BY <2>1, <2>3, <2>6 DEF Kept
<1> QED BY <1>5, <1>6

\* The two drains collect what was appended ...
LEMMA CollectPrefix ==
  ASSUME IInv, PrefixInv, TypeOK', NEW c \in Committer, Others(c),
         flush_no_sync(c) \/ Drain(c)
  PROVE  Kept
<1>1. /\ next_available_lsn \in Int /\ flushed_len \in Int
      /\ flushed_len <= next_available_lsn
  BY SizeAssumption DEF IInv, TypeOK, LogTypeOK, LatchInv
<1>2. UNCHANGED <<page_cache, durable>>
  BY DEF flush_no_sync, Drain
<1>3. flushed_len' \in {flushed_len, next_available_lsn}
  BY DEF flush_no_sync, Drain, fill_flush_pending
<1>4. \A d \in Committer : d # c => batch'[d] = batch[d]
  BY DEF flush_no_sync, Drain, fill_flush_pending, IInv, TypeOK, ThreadTypeOK
<1>5. pc'[c] \in {"pwrite", "nosync_pwrite"} =>
        batch'[c] = Unflushed /\ flushed_len' = next_available_lsn
  BY DEF flush_no_sync, Drain, fill_flush_pending, WorkDone, GoTo, IInv, TypeOK,
     ThreadTypeOK
<1>6. pc'[c] # "fdatasync"
  BY DEF flush_no_sync, Drain, WorkDone, GoTo, IInv, TypeOK, ThreadTypeOK
<1>7. pc'[c] \in {"pwrite", "nosync_pwrite"} => \A x \in batch'[c] : x < flushed_len'
  BY <1>1, <1>5 DEF Unflushed
<1>8. \A x \in page_cache' : x < flushed_len'
  <2>1. page_cache \in SUBSET (1 .. MaxLsn)
    BY DEF IInv, TypeOK, LogTypeOK
  <2> QED BY <1>1, <1>2, <1>3, <2>1, SizeAssumption DEF PrefixInv, Collected
<1>9. Closed(page_cache) /\ Closed(durable) /\ durable \subseteq page_cache
  BY DEF PrefixInv
<1>10. flushed_len' >= flushed_len
  BY <1>1, <1>3
<1>11. Closed(page_cache') /\ Closed(durable')
  BY <1>2, <1>9
<1>12. PrefixInv'
  BY <1>2, <1>4, <1>6, <1>7, <1>8, <1>9, <1>10, <1>11, GrowStep
<1> QED BY <1>2, <1>12, CachedIsAppended DEF PrefixInv, Kept

\* ... and write it: the latch kept every other drain out meanwhile.
LEMMA WrittenPrefix ==
  ASSUME IInv, PrefixInv, TypeOK', NEW c \in Committer, Others(c),
         NoSyncPwrite(c) \/ Pwrite(c)
  PROVE  Kept
<1>1. /\ flushed_len \in Int /\ page_cache \in SUBSET Int /\ batch[c] \in SUBSET Int
      /\ UNCHANGED <<flushed_len, durable>>
  BY DEF IInv, TypeOK, LogTypeOK, ThreadTypeOK, NoSyncPwrite, Pwrite
<1>2. lwl = c /\ lwl # 0 /\ pc[c] \in {"pwrite", "nosync_pwrite"}
  BY CommitterAssumption DEF NoSyncPwrite, Pwrite, IInv, LatchInv
<1>3. Below(flushed_len, page_cache \cup batch[c]) /\ Collected(batch[c])
  BY <1>2 DEF IInv, LatchInv, PrefixInv
<1>4. page_cache' = page_cache \/ page_cache' = page_cache \cup batch[c]
  BY DEF NoSyncPwrite, Pwrite, Pwritten, PwriteFailed
<1>5. \A x \in page_cache \cup batch[c] : x < flushed_len
  BY <1>3 DEF PrefixInv, Collected
<1>6. Closed(page_cache \cup batch[c])
  <2> SUFFICES ASSUME NEW x \in page_cache \cup batch[c], NEW y \in Int, 1 <= y, y < x
               PROVE  y \in page_cache \cup batch[c]
    BY DEF Closed, Below
  <2>1. x \in Int /\ y < flushed_len
    BY <1>1, <1>5
  <2> QED BY <1>3, <2>1 DEF Below
<1>7. Closed(page_cache') /\ \A x \in page_cache' : x < flushed_len'
  BY <1>1, <1>4, <1>5, <1>6 DEF PrefixInv
<1>8. \A d \in Committer : d # c => batch'[d] = batch[d]
  BY DEF NoSyncPwrite, Pwrite, Pwritten, PwriteFailed, IInv, TypeOK, ThreadTypeOK
<1>9. pc'[c] \notin {"pwrite", "nosync_pwrite", "fdatasync"}
  BY DEF NoSyncPwrite, Pwrite, WorkDone, GoTo, IInv, TypeOK, ThreadTypeOK
<1>10. Closed(durable) /\ durable \subseteq page_cache
  BY DEF PrefixInv
<1>11. Closed(durable') /\ page_cache \subseteq page_cache' /\ flushed_len' >= flushed_len
  BY <1>1, <1>4, <1>10
<1>12. PrefixInv'
  BY <1>1, <1>7, <1>8, <1>9, <1>10, <1>11, GrowStep
<1> QED BY <1>1, <1>12, CachedIsAppended DEF PrefixInv, Kept

\* An fdatasync starts with all of the current file ...
LEMMA SyncPrefix ==
  ASSUME IInv, PrefixInv, TypeOK', NEW c \in Committer, Others(c), sync_log_end(c)
  PROVE  Kept
<1>1. /\ UNCHANGED <<flushed_len, page_cache, durable>> /\ flushed_len \in Int
      /\ pc'[c] = "fdatasync" /\ batch'[c] = DirtyIn(page_cache)
      /\ \A d \in Committer : d # c => batch'[d] = batch[d]
  BY DEF sync_log_end, UnchangedLog, log_vars, GoTo, IInv, TypeOK, ThreadTypeOK, LogTypeOK
<1>2. Closed(durable \cup DirtyIn(page_cache))
  BY CurrentFileCloses, CachedIsAppended DEF PrefixInv
<1>3. DirtyIn(page_cache) \subseteq page_cache
  BY DEF DirtyIn
<1>4. /\ Closed(page_cache) /\ Closed(durable) /\ durable \subseteq page_cache
      /\ \A x \in page_cache : x < flushed_len
  BY DEF PrefixInv, Collected
<1>5. Closed(page_cache') /\ Closed(durable') /\ flushed_len' >= flushed_len
  BY <1>1, <1>4
<1>6. PrefixInv'
  BY <1>1, <1>2, <1>3, <1>4, <1>5, GrowStep
<1> QED BY <1>1, <1>6, CachedIsAppended DEF PrefixInv, Kept

\* ... and makes it durable, or fails and loses nothing.
LEMMA FdatasyncPrefix ==
  ASSUME IInv, NoLoss, PrefixInv, TypeOK', NEW c \in Committer, Others(c), Fdatasync(c)
  PROVE  Kept
<1>1. /\ UNCHANGED <<flushed_len, page_cache>> /\ flushed_len \in Int
      /\ pc[c] = "fdatasync"
      /\ pc'[c] \notin {"pwrite", "nosync_pwrite", "fdatasync"}
      /\ durable' = durable \/ durable' = durable \cup batch[c]
  <2>1. pc[c] = "fdatasync" /\ UNCHANGED flushed_len /\ flushed_len \in Int
    BY DEF Fdatasync, IInv, TypeOK, LogTypeOK
  <2>2. pc'[c] \in {"wakeup_all", "return"}
    BY DEF Fdatasync, WorkDone, GoTo, IInv, TypeOK, ThreadTypeOK
  <2>3. page_cache' = page_cache
    BY DEF Fdatasync, NoLoss
  <2>4. durable' = durable \/ durable' = durable \cup batch[c]
    BY DEF Fdatasync
  <2> QED BY <2>1, <2>2, <2>3, <2>4
<1>2. \A d \in Committer : d # c => batch'[d] = batch[d]
  BY DEF Fdatasync, IInv, TypeOK, ThreadTypeOK, NoLoss
<1>3. Closed(durable') /\ durable' \subseteq page_cache
  BY <1>1 DEF PrefixInv
<1>4. /\ Closed(page_cache) /\ \A x \in page_cache : x < flushed_len
      /\ durable \subseteq durable'
  BY <1>1 DEF PrefixInv, Collected
<1>5. Closed(page_cache') /\ flushed_len' >= flushed_len
  BY <1>1, <1>4
<1>6. PrefixInv'
  BY <1>1, <1>2, <1>3, <1>4, <1>5, GrowStep
<1> QED BY <1>1, <1>3, <1>6, CachedIsAppended DEF PrefixInv, Kept

\* Every step.
LEMMA PrefixStep ==
  ASSUME IInv, NoLoss, PrefixInv, NEW c \in Committer, Begin(c) \/ Step(c)
  PROVE  Kept /\ durable \subseteq durable'
<1>1. TypeOK' /\ Others(c)
  BY TypesStep DEF IInv
<1>2. durable \subseteq durable'
  BY DurableStep
<1>3. CASE QuietAction(c)
  BY <1>1, <1>2, <1>3, QuietActions, QuietPrefix
<1>4. CASE ~QuietAction(c)
  BY <1>1, <1>2, <1>4, LogPrefix, LogFailsPrefix, CollectPrefix, WrittenPrefix,
     SyncPrefix, FdatasyncPrefix
  DEF Begin, Step, QuietAction
<1> QED BY <1>3, <1>4

\* What one step does to the end of the log and to the acknowledgements.
AckShape(c) ==
  \/ UNCHANGED acked /\ next_available_lsn' \in {next_available_lsn, next_available_lsn + 1}
  \/ acked' = acked \cup {lsn[c]} /\ UNCHANGED <<next_available_lsn, durable>>

\* Only the steps that return Ok acknowledge, and they leave the log alone.
LEMMA AckShapes ==
  ASSUME TypeOK, NEW c \in Committer, Begin(c) \/ Step(c)
  PROVE  AckShape(c)
<1>1. CASE Begin(c)
  BY <1>1 DEF Begin, Log, LogFails, DirectWriteFails, AckShape
<1>2. CASE flush_no_sync(c) \/ NoSyncPwrite(c) \/ Drain(c) \/ Pwrite(c) \/ Fdatasync(c)
  BY <1>2 DEF flush_no_sync, NoSyncPwrite, Drain, Pwrite, Fdatasync, AckShape
<1>3. CASE flush_and_sync(c) \/ grpc_wait(c) \/ WaitFastPath(c) \/ WaitArrives(c)
           \/ WaitReturns(c) \/ NotCovered(c) \/ DoLeaderFsync(c) \/ sync_log_end(c)
           \/ wakeup_all(c) \/ WakeupInner(c) \/ ReleaseSlot(c)
  BY <1>3 DEF flush_and_sync, grpc_wait, WaitFastPath, WaitArrives, WaitReturns, NotCovered,
     DoLeaderFsync, sync_log_end, wakeup_all, WakeupInner, ReleaseSlot, UnchangedLog,
     log_vars, AckShape
<1>4. CASE flush_sync_if_needed(c) \/ TakeError(c) \/ Piggyback(c) \/ handoff_leader(c)
           \/ Return(c)
  BY <1>4 DEF flush_sync_if_needed, TakeError, Piggyback, handoff_leader, Return, ReturnOk,
     ReturnErr, Acknowledge, log_vars, AckShape
<1> QED BY <1>1, <1>2, <1>3, <1>4 DEF Step

\* A step of the commit path is a step of CommitLog, or changes nothing of it.
LEMMA StepImplements ==
  ASSUME AckInv, ~Failures, PrefixInv, NEW c \in Committer, Begin(c) \/ Step(c)
  PROVE  Promise!Next \/ UNCHANGED Promise!log
<1>1. AckInv' /\ Kept /\ durable \subseteq durable' /\ AckShape(c)
  BY AckStep, PrefixStep, AckShapes DEF AckInv, IInv, NoLoss
<1>2. Promise!IsPrefix(durable')
  <2>1. durable' \in SUBSET (1 .. MaxLsn) /\ Closed(durable')
    BY <1>1 DEF AckInv, IInv, TypeOK, LogTypeOK, Kept, PrefixInv, Closed, Below
  <2> QED BY <2>1, SizeAssumption DEF Promise!IsPrefix, Closed, Below
<1>3. Promise!Stabilise
  BY <1>1, <1>2 DEF Promise!Stabilise, Kept
<1>4. CASE UNCHANGED acked /\ next_available_lsn' = next_available_lsn
  BY <1>3, <1>4 DEF Promise!Next, Promise!Sync
<1>5. CASE UNCHANGED acked /\ next_available_lsn' = next_available_lsn + 1
  BY <1>3, <1>5 DEF Promise!Next, Promise!Append
<1>6. CASE acked' = acked \cup {lsn[c]} /\ UNCHANGED <<next_available_lsn, durable>>
  <2>1. lsn[c] \in 1 .. MaxLsn /\ Below(lsn[c] + 1, durable')
    BY <1>1, <1>6 DEF AckInv, IInv, TypeOK, LogTypeOK, CohortInv, Below
  <2>2. lsn[c] \in durable
    BY <1>6, <2>1, SizeAssumption DEF Below
  <2> QED BY <1>6, <2>2 DEF Promise!Next, Promise!Acknowledge
<1> QED BY <1>1, <1>4, <1>5, <1>6 DEF AckShape

\* While no I/O fails the commit path implements CommitLog: after every step, of
\* however many committers and leaders, the disk holds a prefix of the log, what
\* it holds it keeps, and flush_sync_to and flush_sync_if_needed return Ok only
\* for an entry that is on it.
THEOREM Implementation ==
  ASSUME ~Failures
  PROVE  Spec => ImplementsCommitLog
<1>1. Init => AckInv /\ PrefixInv /\ Promise!Init
  <2>1. Init => AckInv
    BY InitAck
  <2>2. Init => PrefixInv
    BY DEF Init, PrefixInv, Collected, Closed
  <2>3. Init => Promise!Init
    BY DEF Init, Promise!Init
  <2> QED BY <2>1, <2>2, <2>3
<1>2. AckInv /\ PrefixInv /\ [Next]_vars => (AckInv /\ PrefixInv)'
  <2>1. ASSUME AckInv, PrefixInv, NEW c \in Committer, Begin(c) \/ Step(c)
        PROVE  AckInv' /\ PrefixInv'
    BY <2>1, AckStep, PrefixStep DEF AckInv, NoLoss, Kept
  <2>2. ASSUME AckInv, PrefixInv, UNCHANGED vars
        PROVE  AckInv' /\ PrefixInv'
    BY <2>2, StutterInv DEF vars, log_vars, PrefixInv, Collected, Closed, Below
  <2> QED BY <2>1, <2>2 DEF Next
<1>3. AckInv /\ PrefixInv /\ [Next]_vars => [Promise!Next]_(Promise!log)
  <2>1. UNCHANGED vars => UNCHANGED Promise!log
    BY DEF vars, log_vars, Promise!log
  <2> QED BY <2>1, StepImplements DEF Next
<1> QED BY <1>1, <1>2, <1>3, PTL DEF Spec, ImplementsCommitLog, Promise!Spec
=============================================================================
