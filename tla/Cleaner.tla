------------------------------- MODULE Cleaner -------------------------------
(***************************************************************************)
(* Reclaiming log files: the cleaner (noxu-cleaner) migrates the live LNs  *)
(* of a file to the end of the log, the checkpointer (noxu-recovery) makes *)
(* the tree that refers to them durable, and only then is the file deleted.*)
(* Transactions write, commit and abort meanwhile, and the process may     *)
(* crash at any point and recover from what the log still holds.           *)
(*                                                                         *)
(* Abstractions.  There is one log; an LSN is an index into it and a file  *)
(* is FileSize consecutive entries.  There is one database, always open,   *)
(* whose tree is one BIN logged in full.  A record is too long to be       *)
(* embedded in its slot, so a slot is an LSN and the value is read from    *)
(* the log.  The value of an LN is named by the LSN it was first logged    *)
(* at; a migrated copy keeps that name.  Records are inserted and updated, *)
(* not deleted.  The utilization score that ranks the files that may be    *)
(* cleaned is left out: any of them may be chosen.  When the log has       *)
(* MaxLog entries the disk is full and every append fails.                 *)
(***************************************************************************)
EXTENDS Integers, Sequences, FiniteSets, FiniteSetsExt

CONSTANTS
    Key,         \* records
    Txn,         \* transaction ids
    FileSize,    \* entries of a log file
    MinAge,      \* CLEANER_MIN_AGE: files that separate a candidate from the newest
    MaxLog,      \* bound: entries of the log
    MaxCrashLog  \* bound: entries of the log that a crash leaves and a run goes on from

ASSUME CleanerAssumption ==
    /\ IsFiniteSet(Key) /\ IsFiniteSet(Txn) /\ 0 \notin Txn
    /\ FileSize \in Nat \ {0} /\ MinAge \in Nat \ {0}
    /\ MaxLog \in Nat /\ MaxCrashLog \in Nat

None == 0
Lsn == 1 .. MaxLog
File == 0 .. MaxLog
Agent == {"cleaner", "checkpointer"}

LN == [type : {"LN"}, key : Key, txn : Txn \cup {None}, abort : Lsn \cup {None}, val : Lsn]
TxnEnd == [type : {"Commit", "Abort"}, txn : Txn]
CkptStartEntry == [type : {"CkptStart"}]
BinImage == [type : {"BIN"}, slots : [Key -> Lsn \cup {None}]]
CkptEndEntry == [type : {"CkptEnd"}, start : Lsn, root : Lsn \cup {None}]
Entry == LN \cup TxnEnd \cup CkptStartEntry \cup BinImage \cup CkptEndEntry

VARIABLES
    log, durable,   \* the log and the length of it that an fsync covers
    gone,           \* log files that have been deleted
    slot, dirty,    \* the BIN: slot LSNs, dirty flag
    root,           \* LSN of its last image (last_full_lsn, the tree's root LSN)
    txn,            \* transactions: idle, active or done
    writer, before, \* who holds the write locks of a record; the slot before it
    unpub,          \* LN logged by the writer and not yet in the slot
    being, cleaned, checkpointed, safe,  \* FileSelector: the files in each state
    pending, anyPending,                 \* FileSelector: LNs not migrated; the flag
    pc, todo,       \* cleaner and checkpointer: step; LNs still to look at
    at, tree,       \* and: LN being processed, the slot LSN found for it
    locked,         \* FileProcessResult.locked_lns of the file being cleaned
    clamp,          \* effective_newest of the pass
    snap, start,    \* checkpoint: cleaned files at its start, LSN of CkptStart
    settled,        \* history: for a file, the log when its last pending LN was settled
    exposed         \* history: the windows that some step so far has fallen into

logVars == <<log, durable, gone>>
treeVars == <<slot, dirty, root>>
txnVars == <<txn, writer, before, unpub>>
selVars == <<being, cleaned, checkpointed, safe, pending, anyPending, settled>>
lookVars == <<todo, at, tree>>
passVars == <<locked, clamp>>
ckptVars == <<snap, start>>
vars == <<logVars, treeVars, txnVars, selVars, pc, lookVars, passVars, ckptVars, exposed>>

-----------------------------------------------------------------------------
(* The log *)

FileOf(l) == (l - 1) \div FileSize
Newest == FileOf(Len(log))
Full == Len(log) >= MaxLog
Append1(e) == /\ ~Full
              /\ log' = Append(log, e)
End == Len(log) + 1   \* LSN of the next entry

\* The entries of a file.
EntriesOf(f) == {l \in 1 .. Len(log) : FileOf(l) = f}

\* What survives when the first n entries are on disk.
Survives(l, n) == l \in 1 .. n /\ FileOf(l) \notin gone
Surviving(n, ty) == {l \in 1 .. n : log[l].type = ty /\ FileOf(l) \notin gone}
IsLN(l) == log[l].type = "LN"
Latest(S) == IF S = {} THEN None ELSE Max(S)

-----------------------------------------------------------------------------
(* Recovery of a log of n entries (RecoveryManager::recover_all) *)

\* find_last_checkpoint: where the last checkpoint that ended began, and its root.
NoCkpt == [type |-> "CkptEnd", start |-> None, root |-> None]
LastCkpt(n) == LET ends == Surviving(n, "CkptEnd")
               IN  IF ends = {} THEN NoCkpt ELSE log[Max(ends)]

\* run_analysis: a transaction has committed if its commit record is in the log.
Committed(n) == {log[l].txn : l \in Surviving(n, "Commit")}

\* The tree is seeded with the root of the checkpoint; an image logged since the
\* checkpoint began replaces it (apply_in_redo_to_tree, recover_root_bin).
BaseImage(n, ckpt) == Latest({ckpt.root} \cup {l \in Surviving(n, "BIN") : l >= ckpt.start})

\* The redo gate: with a seeded tree, LNs logged before the checkpoint began are
\* taken to be in it.
RedoFrom(ckpt) == IF ckpt.root = None THEN None ELSE ckpt.start

\* eligible_for_redo: an LN of no transaction or of a committed one.
EligibleForRedo(n, committed) ==
    {l \in Surviving(n, "LN") : log[l].txn \in committed \cup {None}}

\* run_redo_all: past the gate, redo_insert replaces a slot by a later LSN only.
Redone(k, n, ckpt, committed) ==
    LET base == BaseImage(n, ckpt)
        from == RedoFrom(ckpt)
    IN  Latest({IF base = None THEN None ELSE log[base].slots[k]}
                 \cup {l \in EligibleForRedo(n, committed) : l >= from /\ log[l].key = k})

\* run_undo_all: scanning backward, the slot that holds an LN of a transaction
\* that has not committed goes back to the version before it, if the log still
\* holds that version, and is deleted otherwise.
Undone(l0, n, committed) ==
    LET undo[l \in 0 .. n] ==
            IF Survives(l, n) /\ IsLN(l) /\ log[l].txn \notin committed \cup {None}
            THEN IF Survives(log[l].abort, n) THEN undo[log[l].abort] ELSE None
            ELSE l
    IN  undo[l0]

RecoveredSlot(k, n) ==
    LET committed == Committed(n)
        ckpt == LastCkpt(n)
    IN  Undone(Redone(k, n, ckpt, committed), n, committed)

\* The value recovery gives a record: None when there is no such record, and no
\* value at all when its LN, or the image that leads to it, is in a deleted file.
Unreadable == -1
RecoveredValue(k, n) ==
    LET base == BaseImage(n, LastCkpt(n))
        l == RecoveredSlot(k, n)
    IN  CASE base # None /\ ~Survives(base, n) -> Unreadable
          [] l = None -> None
          [] l # None /\ ~Survives(l, n) -> Unreadable
          [] OTHER -> log[l].val

\* The value the record should have: that of the last LN committed by then,
\* whether or not its file still exists.
CommittedValue(k, n) ==
    LET ended == {log[l].txn : l \in {m \in 1 .. n : log[m].type = "Commit"}} \cup {None}
        lns == {l \in 1 .. n : IsLN(l) /\ log[l].key = k /\ log[l].txn \in ended}
    IN  IF lns = {} THEN None ELSE log[Max(lns)].val

-----------------------------------------------------------------------------
\* A database that was loaded, one auto-committed LN a record, and checkpointed.
Keys == CHOOSE s \in [1 .. Cardinality(Key) -> Key] : \A i, j \in DOMAIN s : s[i] = s[j] => i = j
Loaded == Cardinality(Key)
InitSlots == [k \in Key |-> CHOOSE i \in 1 .. Loaded : Keys[i] = k]
InitLog ==
    [i \in 1 .. Loaded |-> [type |-> "LN", key |-> Keys[i], txn |-> None, abort |-> None, val |-> i]]
    \o << [type |-> "CkptStart"],
          [type |-> "BIN", slots |-> InitSlots],
          [type |-> "CkptEnd", start |-> Loaded + 1, root |-> Loaded + 2] >>

Init ==
    /\ log = InitLog /\ durable = Len(InitLog) /\ gone = {}
    /\ slot = InitSlots /\ dirty = FALSE /\ root = Loaded + 2
    /\ txn = [t \in Txn |-> "idle"]
    /\ writer = [k \in Key |-> None] /\ before = [k \in Key |-> None]
    /\ unpub = [k \in Key |-> None]
    /\ being = {} /\ cleaned = {} /\ checkpointed = {} /\ safe = {}
    /\ pending = {} /\ anyPending = FALSE
    /\ pc = [a \in Agent |-> "idle"]
    /\ todo = [a \in Agent |-> {}] /\ at = [a \in Agent |-> None] /\ tree = [a \in Agent |-> None]
    /\ locked = {} /\ clamp = None
    /\ snap = {} /\ start = None
    /\ settled = [f \in File |-> None] /\ exposed = {}

-----------------------------------------------------------------------------
(* Transactions (cursor_impl.rs, txn.rs) *)

\* The version before the transaction's first write of the record.
AbortLsn(t, k) == IF writer[k] = t THEN before[k] ELSE slot[k]

\* put: with the write lock on the record's current LSN, log the LN and lock its
\* LSN as well; the slot changes in a step of its own.
Write(t, k) ==
    /\ txn[t] \in {"idle", "active"}
    /\ \A j \in Key : writer[j] = t => unpub[j] = None
    /\ writer[k] \in {None, t}
    /\ Append1([type |-> "LN", key |-> k, txn |-> t, abort |-> AbortLsn(t, k), val |-> End])
    /\ txn' = [txn EXCEPT ![t] = "active"]
    /\ writer' = [writer EXCEPT ![k] = t]
    /\ before' = [before EXCEPT ![k] = AbortLsn(t, k)]
    /\ unpub' = [unpub EXCEPT ![k] = End]
    /\ UNCHANGED <<durable, gone, treeVars, selVars, pc, lookVars, passVars, ckptVars, exposed>>

\* apply_tree_insert
Publish(k) ==
    /\ unpub[k] # None
    /\ slot' = [slot EXCEPT ![k] = unpub[k]]
    /\ dirty' = TRUE
    /\ unpub' = [unpub EXCEPT ![k] = None]
    /\ UNCHANGED <<logVars, root, txn, writer, before, selVars, pc, lookVars, passVars,
                   ckptVars, exposed>>

Written(t) == {k \in Key : writer[k] = t}
Released(t) ==
    /\ writer' = [k \in Key |-> IF writer[k] = t THEN None ELSE writer[k]]
    /\ before' = [k \in Key |-> IF writer[k] = t THEN None ELSE before[k]]
    /\ txn' = [txn EXCEPT ![t] = "done"]
    /\ UNCHANGED unpub

\* Commit with the log synced, or (NoSync) with the record only appended.
Commit(t, sync) ==
    /\ txn[t] = "active" /\ \A k \in Written(t) : unpub[k] = None
    /\ Append1([type |-> "Commit", txn |-> t])
    /\ durable' = IF sync THEN Len(log') ELSE durable
    /\ Released(t)
    /\ UNCHANGED <<gone, treeVars, selVars, pc, lookVars, passVars, ckptVars, exposed>>

\* The abort falls between the cleaner's lookup, which found an LN of the transaction
\* in the slot, and its lock: the slot goes back to the very LN being cleaned.
AbortRaces(t) == \E k \in Written(t), a \in Agent : at[a] = before[k] /\ tree[a] # before[k]

\* Abort: the slots go back to the versions before the transaction.
Abort(t) ==
    /\ txn[t] = "active" /\ \A k \in Written(t) : unpub[k] = None
    /\ Append1([type |-> "Abort", txn |-> t])
    /\ slot' = [k \in Key |-> IF writer[k] = t THEN before[k] ELSE slot[k]]
    /\ dirty' = TRUE
    /\ Released(t)
    /\ exposed' = exposed \cup (IF AbortRaces(t) THEN {"AbortRaced"} ELSE {})
    /\ UNCHANGED <<durable, gone, root, selVars, pc, lookVars, passVars, ckptVars>>

-----------------------------------------------------------------------------
(* Migrating one LN (FileProcessor::process_found_ln, migrate_ln_slot) *)

KeyOf(l) == log[l].key

\* lookup_parent_bin: the LSN in the slot of the record, taken without a lock.
Looked(a, l) ==
    /\ at' = [at EXCEPT ![a] = l]
    /\ tree' = [tree EXCEPT ![a] = slot[KeyOf(l)]]
    /\ todo' = [todo EXCEPT ![a] = @ \ {l}]

LookupDone(a) ==
    /\ at' = [at EXCEPT ![a] = None]
    /\ tree' = [tree EXCEPT ![a] = None]

\* The LNs of a record that its writer has logged.
OwnLns(k) == {l \in 1 .. Len(log) : IsLN(l) /\ KeyOf(l) = k /\ log[l].txn = writer[k]}

\* Locks on an LSN: the writer holds the one before its first write of the record
\* and those of all its writes of it.
WriteLocked(k, l) == writer[k] # None /\ l \in {before[k]} \cup OwnLns(k)

\* Faulty variant: an LN another owner has locked is taken for obsolete.
Outcome_LockedIsDead(l, tl) ==
    LET k == KeyOf(l)
    IN  CASE WriteLocked(k, tl) -> "Dead"
          [] slot[k] # tl \/ tl # l -> "Dead"
          [] Full -> "Locked"
          [] OTHER -> "Migrated"

\* migrate_ln_slot: a non-blocking READ lock on the LSN found; with it, compare the
\* slot again with that LSN, and that LSN with the one being cleaned.  Any other
\* owner of the LSN, and a failed append, leave the LN pending.
Outcome(l, tl) ==
    LET k == KeyOf(l)
    IN  CASE WriteLocked(k, tl) -> "Locked"
          [] ~WriteLocked(k, tl) /\ (slot[k] # tl \/ tl # l) -> "Dead"
          [] ~WriteLocked(k, tl) /\ slot[k] = tl /\ tl = l /\ Full -> "Locked"
          [] OTHER -> "Migrated"

\* Faulty variant: the LN is re-logged and its BIN is not marked dirty.
Migrate_Clean(l) ==
    /\ Append1([type |-> "LN", key |-> KeyOf(l), txn |-> None, abort |-> l, val |-> log[l].val])
    /\ slot' = [slot EXCEPT ![KeyOf(l)] = End]
    /\ UNCHANGED <<dirty, root>>

\* publish_migration_latched: log the LN again, outside any transaction, and point
\* the slot at it, under the BIN's latch.  Nothing is flushed.
Migrate(l) ==
    /\ Append1([type |-> "LN", key |-> KeyOf(l), txn |-> None, abort |-> l, val |-> log[l].val])
    /\ slot' = [slot EXCEPT ![KeyOf(l)] = End]
    /\ dirty' = TRUE
    /\ UNCHANGED root

Migrated(l, outcome) ==
    \/ outcome = "Migrated" /\ Migrate(l)
    \/ outcome # "Migrated" /\ UNCHANGED <<log, treeVars>>

-----------------------------------------------------------------------------
(* Pending LNs (Cleaner::process_pending), run by the cleaner and by a checkpoint *)

\* Faulty variant: LNs of checkpointed files may still be pending.
ProcessedFiles_Always(files, pend) == files

\* update_processed_files: once nothing is pending, checkpointed files may go.
ProcessedFiles(files, pend) == IF pend = {} THEN files ELSE {}

\* remove_pending_ln
RemovePendingLn(l) ==
    LET up == ProcessedFiles(checkpointed, pending \ {l})
    IN  /\ pending' = pending \ {l}
        /\ checkpointed' = checkpointed \ up
        /\ safe' = safe \cup up
        /\ settled' = [settled EXCEPT ![FileOf(l)] = Len(log')]
        /\ UNCHANGED <<being, cleaned, anyPending>>

PendingLookup(a, l) ==
    /\ pc[a] = "pending" /\ l \in todo[a]
    /\ Looked(a, l)
    /\ pc' = [pc EXCEPT ![a] = "retry"]
    /\ UNCHANGED <<logVars, treeVars, txnVars, selVars, passVars, ckptVars, exposed>>

PendingRetry(a) ==
    LET l == at[a]
        outcome == Outcome(l, tree[a])
    IN  /\ pc[a] = "retry"
        /\ Migrated(l, outcome)
        /\ \/ outcome = "Locked" /\ UNCHANGED selVars
           \/ outcome # "Locked" /\ RemovePendingLn(l)
        /\ LookupDone(a)
        /\ pc' = [pc EXCEPT ![a] = "pending"]
        /\ UNCHANGED <<durable, gone, txnVars, todo, passVars, ckptVars, exposed>>

-----------------------------------------------------------------------------
(* A cleaning pass (Cleaner::do_clean) *)

\* get_first_active_lsn: the first LN of the open transactions.
FirstActiveFile ==
    LET open == {l \in 1 .. Len(log) : IsLN(l) /\ log[l].txn # None /\ txn[log[l].txn] = "active"}
    IN  IF open = {} THEN MaxLog ELSE FileOf(Min(open))

\* The newest file that has a summary and the open transactions bound what the pass
\* may clean; both are read when it starts.
CleanStart ==
    /\ pc["cleaner"] = "idle"
    /\ clamp' = Min({Newest, FirstActiveFile})
    /\ todo' = [todo EXCEPT !["cleaner"] = pending]
    /\ pc' = [pc EXCEPT !["cleaner"] = "pending"]
    /\ UNCHANGED <<logVars, treeVars, txnVars, selVars, at, tree, locked, ckptVars, exposed>>

InProgress == being \cup cleaned \cup checkpointed \cup safe

\* select_file_for_cleaning: old enough, closed to open transactions, not in hand.
Eligible == {f \in 0 .. Newest : f + MinAge <= clamp /\ f \notin gone \cup InProgress}

CleanSelect(f) ==
    /\ pc["cleaner"] = "pending" /\ todo["cleaner"] = {}
    /\ f \in Eligible
    /\ being' = {f}
    /\ clamp' = None
    /\ pc' = [pc EXCEPT !["cleaner"] = "scan"]
    /\ UNCHANGED <<logVars, treeVars, txnVars, cleaned, checkpointed, safe, pending, anyPending,
                   settled, lookVars, locked, ckptVars, exposed>>

\* No file to clean: the pass still deletes.
CleanNothing ==
    /\ pc["cleaner"] = "pending" /\ todo["cleaner"] = {}
    /\ Eligible = {}
    /\ clamp' = None
    /\ pc' = [pc EXCEPT !["cleaner"] = "delete"]
    /\ UNCHANGED <<logVars, treeVars, txnVars, selVars, lookVars, locked, ckptVars, exposed>>

\* lookup_in, bin_image_is_live
KeepsImage(f) == root \in EntriesOf(f)

\* process_file, the entries that are not LNs: a live BIN image is marked for a
\* full re-log; every other entry is obsolete.  The LNs are queued.
CleanScan ==
    LET f == CHOOSE g \in being : TRUE
    IN  /\ pc["cleaner"] = "scan"
        /\ dirty' = (dirty \/ KeepsImage(f))
        /\ todo' = [todo EXCEPT !["cleaner"] = {l \in EntriesOf(f) : IsLN(l)}]
        /\ pc' = [pc EXCEPT !["cleaner"] = "lns"]
        /\ UNCHANGED <<logVars, slot, root, txnVars, selVars, at, tree, passVars, ckptVars, exposed>>

\* process_ln: the queued LNs in the order of the file.
CleanLookup ==
    /\ pc["cleaner"] = "lns" /\ todo["cleaner"] # {}
    /\ Looked("cleaner", Min(todo["cleaner"]))
    /\ pc' = [pc EXCEPT !["cleaner"] = "found"]
    /\ UNCHANGED <<logVars, treeVars, txnVars, selVars, passVars, ckptVars, exposed>>

CleanLn ==
    LET l == at["cleaner"]
        outcome == Outcome(l, tree["cleaner"])
    IN  /\ pc["cleaner"] = "found"
        /\ Migrated(l, outcome)
        /\ locked' = IF outcome = "Locked" THEN locked \cup {l} ELSE locked
        /\ LookupDone("cleaner")
        /\ pc' = [pc EXCEPT !["cleaner"] = "lns"]
        /\ UNCHANGED <<durable, gone, txnVars, selVars, todo, clamp, ckptVars, exposed>>

\* add_pending_ln for every LN that could not be migrated, then mark_file_cleaned.
CleanEnd ==
    /\ pc["cleaner"] = "lns" /\ todo["cleaner"] = {}
    /\ pending' = pending \cup locked
    /\ anyPending' = (anyPending \/ locked # {})
    /\ cleaned' = cleaned \cup being
    /\ being' = {}
    /\ pc' = [pc EXCEPT !["cleaner"] = "delete"]
    /\ locked' = {}
    /\ UNCHANGED <<logVars, treeVars, txnVars, checkpointed, safe, settled, lookVars, clamp,
                   ckptVars, exposed>>

\* delete_safe_files: in ascending order; the current file is never deleted.
DeleteSafe ==
    /\ pc["cleaner"] = "delete" /\ safe # {}
    /\ safe' = safe \ {Min(safe)}
    /\ gone' = gone \cup ({Min(safe)} \cap 0 .. Newest - 1)
    /\ UNCHANGED <<log, durable, treeVars, txnVars, being, cleaned, checkpointed, pending, anyPending,
                   settled, pc, lookVars, passVars, ckptVars, exposed>>

CleanDone ==
    /\ pc["cleaner"] = "delete" /\ safe = {}
    /\ pc' = [pc EXCEPT !["cleaner"] = "idle"]
    /\ UNCHANGED <<logVars, treeVars, txnVars, selVars, lookVars, passVars, ckptVars, exposed>>

-----------------------------------------------------------------------------
(* A checkpoint (Checkpointer::do_checkpoint) *)

CkptBegin ==
    /\ pc["checkpointer"] = "idle" /\ ~Full
    /\ todo' = [todo EXCEPT !["checkpointer"] = pending]
    /\ pc' = [pc EXCEPT !["checkpointer"] = "pending"]
    /\ UNCHANGED <<logVars, treeVars, txnVars, selVars, at, tree, passVars, ckptVars, exposed>>

\* get_checkpoint_state: the files cleaned so far, and whether LNs are pending.
CkptSnapshot ==
    /\ pc["checkpointer"] = "pending" /\ todo["checkpointer"] = {}
    /\ anyPending' = (pending # {})
    /\ snap' = cleaned
    /\ pc' = [pc EXCEPT !["checkpointer"] = "start"]
    /\ UNCHANGED <<logVars, treeVars, txnVars, being, cleaned, checkpointed, safe, pending, settled,
                   lookVars, passVars, start, exposed>>

CkptStart ==
    /\ pc["checkpointer"] = "start"
    /\ Append1([type |-> "CkptStart"])
    /\ start' = End
    /\ pc' = [pc EXCEPT !["checkpointer"] = "flush"]
    /\ UNCHANGED <<durable, gone, treeVars, txnVars, selVars, lookVars, passVars, snap, exposed>>

\* An LN logged before the checkpoint began is not in its slot yet.
WriteLaps == \E k \in Key : unpub[k] # None /\ unpub[k] < start

\* flush_bins_list: under its latch, a dirty BIN is logged in full; a clean one is not.
CkptFlush ==
    /\ pc["checkpointer"] = "flush"
    /\ \/ /\ dirty
          /\ Append1([type |-> "BIN", slots |-> slot])
          /\ root' = End
          /\ dirty' = FALSE
       \/ ~dirty /\ UNCHANGED <<log, root, dirty>>
    /\ pc' = [pc EXCEPT !["checkpointer"] = "end"]
    /\ exposed' = exposed \cup (IF WriteLaps THEN {"WriteLapped"} ELSE {})
    /\ UNCHANGED <<durable, gone, slot, txnVars, selVars, lookVars, passVars, ckptVars>>

\* Faulty variant: the durable end of the log is taken to be the next LSN.
CkptEnd_SyncPastEnd ==
    /\ pc["checkpointer"] = "end"
    /\ Append1([type |-> "CkptEnd", start |-> start, root |-> root])
    /\ durable' = End + 1
    /\ pc' = [pc EXCEPT !["checkpointer"] = "after"]
    /\ UNCHANGED <<gone, treeVars, txnVars, selVars, lookVars, passVars, ckptVars, exposed>>

\* CkptEnd records the root and is fsynced, and with it everything before it.
CkptEnd ==
    /\ pc["checkpointer"] = "end"
    /\ Append1([type |-> "CkptEnd", start |-> start, root |-> root])
    /\ durable' = End
    /\ pc' = [pc EXCEPT !["checkpointer"] = "after"]
    /\ UNCHANGED <<gone, treeVars, txnVars, selVars, lookVars, passVars, ckptVars, exposed>>

\* Faulty variant: the files cleaned by now advance, not those cleaned when it began.
CkptAfter_CleanedNow ==
    LET settledFiles == IF anyPending THEN {} ELSE checkpointed
        moved == (checkpointed \ settledFiles) \cup cleaned
        up == ProcessedFiles(moved, pending)
    IN  /\ pc["checkpointer"] = "after"
        /\ safe' = safe \cup settledFiles \cup up
        /\ checkpointed' = moved \ up
        /\ cleaned' = {}
        /\ pc' = [pc EXCEPT !["checkpointer"] = "idle"]
        /\ snap' = {} /\ start' = None
        /\ UNCHANGED <<logVars, treeVars, txnVars, being, pending, anyPending, settled, lookVars, passVars, exposed>>

\* process_checkpoint_end: files checkpointed before go on unless LNs were pending,
\* the files of the snapshot become checkpointed, and go on if nothing is pending.
CkptAfter ==
    LET settledFiles == IF anyPending THEN {} ELSE checkpointed
        moved == (checkpointed \ settledFiles) \cup (snap \cap cleaned)
        up == ProcessedFiles(moved, pending)
    IN  /\ pc["checkpointer"] = "after"
        /\ safe' = safe \cup settledFiles \cup up
        /\ checkpointed' = moved \ up
        /\ cleaned' = cleaned \ snap
        /\ pc' = [pc EXCEPT !["checkpointer"] = "idle"]
        /\ snap' = {} /\ start' = None
        /\ UNCHANGED <<logVars, treeVars, txnVars, being, pending, anyPending, settled, lookVars, passVars, exposed>>

\* An append that fails ends the checkpoint with an error; the cleaner is not told.
CkptFails ==
    /\ Full
    /\ \/ pc["checkpointer"] \in {"start", "end"}
       \/ pc["checkpointer"] = "flush" /\ dirty
    /\ pc' = [pc EXCEPT !["checkpointer"] = "idle"]
    /\ snap' = {} /\ start' = None
    /\ UNCHANGED <<logVars, treeVars, txnVars, selVars, lookVars, passVars, exposed>>

-----------------------------------------------------------------------------
(* Crash and restart *)

\* A transaction's commit record is gone and one of its LNs is not.
CommitRecordLost ==
    \E f \in gone : \E c \in EntriesOf(f) :
        /\ log[c].type = "Commit"
        /\ \E l \in Surviving(Len(log), "LN") : log[l].txn = log[c].txn

\* A file is gone whose last pending LN was settled after the last checkpoint ended.
SettledSinceCkpt ==
    \E f \in gone : /\ settled[f] # None
                    /\ \A e \in Surviving(durable, "CkptEnd") : e < settled[f]

\* The process stops with n entries on disk and recovers from them.
Crash(n) ==
    /\ n <= MaxCrashLog
    /\ log' = SubSeq(log, 1, n) /\ durable' = n
    /\ slot' = [k \in Key |-> RecoveredSlot(k, n)]
    /\ root' = BaseImage(n, LastCkpt(n))
    /\ dirty' = TRUE
    /\ txn' = [t \in Txn |-> IF txn[t] = "idle" THEN "idle" ELSE "done"]
    /\ writer' = [k \in Key |-> None] /\ before' = [k \in Key |-> None]
    /\ unpub' = [k \in Key |-> None]
    /\ being' = {} /\ cleaned' = {} /\ checkpointed' = {} /\ safe' = {}
    /\ pending' = {} /\ anyPending' = FALSE
    /\ pc' = [a \in Agent |-> "idle"]
    /\ todo' = [a \in Agent |-> {}] /\ at' = [a \in Agent |-> None] /\ tree' = [a \in Agent |-> None]
    /\ locked' = {} /\ clamp' = None /\ snap' = {} /\ start' = None
    /\ settled' = [f \in File |-> None]
    /\ exposed' = exposed \cup (IF CommitRecordLost THEN {"CommitLost"} ELSE {})
                          \cup (IF SettledSinceCkpt THEN {"DeletedEarly"} ELSE {})
    /\ UNCHANGED gone

Next ==
    \/ \E t \in Txn, k \in Key : Write(t, k)
    \/ \E k \in Key : Publish(k)
    \/ \E t \in Txn : Abort(t) \/ \E sync \in BOOLEAN : Commit(t, sync)
    \/ \E a \in Agent : PendingRetry(a) \/ \E l \in todo[a] : PendingLookup(a, l)
    \/ CleanStart \/ (\E f \in File : CleanSelect(f)) \/ CleanNothing \/ CleanScan
    \/ CleanLookup \/ CleanLn \/ CleanEnd \/ DeleteSafe \/ CleanDone
    \/ CkptBegin \/ CkptSnapshot \/ CkptStart \/ CkptFlush \/ CkptEnd \/ CkptAfter \/ CkptFails
    \/ \E n \in durable .. Len(log) : Crash(n)

Spec == Init /\ [][Next]_vars

-----------------------------------------------------------------------------
(* Properties *)

TypeOK ==
    /\ log \in Seq(Entry) /\ Len(log) <= MaxLog /\ durable \in 0 .. Len(log)
    /\ gone \subseteq File
    /\ slot \in [Key -> Lsn \cup {None}] /\ dirty \in BOOLEAN /\ root \in Lsn \cup {None}
    /\ txn \in [Txn -> {"idle", "active", "done"}]
    /\ writer \in [Key -> Txn \cup {None}]
    /\ before \in [Key -> Lsn \cup {None}] /\ unpub \in [Key -> Lsn \cup {None}]
    /\ {being, cleaned, checkpointed, safe, snap} \subseteq SUBSET File
    /\ pending \subseteq Lsn /\ anyPending \in BOOLEAN
    /\ pc \in [Agent -> {"idle", "pending", "retry", "scan", "lns", "found", "delete",
                          "start", "flush", "end", "after"}]
    /\ todo \in [Agent -> SUBSET Lsn]
    /\ at \in [Agent -> Lsn \cup {None}] /\ tree \in [Agent -> Lsn \cup {None}]
    /\ locked \subseteq Lsn /\ clamp \in File /\ start \in Lsn \cup {None}
    /\ settled \in [File -> Lsn \cup {None}]
    /\ exposed \subseteq {"AbortRaced", "WriteLapped", "CommitLost", "DeletedEarly"}

\* Whatever part of the log past its durable end survives a crash, recovery gives
\* every record the value of its last committed write.
Faithful == \A n \in durable .. Len(log), k \in Key : RecoveredValue(k, n) = CommittedValue(k, n)

\* Cleaning, checkpointing and deleting log files never cost a committed write:
\* at every moment recover_all would rebuild the committed values from the files
\* that are left.  The exceptions are the states in which the cleaner has deleted
\* a commit record that recovery needs (NoCommitIsUndone), those in which
\* update_processed_files let a file go before the LNs moved out of it were durable,
\* and what follows one of these at a crash, an abort that raced the cleaner
\* (AbortRaces) or an image flushed without an LN that recovery takes to be in it
\* (WriteLaps).
RecoversCommitted == exposed # {} \/ CommitRecordLost \/ SettledSinceCkpt \/ Faithful

\* delete_safe_files removes no file that memory still refers to: the version in a
\* slot, the before-image an abort would restore,
\* and the BIN image from which the next checkpoint's root is read; unless an abort
\* raced the cleaner or a recovery began from what one of the other windows left.
LiveVersionsKept ==
    exposed = {} =>
        \A k \in Key : \A l \in {slot[k], before[k], root} \ {None} : FileOf(l) \notin gone

\* No file is deleted while one of its LNs still waits to be migrated
\* (process_checkpoint_end, update_processed_files and the two agents that run
\* process_pending at once).
PendingKept == \A l \in pending : FileOf(l) \notin gone

\* The assumption of the redo gate (eligible_for_redo_static): the image a seeded
\* tree starts from already holds, for every committed LN logged before the
\* checkpoint began, that LN or a later one.
SeededTreeIsComplete ==
    LET ckpt == LastCkpt(durable)
        base == BaseImage(durable, ckpt)
    IN  ckpt.root # None =>
            \A l \in EligibleForRedo(durable, Committed(durable)) : l < ckpt.start => log[base].slots[KeyOf(l)] >= l

\* The redo gate fails only after a checkpoint has flushed the BIN between a write's
\* LN and its slot, or a recovery has begun from what another window left: neither
\* migration, deletion, a failed checkpoint nor a crash breaks it.
SeededUnlessLapped == exposed = {} => SeededTreeIsComplete

\* Recovery undoes uncommitted writes only: deleting log files never makes it take
\* a committed transaction for one that was active at the crash.
NoCommitIsUndone == exposed # {} \/ SettledSinceCkpt \/ Faithful
=============================================================================
