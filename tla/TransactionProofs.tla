--------------------------- MODULE TransactionProofs ---------------------------
(***************************************************************************)
(* Theorems about Transaction, for every set of transactions, keys and     *)
(* callers: the type invariant and, when every handle is used by one       *)
(* caller at a time and none writes through a prepared handle, what a      *)
(* crash may make of a transaction that was told its outcome, and what it  *)
(* may make of the records.                                                *)
(*                                                                         *)
(* The second part rests on facts about one transaction and the call that  *)
(* is in its handle (CallOf): which states of the outer and the inner      *)
(* object go together at each point of a call (HandleInv), which frames    *)
(* the log then has of the transaction, in which order and how far they    *)
(* are synced (OrderInv, LogInv), and what the caller was told (ToldInv).  *)
(* A step of a caller changes the facts of its own transaction only: a     *)
(* lemma for each kind of step shows that it preserves them, FactsKept     *)
(* that they are kept for all others.                                      *)
(*                                                                         *)
(* The third part ties slots, locks and log together (DataInv).  A record  *)
(* shows its committed version, or a change under a lock whose recorded    *)
(* before-image is that version (VersionInv, LocksInv); what a caller read *)
(* under a lock is still so (CallsInv); a transaction that may yet commit  *)
(* has a recorded lock for each record it wrote (WroteInv), and lets go of *)
(* it only behind a durable frame (CommitInv).  A step of a caller changes *)
(* only slots whose version its transaction has locked (Local): this is    *)
(* why no other transaction, and no reader, sees it.                       *)
(***************************************************************************)
EXTENDS Transaction, FiniteSetTheorems, WellFoundedInduction, TLAPS

-----------------------------------------------------------------------------
(* Types *)

Ids(n) == (1 .. n) \cup {-k : k \in Keys}

Info(n) == [never_locked : BOOLEAN, abort_lsn : 0 .. n, abort_known_deleted : BOOLEAN,
            key : Keys \cup {0}]

UndoRecord(n) == [lsn : Ids(n), abort_lsn : 0 .. n, key : Keys \cup {0},
                  abort_known_deleted : BOOLEAN]

WritePcs == {"slot", "lock", "wait", "recheck", "exists", "log", "finalize", "apply"}
EndPcs   == {"frame", "sync", "inner", "end", "collect", "undo"}
EndOps   == {"Commit", "Abort", "ResolveCommit", "ResolveAbort"}

CallRecord(n) ==
    [pc : WritePcs \cup EndPcs \cup {"idle"}, op : WriteOps \cup EndOps \cup {"Prepare", "none"},
     txn : Txns \cup {0}, key : Keys \cup {0}, want : Ids(n) \cup {0},
     then : {"idle", "recheck", "log"}, old : 0 .. n, exists : BOOLEAN, new : 0 .. n,
     undo : SUBSET UndoRecord(n), sync : BOOLEAN, err : BOOLEAN]

Entry ==
    [type : {"LN"}, txn : Txns \cup {0}, key : Nat, deleted : BOOLEAN, abort_lsn : Nat,
     abort_known_deleted : BOOLEAN]
    \cup [type : {"TxnCommit", "TxnAbort", "TxnPrepare"}, txn : Txns, sync : BOOLEAN]

GoodLocks(locks, n) ==
    DOMAIN locks \subseteq Ids(n) /\ \A id \in DOMAIN locks : locks[id] \in Info(n)

\* What goes together in one caller's record.
Shape(c, r) ==
    \/ r = Idle
    \/ /\ r.op \in WriteOps /\ r.pc \in WritePcs /\ r.txn \in Handles[c] /\ r.key \in Keys
       /\ r.pc \in {"lock", "wait"} => r.want # 0 /\ r.then # "idle"
       /\ r.pc \in {"finalize", "apply"} => r.new # 0
    \/ /\ r.op \in EndOps \cup {"Prepare"} /\ r.pc \in EndPcs /\ r.txn \in Handles[c]
       /\ r.pc \in {"inner", "end"} => r.op \in {"Commit", "ResolveCommit", "Prepare"}
       /\ r.pc \in {"collect", "undo"} => r.op \in {"Abort", "ResolveAbort"}

StateType ==
    /\ state \in [Txns -> {"Open", "Prepared", "Committed", "Aborted"}]
    /\ inner \in [Txns -> {"Open", "MustAbort", "Committed", "Aborted"}]
    /\ prepared \in [Txns -> BOOLEAN]
    /\ DOMAIN told = Txns

LogType ==
    /\ log \in Seq(Entry) /\ durable \in 1 .. Len(log) /\ io_invalid \in BOOLEAN

LockType(n) ==
    /\ last_lsn \in [Txns -> 0 .. n]
    /\ DOMAIN write_locks = Txns
    /\ \A t \in Txns : GoodLocks(write_locks[t], n)
    /\ undo_records \in [Txns -> SUBSET UndoRecord(n)]

TreeType(n) == tree \in [Keys -> [lsn : 0 .. n, exists : BOOLEAN]]

CallType(n) ==
    call \in [Callers -> CallRecord(n)] /\ \A c \in Callers : Shape(c, call[c])

TypeInv ==
    StateType /\ LogType /\ LockType(Len(log)) /\ TreeType(Len(log)) /\ CallType(Len(log))

-----------------------------------------------------------------------------
(* One transaction and the call in its handle *)

CallOf(t, r) ==
    \/ \E c \in Callers : call[c].txn = t /\ r = call[c]
    \/ (\A c \in Callers : call[c].txn # t) /\ r = Idle

\* The outer and the inner state at each point of a call.  `Late' is the part of a
\* call in which the inner Txn has ended and the outer handle has not.
Late(r) == r.op \in EndOps /\ r.pc \in {"undo", "end"}

HandleInv(t, r) ==
    /\ r.op \in WriteOps => state[t] # "Prepared"
    /\ r.op \in WriteOps /\ r.pc \notin {"slot", "lock"} => state[t] = "Open" \/ io_invalid
    /\ r.op \in {"Commit", "Abort", "Prepare"} => state[t] = "Open"
    /\ r.op \in {"ResolveCommit", "ResolveAbort"} => state[t] = "Prepared"
    /\ state[t] \in {"Committed", "Aborted"} => inner[t] # "Open" \/ io_invalid
    /\ state[t] = "Prepared" /\ ~Late(r) => inner[t] = "Open" /\ prepared[t]
    /\ r.op = "Prepare" /\ r.pc = "end" => inner[t] = "Open" /\ prepared[t]
    /\ state[t] = "Open" /\ ~Late(r) => inner[t] \in {"Open", "MustAbort"}
    /\ state[t] = "Open" /\ ~(r.op = "Prepare" /\ r.pc = "end") => ~prepared[t]
    /\ Late(r) => inner[t] # "Open"

LNs(t)      == Frames(t, "LN", Len(log))
Commits(t)  == Frames(t, "TxnCommit", Len(log))
Aborts(t)   == Frames(t, "TxnAbort", Len(log))
Prepares(t) == Frames(t, "TxnPrepare", Len(log))
Ends(t)     == Commits(t) \cup Aborts(t)

CommitSynced(t)  == \E i \in Commits(t) : i <= durable
AbortSynced(t)   == \E i \in Aborts(t) : i <= durable
PrepareSynced(t) == \E i \in Prepares(t) : i <= durable

\* The frames of a transaction and how far they are synced.
OrderInv(t) ==
    /\ \A i, j \in Ends(t) : i = j
    /\ \A i \in Ends(t) : \A j \in Prepares(t) \cup LNs(t) : j < i

LogInv(t, r) ==
    /\ LNs(t) # {} /\ last_lsn[t] = 0 => inner[t] # "Open" \/ r.pc = "finalize"
    /\ Ends(t) # {} => \/ io_invalid \/ state[t] \in {"Committed", "Aborted"}
                       \/ r.op \in EndOps /\ r.pc # "frame"
    /\ r.op = "Abort" \/ (r.op = "ResolveAbort" /\ r.pc # "frame") => Commits(t) = {}
    /\ r.pc = "sync" => /\ r.op \in {"Commit", "ResolveCommit"} => Commits(t) # {}
                        /\ r.op = "ResolveAbort" => Aborts(t) # {}
                        /\ r.op = "Prepare" => Prepares(t) # {}
    /\ r.op \in {"Prepare", "ResolveCommit", "ResolveAbort"} => r.sync
    /\ r.op \in {"Commit", "ResolveCommit"} /\ r.pc \in {"inner", "end"} /\ r.sync
          => LNs(t) = {} \/ CommitSynced(t)
    /\ r.op = "ResolveAbort" /\ r.pc \in {"collect", "undo"} => AbortSynced(t)
    /\ r.op = "Prepare" /\ r.pc \in {"inner", "end"} => Prepares(t) = {} \/ PrepareSynced(t)
    /\ Prepares(t) # {} \/ (r.op = "Prepare" /\ r.pc = "frame") => last_lsn[t] # 0

\* What a caller was told.
ToldInv(t) ==
    /\ "Committed" \in told[t] =>
          state[t] = "Committed" /\ (LNs(t) = {} \/ CommitSynced(t))
    /\ "Aborted" \in told[t] => state[t] = "Aborted" /\ Commits(t) = {}
    /\ "Prepared" \in told[t] =>
          state[t] # "Open" /\ (Prepares(t) = {} \/ PrepareSynced(t))
    /\ {"Prepared", "Aborted"} \subseteq told[t] => AbortSynced(t)

Facts(t, r) == HandleInv(t, r) /\ OrderInv(t) /\ LogInv(t, r) /\ ToldInv(t)

\* A handle is used by one caller.
OwnHandles == \A c, d \in Callers : c # d => Handles[c] \cap Handles[d] = {}

\* What the facts about a transaction depend on is as before; the synced part of the log
\* may have grown and the log may have failed.
Kept(t) ==
    /\ state'[t] = state[t] /\ inner'[t] = inner[t] /\ prepared'[t] = prepared[t]
    /\ last_lsn'[t] = last_lsn[t] /\ told'[t] = told[t]
    /\ LNs(t)' = LNs(t) /\ Commits(t)' = Commits(t) /\ Aborts(t)' = Aborts(t)
    /\ Prepares(t)' = Prepares(t)
    /\ durable <= durable' /\ (io_invalid => io_invalid')

TxnInv == \A t \in Txns : \A r : CallOf(t, r) => Facts(t, r)

-----------------------------------------------------------------------------
(* Types: lemmas *)

\* A larger log keeps the types.
LEMMA Grow ==
    ASSUME NEW n \in Nat, NEW m \in Nat, n <= m
    PROVE  /\ Ids(n) \subseteq Ids(m) /\ Info(n) \subseteq Info(m)
           /\ UndoRecord(n) \subseteq UndoRecord(m) /\ CallRecord(n) \subseteq CallRecord(m)
           /\ \A locks : GoodLocks(locks, n) => GoodLocks(locks, m)
<1>1. 0 .. n \subseteq 0 .. m /\ 1 .. n \subseteq 1 .. m
  OBVIOUS
<1>2. Ids(n) \subseteq Ids(m)
  BY <1>1 DEF Ids
<1>3. Info(n) \subseteq Info(m)
  BY <1>1 DEF Info
<1>4. UndoRecord(n) \subseteq UndoRecord(m)
  BY <1>1, <1>2 DEF UndoRecord
<1>5. CallRecord(n) \subseteq CallRecord(m)
  <2>1. SUBSET UndoRecord(n) \subseteq SUBSET UndoRecord(m)
    BY <1>4
  <2>2. Ids(n) \cup {0} \subseteq Ids(m) \cup {0}
    BY <1>2
  <2>. QED
    BY <1>1, <2>1, <2>2 DEF CallRecord
<1>. QED
  BY <1>2, <1>3, <1>4, <1>5 DEF GoodLocks

\* A step of caller c that leaves everything but its own record and the log alone.
LEMMA CallStep ==
    ASSUME NEW n \in Nat, NEW m \in Nat, n <= m, NEW c \in Callers, NEW new,
           CallType(n), new \in CallRecord(m), Shape(c, new),
           call' = [call EXCEPT ![c] = new]
    PROVE  CallType(m)'
<1>1. call' \in [Callers -> CallRecord(m)]
  BY Grow DEF CallType
<1>2. \A d \in Callers : call'[d] = IF d = c THEN new ELSE call[d]
  BY DEF CallType
<1>. QED
  BY <1>1, <1>2 DEF CallType

LEMMA LockGrow ==
    ASSUME NEW n \in Nat, NEW m \in Nat, n <= m, LockType(n), TreeType(n)
    PROVE  LockType(m) /\ TreeType(m)
<1>1. 0 .. n \subseteq 0 .. m
  OBVIOUS
<1>2. SUBSET UndoRecord(n) \subseteq SUBSET UndoRecord(m)
  BY Grow
<1>3. TreeType(m)
  BY <1>1 DEF TreeType
<1>4. last_lsn \in [Txns -> 0 .. m] /\ undo_records \in [Txns -> SUBSET UndoRecord(m)]
  BY <1>1, <1>2 DEF LockType
<1>5. \A t \in Txns : GoodLocks(write_locks[t], m)
  BY Grow DEF LockType
<1>. QED
  BY <1>3, <1>4, <1>5 DEF LockType

LEMMA IdleType == ASSUME NEW n \in Nat PROVE Idle \in CallRecord(n)
  BY DEF Idle, Call, CallRecord

\* Undo records have a newest one.
LEMMA NewestExists ==
    ASSUME NEW n \in Nat, NEW undo \in SUBSET UndoRecord(n), undo # {}
    PROVE  \E r \in undo : \A s \in undo : s.lsn <= r.lsn
<1> DEFINE T == {n - s.lsn : s \in undo}
           R == OpToRel(<, Nat)
<1>1. \A s \in undo : s.lsn \in Int /\ s.lsn <= n
  BY TransactionAssumption DEF UndoRecord, Ids
<1>2. T \subseteq Nat /\ T # {}
  BY <1>1
<1>3. IsWellFoundedOn(R, Nat)
  BY NatLessThanWellFounded, Zenon
<1>4. \A x, y \in Nat : <<y, x>> \in R <=> y < x
  BY Zenon DEF OpToRel
<1>. HIDE DEF R
<1>5. PICK x \in T : \A y \in T : ~ (<<y, x>> \in R)
  <2>. HIDE DEF T
  <2>. QED BY <1>2, <1>3, WFMin
<1>6. PICK r \in undo : x = n - r.lsn
  BY <1>5
<1>7. \A s \in undo : ~ (n - s.lsn < n - r.lsn)
  BY <1>2, <1>4, <1>5, <1>6
<1>. QED
  BY <1>1, <1>7

-----------------------------------------------------------------------------
(* Types: one lemma per kind of step *)

\* A step that changes one call record, and neither the log nor the locks.
LEMMA QuietTypes ==
    ASSUME TypeInv, NEW c \in Callers, NEW new, new \in CallRecord(Len(log)), Shape(c, new),
           call' = [call EXCEPT ![c] = new], UNCHANGED <<handle, tree, wal, told>>
    PROVE  TypeInv'
<1>1. PICK n \in Nat : n = Len(log)
  BY DEF TypeInv, LogType
<1>2. CallType(n)'
  <2>1. CallType(n) /\ new \in CallRecord(n) /\ n <= n
    BY <1>1 DEF TypeInv
  <2>. QED
    BY <2>1, CallStep
<1>3. StateType' /\ LogType' /\ LockType(n)' /\ TreeType(n)'
  BY <1>1 DEF TypeInv, StateType, LogType, LockType, TreeType, handle, wal
<1>. QED
  BY <1>1, <1>2, <1>3 DEF TypeInv, wal

LEMMA HandleTxns ==
    ASSUME NEW c \in Callers, NEW t \in Handles[c]
    PROVE  t \in Txns /\ t # 0 /\ t \in Nat
  BY TransactionAssumption DEF Callers

LEMMA StartTypes ==
    ASSUME TypeInv, NEW c \in Callers,
           StartWrite(c) \/ StartCommit(c) \/ StartPrepare(c) \/ StartResolve(c)
    PROVE  TypeInv'
<1>1. \E new : /\ new \in CallRecord(Len(log)) /\ Shape(c, new)
               /\ call' = [call EXCEPT ![c] = new] /\ UNCHANGED <<handle, tree, wal, told>>
  <2>0. Len(log) \in Nat
    BY DEF TypeInv, LogType
  <2>1. CASE StartWrite(c)
    <3>1. PICK t \in Handles[c], k \in Keys, op \in WriteOps :
             call' = [call EXCEPT ![c] = [Call(op, t, "slot") EXCEPT !.key = k]]
      BY <2>1 DEF StartWrite
    <3>2. [Call(op, t, "slot") EXCEPT !.key = k] \in CallRecord(Len(log))
      <4>1. t \in Txns
        BY HandleTxns
      <4>2. 0 \in 0 .. Len(log)
        BY <2>0
      <4>. QED
        BY <4>1, <4>2 DEF Call, CallRecord, WritePcs
    <3>3. Shape(c, [Call(op, t, "slot") EXCEPT !.key = k])
      BY DEF Shape, Call, WritePcs
    <3>. QED
      BY <2>1, <3>1, <3>2, <3>3 DEF StartWrite
  <2>2. ASSUME NEW op \in EndOps \cup {"Prepare"}, NEW t \in Handles[c],
               NEW pc \in {"frame", "inner"}, NEW sync \in BOOLEAN,
               pc = "inner" => op \in {"Commit", "Prepare"}
        PROVE  /\ [Call(op, t, pc) EXCEPT !.sync = sync] \in CallRecord(Len(log))
               /\ Shape(c, [Call(op, t, pc) EXCEPT !.sync = sync])
    <3> DEFINE new == [Call(op, t, pc) EXCEPT !.sync = sync]
    <3>1. t \in Txns
      BY HandleTxns
    <3>2. 0 \in 0 .. Len(log)
      BY <2>0
    <3>3. new \in CallRecord(Len(log)) /\ new.op = op /\ new.pc = pc /\ new.txn = t
      BY <3>1, <3>2 DEF Call, CallRecord, EndPcs
    <3>. HIDE DEF new
    <3>4. Shape(c, new)
      BY <2>2, <3>3 DEF EndPcs, EndOps, Shape
    <3>. QED
      BY <3>3, <3>4 DEF new
  <2>3. CASE StartCommit(c)
    <3>1. PICK t \in Handles[c], policy \in Policies :
             call' = [call EXCEPT ![c] =
                [Call("Commit", t, IF HasLoggedData(t) THEN "frame" ELSE "inner")
                    EXCEPT !.sync = policy = "Sync"]]
      BY <2>3 DEF StartCommit
    <3>. QED
      BY <2>2, <2>3, <3>1 DEF StartCommit, EndOps
  <2>4. CASE StartPrepare(c)
    <3>1. PICK t \in Handles[c] :
             call' = [call EXCEPT ![c] =
                [Call("Prepare", t, IF HasLoggedData(t) THEN "frame" ELSE "inner")
                    EXCEPT !.sync = TRUE]]
      BY <2>4 DEF StartPrepare
    <3>. QED
      BY <2>2, <2>4, <3>1 DEF StartPrepare
  <2>5. CASE StartResolve(c)
    <3>1. PICK t \in Handles[c], op \in {"ResolveCommit", "ResolveAbort"} :
             call' = [call EXCEPT ![c] = [Call(op, t, "frame") EXCEPT !.sync = TRUE]]
      BY <2>5 DEF StartResolve
    <3>. QED
      BY <2>2, <2>5, <3>1 DEF StartResolve, EndOps
  <2>. QED
    BY <2>1, <2>3, <2>4, <2>5
<1>. QED
  BY <1>1, QuietTypes

LEMMA ReadTypes ==
    ASSUME TypeInv, NEW c \in Callers,
           ReadSlot(c) \/ RecheckPut(c) \/ RecheckInsert(c) \/ RecheckDelete(c)
    PROVE  TypeInv'
<1>0. Len(log) \in Nat
  BY DEF TypeInv, LogType
<1>1. PICK n \in Nat : n = Len(log)
  BY <1>0
<1>2. PICK r \in CallRecord(n) : r = call[c]
  BY <1>1 DEF TypeInv, CallType
<1>3. r.op \in WriteOps /\ r.pc \in WritePcs /\ r.txn \in Handles[c] /\ r.key \in Keys
  BY <1>2 DEF TypeInv, CallType, Shape, Idle, Call, ReadSlot, RecheckPut, RecheckInsert,
     RecheckDelete, EndPcs, WritePcs
<1>4. PICK k \in Keys : k = r.key
  BY <1>3
<1>5. tree[k].lsn \in 0 .. n /\ tree[k].exists \in BOOLEAN
  BY <1>1, <1>4 DEF TypeInv, TreeType
<1>6. LockId(k, tree[k].lsn) \in Ids(n) /\ LockId(k, tree[k].lsn) # 0 /\ -k \in Ids(n) /\ -k # 0
  BY <1>4, <1>5, TransactionAssumption DEF LockId, Ids
<1>7. \E new : /\ new \in CallRecord(Len(log)) /\ Shape(c, new)
               /\ call' = [call EXCEPT ![c] = new] /\ UNCHANGED <<handle, tree, wal, told>>
  <2>. HIDE DEF LockId
  <2>0. Idle \in CallRecord(n) /\ Shape(c, Idle)
    BY <1>1, IdleType DEF Shape
  <2>1. CASE ReadSlot(c)
    <3>1. CASE Return(c)
      BY <1>1, <2>0, <2>1, <3>1 DEF Return, ReadSlot
    <3>2. CASE ~ Return(c)
      <4> DEFINE new == [r EXCEPT !.old = tree[k].lsn, !.exists = tree[k].exists,
                                  !.want = LockId(k, tree[k].lsn), !.then = "recheck",
                                  !.pc = "lock"]
      <4>1. call' = [call EXCEPT ![c] = new]
        BY <1>1, <1>2, <1>4, <2>1, <3>2 DEF ReadSlot, TypeInv, CallType
      <4>2. new \in CallRecord(n) /\ new.pc = "lock" /\ new.then = "recheck"
            /\ new.want = LockId(k, tree[k].lsn)
            /\ new.op = r.op /\ new.txn = r.txn /\ new.key = r.key
        BY <1>5, <1>6 DEF CallRecord, WritePcs
      <4>3. Shape(c, new)
        <5>. HIDE DEF new
        <5>. QED BY <1>3, <1>6, <4>2 DEF Shape, WritePcs
      <4>. QED
        BY <1>1, <2>1, <4>1, <4>2, <4>3 DEF ReadSlot
    <3>. QED
      BY <3>1, <3>2
  <2>2. CASE RecheckPut(c)
    <3>1. CASE LockId(k, tree[k].lsn) = r.want
      <4>0. PICK pc \in {"exists", "log"} : pc = IF r.op = "Insert" THEN "exists" ELSE "log"
        OBVIOUS
      <4> DEFINE new == [r EXCEPT !.old = tree[k].lsn, !.exists = tree[k].exists, !.pc = pc]
      <4>1. call' = [call EXCEPT ![c] = new]
        BY <1>1, <1>2, <1>4, <2>2, <3>1, <4>0 DEF RecheckPut, TypeInv, CallType
      <4>2. new \in CallRecord(n) /\ new.pc \in {"exists", "log"}
            /\ new.op = r.op /\ new.txn = r.txn /\ new.key = r.key
        BY <1>5, <1>6 DEF CallRecord, WritePcs
      <4>3. Shape(c, new)
        <5>. HIDE DEF new
        <5>. QED BY <1>3, <1>6, <4>2 DEF Shape, WritePcs
      <4>. QED
        BY <1>1, <2>2, <4>1, <4>2, <4>3 DEF RecheckPut
    <3>2. CASE LockId(k, tree[k].lsn) # r.want
      <4> DEFINE new == [r EXCEPT !.pc = "slot"]
      <4>1. call' = [call EXCEPT ![c] = new]
        BY <1>1, <1>2, <1>4, <2>2, <3>2 DEF RecheckPut, TypeInv, CallType, Goto
      <4>2. new \in CallRecord(n) /\ new.pc = "slot"
            /\ new.op = r.op /\ new.txn = r.txn /\ new.key = r.key
        BY <1>5, <1>6 DEF CallRecord, WritePcs
      <4>3. Shape(c, new)
        <5>. HIDE DEF new
        <5>. QED BY <1>3, <1>6, <4>2 DEF Shape, WritePcs
      <4>. QED
        BY <1>1, <2>2, <4>1, <4>2, <4>3 DEF RecheckPut
    <3>. QED
      BY <3>1, <3>2
  <2>3. CASE RecheckInsert(c)
    <3>1. CASE Return(c)
      BY <1>1, <2>0, <2>3, <3>1 DEF Return, RecheckInsert
    <3>2. CASE Goto(c, "log")
      <4> DEFINE new == [r EXCEPT !.pc = "log"]
      <4>1. call' = [call EXCEPT ![c] = new]
        BY <1>1, <1>2, <1>4, <2>3, <3>2 DEF TypeInv, CallType, Goto
      <4>2. new \in CallRecord(n) /\ new.pc = "log"
            /\ new.op = r.op /\ new.txn = r.txn /\ new.key = r.key
        BY <1>5, <1>6 DEF CallRecord, WritePcs
      <4>3. Shape(c, new)
        <5>. HIDE DEF new
        <5>. QED BY <1>3, <1>6, <4>2 DEF Shape, WritePcs
      <4>. QED
        BY <1>1, <2>3, <4>1, <4>2, <4>3 DEF RecheckInsert
    <3>. QED
      BY <2>3, <3>1, <3>2 DEF RecheckInsert
  <2>4. CASE RecheckDelete(c)
    <3>1. CASE Return(c)
      BY <1>1, <2>0, <2>4, <3>1 DEF Return, RecheckDelete
    <3>2. CASE ~ Return(c)
      <4> DEFINE new == [r EXCEPT !.want = -k, !.then = "log", !.pc = "lock"]
      <4>1. call' = [call EXCEPT ![c] = new]
        BY <1>1, <1>2, <1>4, <2>4, <3>2 DEF RecheckDelete, TypeInv, CallType
      <4>2. new \in CallRecord(n) /\ new.pc = "lock" /\ new.then = "log" /\ new.want = -k
            /\ new.op = r.op /\ new.txn = r.txn /\ new.key = r.key
        BY <1>5, <1>6 DEF CallRecord, WritePcs
      <4>3. Shape(c, new)
        <5>. HIDE DEF new
        <5>. QED BY <1>3, <1>6, <4>2 DEF Shape, WritePcs
      <4>. QED
        BY <1>1, <2>4, <4>1, <4>2, <4>3 DEF RecheckDelete
    <3>. QED
      BY <2>4, <3>1, <3>2 DEF RecheckDelete
  <2>. QED
    BY <2>1, <2>2, <2>3, <2>4
<1>. QED
  BY <1>7, QuietTypes

\* A step of caller c, type by type.
LEMMA StepTypes ==
    ASSUME TypeInv, NEW c \in Callers, NEW new, NEW n \in Nat, NEW m \in Nat,
           n = Len(log), m = Len(log'), n <= m,
           new \in CallRecord(m), Shape(c, new), call' = [call EXCEPT ![c] = new],
           StateType', LogType', LockType(m)', TreeType(m)'
    PROVE  TypeInv'
<1>1. CallType(m)'
  <2>1. CallType(n)
    BY DEF TypeInv
  <2>. QED
    BY <2>1, CallStep
<1>. QED
  BY <1>1 DEF TypeInv

LEMMA LocksOf ==
    ASSUME NEW n \in Nat, NEW locks, GoodLocks(locks, n)
    PROVE  /\ \A id \in Ids(n) : GoodLocks(Tracked(locks, id), n)
           /\ \A old, new : new \in Ids(n) => GoodLocks(Moved(locks, old, new), n)
           /\ GoodLocks(<< >>, n)
<1>0. WriteLockInfo \in Info(n)
  BY DEF WriteLockInfo, Info
<1>1. ASSUME NEW id \in Ids(n) PROVE GoodLocks(Tracked(locks, id), n)
  <2>1. CASE id \in DOMAIN locks
    BY <2>1 DEF Tracked
  <2>2. CASE id \notin DOMAIN locks
    <3> DEFINE new == [i \in DOMAIN locks \union {id} |->
                          IF i = id THEN WriteLockInfo ELSE locks[i]]
    <3>1. Tracked(locks, id) = new
      BY <2>2 DEF Tracked
    <3>2. GoodLocks(new, n)
      BY <1>0 DEF GoodLocks
    <3>. QED
      BY <3>1, <3>2
  <2>. QED
    BY <2>1, <2>2
<1>2. ASSUME NEW old, NEW new, new \in Ids(n) PROVE GoodLocks(Moved(locks, old, new), n)
  <2>1. CASE old \notin DOMAIN locks
    BY <2>1 DEF Moved
  <2>2. CASE old \in DOMAIN locks
    <3> DEFINE w == [i \in DOMAIN locks \union {new} |->
             CASE i = new -> locks[old] [] i = old -> WriteLockInfo [] OTHER -> locks[i]]
    <3>1. Moved(locks, old, new) = w
      BY <2>2 DEF Moved
    <3>2. DOMAIN w \subseteq Ids(n)
      BY <1>2 DEF GoodLocks
    <3>3. \A i \in DOMAIN w : w[i] \in Info(n)
      BY <1>0, <2>2 DEF GoodLocks
    <3>. QED
      BY <3>1, <3>2, <3>3 DEF GoodLocks
  <2>. QED
    BY <2>1, <2>2
<1>3. GoodLocks(<< >>, n)
  BY DEF GoodLocks
<1>. QED
  BY <1>1, <1>2, <1>3

LEMMA AbortInfoType ==
    ASSUME NEW n \in Nat, NEW locks, GoodLocks(locks, n), NEW id, NEW c,
           call[c].old \in 0 .. n, call[c].exists \in BOOLEAN, call[c].key \in Keys
    PROVE  GoodLocks(AbortInfoSet(locks, id, c), n)
<1> DEFINE info == [never_locked |-> FALSE, abort_lsn |-> call[c].old,
                    abort_known_deleted |-> ~call[c].exists, key |-> call[c].key]
<1>1. info \in Info(n)
  BY DEF Info
<1>. HIDE DEF info
<1>2. CASE id \in DOMAIN locks /\ locks[id].never_locked
  <2>1. AbortInfoSet(locks, id, c) = [locks EXCEPT ![id] = info]
    BY <1>2 DEF AbortInfoSet, info
  <2>. QED
    BY <1>1, <2>1 DEF GoodLocks
<1>3. CASE ~ (id \in DOMAIN locks /\ locks[id].never_locked)
  BY <1>3 DEF AbortInfoSet
<1>. QED
  BY <1>2, <1>3

\* One transaction's locks are replaced.
LEMMA LocksSet ==
    ASSUME NEW n \in Nat, NEW t \in Txns, NEW locks, LockType(n), GoodLocks(locks, n),
           write_locks' = [write_locks EXCEPT ![t] = locks],
           UNCHANGED <<last_lsn, undo_records>>
    PROVE  LockType(n)'
<1>1. DOMAIN write_locks' = Txns
  BY DEF LockType
<1>2. \A u \in Txns : write_locks'[u] = IF u = t THEN locks ELSE write_locks[u]
  BY DEF LockType
<1>. QED
  BY <1>1, <1>2 DEF LockType

\* A busy caller's record.
LEMMA Busy ==
    ASSUME TypeInv, NEW c \in Callers, call[c].pc # "idle"
    PROVE  /\ call[c].txn \in Handles[c] /\ call[c].txn \in Txns /\ call[c].txn # 0
           /\ call[c].pc \in WritePcs => /\ call[c].op \in WriteOps /\ call[c].key \in Keys
           /\ call[c].pc \in EndPcs => call[c].op \in EndOps \cup {"Prepare"}
           /\ call[c] \in CallRecord(Len(log)) /\ Len(log) \in Nat
           /\ Shape(c, call[c]) /\ Idle \in CallRecord(Len(log)) /\ Shape(c, Idle)
<1>1. Shape(c, call[c]) /\ call[c] # Idle /\ call[c] \in CallRecord(Len(log)) /\ Len(log) \in Nat
  BY DEF TypeInv, CallType, Idle, Call, LogType
<1>2. call[c].txn \in Handles[c]
  BY <1>1 DEF Shape
<1>3. Idle \in CallRecord(Len(log)) /\ Shape(c, Idle)
  BY <1>1, IdleType DEF Shape
<1>. QED
  BY <1>1, <1>2, <1>3, HandleTxns DEF Shape, WritePcs, EndPcs

\* The record with another program counter.
LEMMA GotoType ==
    ASSUME NEW n, NEW r \in CallRecord(n), NEW pc \in WritePcs \cup EndPcs
    PROVE  LET new == [r EXCEPT !.pc = pc] IN
           /\ new \in CallRecord(n) /\ new.pc = pc /\ new.op = r.op /\ new.txn = r.txn
           /\ new.key = r.key /\ new.want = r.want /\ new.then = r.then /\ new.new = r.new
           /\ new.sync = r.sync /\ new.undo = r.undo /\ new.old = r.old
           /\ new.exists = r.exists /\ new.err = r.err
  BY DEF CallRecord

LEMMA GotoIs ==
    ASSUME TypeInv, NEW c \in Callers, NEW pc, Goto(c, pc)
    PROVE  call' = [call EXCEPT ![c] = [call[c] EXCEPT !.pc = pc]]
  BY DEF Goto, TypeInv, CallType

LEMMA WaitTypes ==
    ASSUME TypeInv, NEW c \in Callers, Lock(c) \/ WaitEnds(c)
    PROVE  TypeInv'
<1>1. PICK n \in Nat : n = Len(log)
  BY DEF TypeInv, LogType
<1>2. call[c].pc \in {"lock", "wait"}
  BY DEF Lock, WaitEnds
<1>3. PICK t \in Txns : t = call[c].txn
  BY <1>2, Busy
<1>4. PICK r \in CallRecord(n) : r = call[c]
  BY <1>1 DEF TypeInv, CallType
<1>5. /\ r.op \in WriteOps /\ r.txn \in Handles[c] /\ r.key \in Keys
      /\ r.want # 0 /\ r.then \in {"recheck", "log"} /\ r.want \in Ids(n)
  <2>1. r.want \in Ids(n) \cup {0} /\ r.then \in {"idle", "recheck", "log"}
    BY DEF CallRecord
  <2>2. Shape(c, r) /\ r # Idle
    BY <1>2, <1>4 DEF TypeInv, CallType, Idle, Call
  <2>. QED
    BY <1>2, <1>4, <2>1, <2>2 DEF Shape, EndPcs
<1>6. StateType' /\ LogType' /\ TreeType(n)' /\ n = Len(log')
  <2>1. UNCHANGED <<state, prepared, tree, wal, told>>
    BY DEF Lock, WaitEnds
  <2>2. inner' \in [Txns -> {"Open", "MustAbort", "Committed", "Aborted"}]
    BY <1>3 DEF Lock, WaitEnds, SetOnlyAbortable, TypeInv, StateType
  <2>. QED
    BY <1>1, <2>1, <2>2 DEF TypeInv, StateType, LogType, TreeType, wal
<1>7. LockType(n)'
  <2>0. UNCHANGED <<last_lsn, undo_records>>
    BY DEF Lock, WaitEnds
  <2>1. LockType(n)
    BY <1>1 DEF TypeInv
  <2>2. CASE UNCHANGED write_locks
    BY <2>0, <2>1, <2>2 DEF LockType
  <2>3. CASE write_locks' = [write_locks EXCEPT ![t] = Tracked(@, r.want)]
    <3>1. write_locks' = [write_locks EXCEPT ![t] = Tracked(write_locks[t], r.want)]
      BY <2>3
    <3>2. GoodLocks(Tracked(write_locks[t], r.want), n)
      BY <1>5, <2>1, LocksOf DEF LockType
    <3>. QED
      BY <2>0, <2>1, <3>1, <3>2, LocksSet
  <2>. QED
    BY <1>3, <1>4, <2>2, <2>3 DEF Lock, WaitEnds
<1>8. \E new : /\ new \in CallRecord(n) /\ Shape(c, new)
               /\ call' = [call EXCEPT ![c] = new]
  <2>1. CASE Return(c)
    BY <1>1, <1>2, <2>1, Busy DEF Return
  <2>2. CASE \E pc \in {"wait", "recheck", "log"} : Goto(c, pc)
    <3>1. PICK pc \in {"wait", "recheck", "log"} : Goto(c, pc)
      BY <2>2
    <3> DEFINE new == [r EXCEPT !.pc = pc]
    <3>2. /\ new \in CallRecord(n) /\ new.pc = pc /\ new.op = r.op /\ new.txn = r.txn
          /\ new.key = r.key /\ new.want = r.want /\ new.then = r.then
      BY GotoType DEF WritePcs
    <3>3. call' = [call EXCEPT ![c] = new]
      BY <1>4, <3>1, GotoIs
    <3>4. Shape(c, new)
      <4>. HIDE DEF new
      <4>. QED BY <1>5, <3>2 DEF Shape, WritePcs
    <3>. QED
      BY <3>2, <3>3, <3>4
  <2>. QED
    BY <1>4, <1>5, <2>1, <2>2 DEF Lock, WaitEnds
<1>9. PICK new : new \in CallRecord(n) /\ Shape(c, new) /\ call' = [call EXCEPT ![c] = new]
  BY <1>8
<1>10. n <= n
  OBVIOUS
<1>. QED
  BY <1>1, <1>6, <1>7, <1>9, <1>10, StepTypes

\* The log grows by one entry, and only a call record changes with it.
LEMMA AppendTypes ==
    ASSUME TypeInv, NEW c \in Callers, NEW e \in Entry, NEW new, NEW m \in Nat,
           m = Len(log) + 1, log' = Append(log, e), new \in CallRecord(m), Shape(c, new),
           call' = [call EXCEPT ![c] = new],
           UNCHANGED <<handle, tree, durable, io_invalid, told>>
    PROVE  TypeInv'
<1>1. PICK n \in Nat : n = Len(log)
  BY DEF TypeInv, LogType
<1>2. n <= m /\ m = Len(log') /\ log' \in Seq(Entry)
  BY <1>1 DEF TypeInv, LogType
<1>3. StateType'
  BY DEF TypeInv, StateType, handle
<1>4. LogType'
  <2>1. durable \in 1 .. n /\ io_invalid \in BOOLEAN
    BY <1>1 DEF TypeInv, LogType
  <2>2. durable' \in 1 .. m
    BY <1>2, <2>1
  <2>. QED
    BY <1>2, <2>1, <2>2 DEF LogType
<1>5. LockType(m)' /\ TreeType(m)'
  <2>1. LockType(m) /\ TreeType(m)
    BY <1>1, <1>2, LockGrow DEF TypeInv
  <2>. QED
    BY <2>1 DEF LockType, TreeType, handle
<1>. QED
  BY <1>1, <1>2, <1>3, <1>4, <1>5, StepTypes

LEMMA LogLnTypes ==
    ASSUME TypeInv, NEW c \in Callers, LogLn(c)
    PROVE  TypeInv'
<1>1. PICK n \in Nat : n = Len(log)
  BY DEF TypeInv, LogType
<1>2. call[c].pc = "log"
  BY DEF LogLn
<1>3. PICK t \in Txns : t = call[c].txn
  BY <1>2, Busy
<1>4. PICK r \in CallRecord(n) : r = call[c]
  BY <1>1 DEF TypeInv, CallType
<1>5. r.op \in WriteOps /\ r.txn \in Handles[c] /\ r.key \in Keys
  BY <1>2, <1>4, Busy DEF WritePcs
<1>6. CASE io_invalid
  <2>1. Return(c) /\ UNCHANGED <<handle, tree, wal, told>>
    BY <1>6 DEF LogLn, wal
  <2>. QED
    BY <1>2, <2>1, Busy, QuietTypes DEF Return
<1>7. CASE ~ io_invalid
  <2> DEFINE e == LN(t, r.key, r.op = "Delete", AbortLsn(t, r.old),
                     AbortKnownDeleted(t, r.old, tree[r.key].exists))
             m == n + 1
             new == [r EXCEPT !.new = m, !.pc = "finalize"]
  <2>1. log' = Append(log, e) /\ UNCHANGED <<handle, tree, durable, io_invalid, told>>
    BY <1>3, <1>4, <1>7 DEF LogLn
  <2>2. call' = [call EXCEPT ![c] = new]
    BY <1>1, <1>4, <1>7 DEF LogLn, TypeInv, CallType
  <2>3. e \in Entry
    <3>1. AbortLsn(t, r.old) \in Nat
      <4>1. r.old \in 0 .. n
        BY DEF CallRecord
      <4>2. GoodLocks(write_locks[t], n)
        BY <1>1 DEF TypeInv, LockType
      <4>3. \A id \in DOMAIN write_locks[t] : write_locks[t][id].abort_lsn \in 0 .. n
        BY <4>2 DEF GoodLocks, Info
      <4>. QED
        BY <4>1, <4>3 DEF AbortLsn, Recorded
    <3>2. AbortKnownDeleted(t, r.old, tree[r.key].exists) \in BOOLEAN
      BY DEF AbortKnownDeleted
    <3>3. r.key \in Nat
      BY <1>5, TransactionAssumption
    <3>. HIDE DEF AbortLsn, AbortKnownDeleted
    <3>. QED
      BY <3>1, <3>2, <3>3 DEF Entry, LN
  <2>4. m \in Nat /\ n <= m
    OBVIOUS
  <2>5. r \in CallRecord(m) /\ m \in 0 .. m /\ m # 0
    BY <2>4, Grow
  <2>. HIDE DEF m, e
  <2>6. new \in CallRecord(m) /\ new.pc = "finalize" /\ new.new = m /\ new.op = r.op
        /\ new.txn = r.txn /\ new.key = r.key
    BY <2>5 DEF CallRecord, WritePcs
  <2>. HIDE DEF new
  <2>7. Shape(c, new)
    BY <1>5, <2>5, <2>6 DEF Shape, WritePcs
  <2>. QED
    BY <1>1, <2>1, <2>2, <2>3, <2>4, <2>6, <2>7, AppendTypes DEF m
<1>. QED
  BY <1>6, <1>7

LEMMA WriteFrameTypes ==
    ASSUME TypeInv, NEW c \in Callers, WriteFrame(c)
    PROVE  TypeInv'
<1>1. PICK n \in Nat : n = Len(log)
  BY DEF TypeInv, LogType
<1>2. call[c].pc = "frame"
  BY DEF WriteFrame
<1>3. PICK t \in Txns : t = call[c].txn
  BY <1>2, Busy
<1>4. PICK r \in CallRecord(n) : r = call[c]
  BY <1>1 DEF TypeInv, CallType
<1>5. r.op \in EndOps \cup {"Prepare"} /\ r.txn \in Handles[c] /\ r.sync \in BOOLEAN
  BY <1>2, <1>4, Busy DEF EndPcs, CallRecord
<1>6. CASE io_invalid
  <2>1. Return(c) /\ UNCHANGED <<handle, tree, wal, told>>
    BY <1>6 DEF WriteFrame, wal
  <2>. QED
    BY <1>2, <2>1, Busy, QuietTypes DEF Return
<1>7. CASE ~ io_invalid
  <2>0. PICK type, pc : type = FrameType(r.op) /\ pc = IF r.sync THEN "sync" ELSE AfterFrame(r.op)
    OBVIOUS
  <2>00. /\ type \in {"TxnCommit", "TxnAbort", "TxnPrepare"} /\ pc \in {"sync", "inner", "collect"}
         /\ pc = "inner" => r.op \in {"Commit", "ResolveCommit", "Prepare"}
         /\ pc = "collect" => r.op \in {"Abort", "ResolveAbort"}
    BY <1>5, <2>0 DEF FrameType, AfterFrame, EndOps
  <2> DEFINE e == [type |-> type, txn |-> t, sync |-> r.sync]
             m == n + 1
             new == [r EXCEPT !.pc = pc]
  <2>1. log' = Append(log, e) /\ UNCHANGED <<handle, tree, durable, io_invalid, told>>
    BY <1>3, <1>4, <1>7, <2>0 DEF WriteFrame
  <2>2. call' = [call EXCEPT ![c] = new]
    BY <1>4, <1>7, <2>0, GotoIs DEF WriteFrame
  <2>3. e \in Entry
    BY <1>5, <2>00 DEF Entry
  <2>4. m \in Nat /\ n <= m
    OBVIOUS
  <2>5. r \in CallRecord(m)
    BY <2>4, Grow
  <2>. HIDE DEF m, e
  <2>6. new \in CallRecord(m) /\ new.pc = pc /\ new.op = r.op /\ new.txn = r.txn
    BY <2>5, <2>00, GotoType DEF EndPcs
  <2>. HIDE DEF new
  <2>7. Shape(c, new)
    BY <1>5, <2>00, <2>6 DEF Shape, EndPcs
  <2>. QED
    BY <1>1, <2>1, <2>2, <2>3, <2>4, <2>6, <2>7, AppendTypes DEF m
<1>. QED
  BY <1>6, <1>7

LEMMA FinalizeTypes ==
    ASSUME TypeInv, NEW c \in Callers, FinalizeWriteLock(c)
    PROVE  TypeInv'
<1>1. PICK n \in Nat : n = Len(log)
  BY DEF TypeInv, LogType
<1>2. call[c].pc = "finalize"
  BY DEF FinalizeWriteLock
<1>3. PICK t \in Txns : t = call[c].txn
  BY <1>2, Busy
<1>4. PICK r \in CallRecord(n) : r = call[c]
  BY <1>1 DEF TypeInv, CallType
<1>5. /\ r.op \in WriteOps /\ r.txn \in Handles[c] /\ r.key \in Keys
      /\ r.new \in 1 .. n /\ r.old \in 0 .. n /\ r.exists \in BOOLEAN
  <2>1. r.new \in 0 .. n /\ r.old \in 0 .. n /\ r.exists \in BOOLEAN
    BY DEF CallRecord
  <2>2. Shape(c, r) /\ r # Idle
    BY <1>2, <1>4 DEF TypeInv, CallType, Idle, Call
  <2>. QED
    BY <1>2, <1>4, <2>1, <2>2 DEF Shape, EndPcs
<1>6. CASE r.old = 0 /\ ~CheckState(t)
  <2>1. Return(c) /\ UNCHANGED <<handle, tree, wal, told>>
    BY <1>3, <1>4, <1>6 DEF FinalizeWriteLock, handle
  <2>. QED
    BY <1>2, <2>1, Busy, QuietTypes DEF Return
<1>7. CASE ~ (r.old = 0 /\ ~CheckState(t))
  <2>1. PICK locks : /\ locks = IF r.old # 0 THEN Moved(write_locks[t], r.old, r.new)
                                ELSE Tracked(write_locks[t], r.new)
                     /\ write_locks' = [write_locks EXCEPT ![t] = AbortInfoSet(locks, r.new, c)]
                     /\ last_lsn' = [last_lsn EXCEPT ![t] = r.new] /\ Goto(c, "apply")
    BY <1>3, <1>4, <1>7 DEF FinalizeWriteLock
  <2>2. UNCHANGED <<state, inner, prepared, undo_records, tree, wal, told>>
    BY DEF FinalizeWriteLock
  <2>3. LockType(n)
    BY <1>1 DEF TypeInv
  <2>4. GoodLocks(locks, n)
    <3>1. GoodLocks(write_locks[t], n) /\ r.new \in Ids(n)
      BY <1>5, <2>3 DEF LockType, Ids
    <3>. QED
      BY <2>1, <3>1, LocksOf
  <2>5. GoodLocks(AbortInfoSet(locks, r.new, c), n)
    BY <1>4, <1>5, <2>4, AbortInfoType
  <2>6. LockType(n)'
    <3>1. DOMAIN write_locks' = Txns
      BY <2>1, <2>3 DEF LockType
    <3>2. \A u \in Txns : write_locks'[u] =
             IF u = t THEN AbortInfoSet(locks, r.new, c) ELSE write_locks[u]
      BY <2>1, <2>3 DEF LockType
    <3>3. last_lsn' \in [Txns -> 0 .. n]
      BY <1>5, <2>1, <2>3 DEF LockType
    <3>. QED
      BY <2>2, <2>3, <2>5, <3>1, <3>2, <3>3 DEF LockType
  <2>7. StateType' /\ LogType' /\ TreeType(n)' /\ n = Len(log') /\ n <= n
    BY <1>1, <2>2 DEF TypeInv, StateType, LogType, TreeType, wal
  <2> DEFINE new == [r EXCEPT !.pc = "apply"]
  <2>8. /\ new \in CallRecord(n) /\ new.pc = "apply" /\ new.op = r.op /\ new.txn = r.txn
        /\ new.key = r.key /\ new.new = r.new
    BY GotoType DEF WritePcs
  <2>9. call' = [call EXCEPT ![c] = new]
    BY <1>4, <2>1, GotoIs
  <2>. HIDE DEF new
  <2>10. Shape(c, new)
    BY <1>5, <2>8 DEF Shape, WritePcs
  <2>. QED
    BY <1>1, <2>6, <2>7, <2>8, <2>9, <2>10, StepTypes
<1>. QED
  BY <1>6, <1>7

\* Steps that end a call, or move it on, and change the handle's state and locks.
LEMMA HandleTypes ==
    ASSUME TypeInv, NEW c \in Callers, NEW new, new \in CallRecord(Len(log)), Shape(c, new),
           call' = [call EXCEPT ![c] = new], NEW t \in Txns,
           UNCHANGED <<last_lsn, undo_records, tree, wal>>, StateType',
           \/ UNCHANGED write_locks
           \/ write_locks' = [write_locks EXCEPT ![t] = << >>]
    PROVE  TypeInv'
<1>1. PICK n \in Nat : n = Len(log)
  BY DEF TypeInv, LogType
<1>2. LogType' /\ TreeType(n)' /\ n = Len(log') /\ n <= n
  BY <1>1 DEF TypeInv, LogType, TreeType, wal
<1>3. LockType(n)'
  <2>1. LockType(n)
    BY <1>1 DEF TypeInv
  <2>2. CASE UNCHANGED write_locks
    BY <2>1, <2>2 DEF LockType
  <2>3. CASE write_locks' = [write_locks EXCEPT ![t] = << >>]
    <3>1. GoodLocks(<< >>, n)
      BY <2>1, LocksOf DEF LockType
    <3>. QED
      BY <2>1, <2>3, <3>1, LocksSet
  <2>. QED
    BY <2>2, <2>3
<1>. QED
  BY <1>1, <1>2, <1>3, StepTypes

LEMMA InnerTypes ==
    ASSUME TypeInv, NEW c \in Callers,
           CommitInner(c) \/ ResolveCommitInner(c) \/ PrepareInner(c)
    PROVE  TypeInv'
<1>1. PICK n \in Nat : n = Len(log)
  BY DEF TypeInv, LogType
<1>2. call[c].pc = "inner" /\ call[c].op \in {"Commit", "ResolveCommit", "Prepare"}
  BY DEF CommitInner, ResolveCommitInner, PrepareInner
<1>3. PICK t \in Txns : t = call[c].txn
  BY <1>2, Busy
<1>4. PICK r \in CallRecord(n) : r = call[c]
  BY <1>1 DEF TypeInv, CallType
<1>5. r.txn \in Handles[c]
  BY <1>2, <1>4, Busy
<1>6. UNCHANGED <<state, last_lsn, undo_records, tree, wal, told>>
  BY DEF CommitInner, ResolveCommitInner, PrepareInner
<1>7. StateType'
  <2>1. inner' \in [Txns -> {"Open", "MustAbort", "Committed", "Aborted"}]
    BY <1>3 DEF CommitInner, ResolveCommitInner, PrepareInner, TypeInv, StateType
  <2>2. prepared' \in [Txns -> BOOLEAN]
    BY <1>3 DEF CommitInner, ResolveCommitInner, PrepareInner, TypeInv, StateType
  <2>. QED
    BY <1>6, <2>1, <2>2 DEF TypeInv, StateType
<1>8. UNCHANGED write_locks \/ write_locks' = [write_locks EXCEPT ![t] = << >>]
  BY <1>3 DEF CommitInner, ResolveCommitInner, PrepareInner, ReleaseAllLocks
<1>9. \E new : /\ new \in CallRecord(n) /\ Shape(c, new)
               /\ call' = [call EXCEPT ![c] = new]
  <2>1. CASE Return(c)
    BY <1>1, <1>2, <2>1, Busy DEF Return
  <2>2. ASSUME NEW new \in CallRecord(n), new.pc = "end", new.op = r.op, new.txn = r.txn
        PROVE  Shape(c, new)
    BY <1>2, <1>4, <1>5, <2>2 DEF Shape, EndPcs, EndOps
  <2>3. CASE Goto(c, "end")
    <3> DEFINE new == [r EXCEPT !.pc = "end"]
    <3>1. new \in CallRecord(n) /\ new.pc = "end" /\ new.op = r.op /\ new.txn = r.txn
      BY GotoType DEF EndPcs
    <3>2. call' = [call EXCEPT ![c] = new]
      BY <1>4, <2>3, GotoIs
    <3>. HIDE DEF new
    <3>. QED
      BY <2>2, <3>1, <3>2
  <2>4. CASE CommitInner(c)
    <3>1. PICK err \in BOOLEAN : err = (prepared[t] \/ ~CheckState(t))
      OBVIOUS
    <3> DEFINE new == [r EXCEPT !.err = err, !.pc = "end"]
    <3>2. new \in CallRecord(n) /\ new.pc = "end" /\ new.op = r.op /\ new.txn = r.txn
      BY DEF CallRecord, EndPcs
    <3>3. call' = [call EXCEPT ![c] = new]
      BY <1>3, <1>4, <2>4, <3>1 DEF CommitInner, TypeInv, CallType
    <3>. HIDE DEF new
    <3>. QED
      BY <2>2, <3>2, <3>3
  <2>. QED
    BY <2>1, <2>3, <2>4 DEF ResolveCommitInner, PrepareInner
<1>. QED
  BY <1>1, <1>6, <1>7, <1>8, <1>9, HandleTypes

LEMMA OutcomeType ==
    ASSUME NEW op \in EndOps \cup {"Prepare"}
    PROVE  Outcome(op) \in {"Prepared", "Committed", "Aborted"}
  BY DEF Outcome, FrameType, EndOps

LEMMA EndTypes ==
    ASSUME TypeInv, NEW c \in Callers, End(c) \/ FinishAbort(c)
    PROVE  TypeInv'
<1>1. call[c].pc \in {"end", "undo"}
  BY DEF End, FinishAbort
<1>2. PICK t \in Txns : t = call[c].txn
  BY <1>1, Busy
<1>3. UNCHANGED <<inner, prepared, last_lsn, undo_records, tree, wal>> /\ Finish(c)
  BY DEF End, FinishAbort
<1>4. StateType'
  <2>1. Outcome(call[c].op) \in {"Prepared", "Committed", "Aborted"}
    BY <1>1, Busy, OutcomeType DEF EndPcs
  <2>2. state' = [state EXCEPT ![t] = Outcome(call[c].op)]
    BY <1>2, <1>3 DEF Finish
  <2>3. DOMAIN told' = DOMAIN told
    BY <1>3 DEF Finish
  <2>. QED
    BY <1>3, <2>1, <2>2, <2>3 DEF TypeInv, StateType
<1>5. UNCHANGED write_locks \/ write_locks' = [write_locks EXCEPT ![t] = << >>]
  BY <1>2 DEF End, FinishAbort, ReleaseAllLocks
<1>6. call' = [call EXCEPT ![c] = Idle]
  BY <1>3 DEF Finish, Return
<1>. QED
  BY <1>1, <1>3, <1>4, <1>5, <1>6, Busy, HandleTypes

LEMMA SyncFrameTypes ==
    ASSUME TypeInv, NEW c \in Callers, SyncFrame(c)
    PROVE  TypeInv'
<1>1. PICK n \in Nat : n = Len(log)
  BY DEF TypeInv, LogType
<1>2. call[c].pc = "sync"
  BY DEF SyncFrame
<1>4. PICK r \in CallRecord(n) : r = call[c]
  BY <1>1 DEF TypeInv, CallType
<1>5. r.op \in EndOps \cup {"Prepare"} /\ r.txn \in Handles[c]
  BY <1>2, <1>4, Busy DEF EndPcs
<1>6. CASE io_invalid
  <2>1. Return(c) /\ UNCHANGED <<handle, tree, wal, told>>
    BY <1>6 DEF SyncFrame, wal
  <2>. QED
    BY <1>2, <2>1, Busy, QuietTypes DEF Return
<1>7. CASE ~ io_invalid
  <2>0. PICK pc : pc = AfterFrame(r.op)
    OBVIOUS
  <2>1. /\ pc \in {"inner", "collect"}
        /\ pc = "inner" => r.op \in {"Commit", "ResolveCommit", "Prepare"}
        /\ pc = "collect" => r.op \in {"Abort", "ResolveAbort"}
    BY <1>5, <2>0 DEF FrameType, AfterFrame, EndOps
  <2>2. /\ durable' = n /\ Goto(c, pc)
        /\ UNCHANGED <<handle, tree, log, io_invalid, told>>
    BY <1>1, <1>4, <1>7, <2>0 DEF SyncFrame
  <2> DEFINE new == [r EXCEPT !.pc = pc]
  <2>3. new \in CallRecord(n) /\ new.pc = pc /\ new.op = r.op /\ new.txn = r.txn
    BY <2>1, GotoType DEF EndPcs
  <2>4. call' = [call EXCEPT ![c] = new]
    BY <1>4, <2>2, GotoIs
  <2>. HIDE DEF new
  <2>5. Shape(c, new)
    BY <1>5, <2>1, <2>3 DEF Shape, EndPcs
  <2>6. StateType' /\ LockType(n)' /\ TreeType(n)' /\ n = Len(log') /\ n <= n
    BY <1>1, <2>2 DEF TypeInv, StateType, LockType, TreeType, handle
  <2>7. LogType'
    BY <1>1, <2>2 DEF TypeInv, LogType
  <2>. QED
    BY <1>1, <2>3, <2>4, <2>5, <2>6, <2>7, StepTypes
<1>. QED
  BY <1>6, <1>7

LEMMA ApplyTreeTypes ==
    ASSUME TypeInv, NEW c \in Callers, ApplyTree(c)
    PROVE  TypeInv'
<1>1. PICK n \in Nat : n = Len(log)
  BY DEF TypeInv, LogType
<1>2. call[c].pc = "apply" /\ UNCHANGED <<handle, wal, told>> /\ Return(c)
  BY DEF ApplyTree
<1>3. call[c].new \in 0 .. n
  BY <1>1, <1>2, Busy DEF CallRecord
<1>4. TreeType(n)'
  BY <1>1, <1>3 DEF ApplyTree, TypeInv, TreeType
<1>5. StateType' /\ LogType' /\ LockType(n)' /\ n = Len(log') /\ n <= n
  BY <1>1, <1>2 DEF TypeInv, StateType, LogType, LockType, handle, wal
<1>6. Idle \in CallRecord(n) /\ Shape(c, Idle) /\ call' = [call EXCEPT ![c] = Idle]
  BY <1>1, <1>2, Busy DEF Return
<1>. QED
  BY <1>1, <1>4, <1>5, <1>6, StepTypes

LEMMA StartAbortTypes ==
    ASSUME TypeInv, NEW c \in Callers, StartAbort(c)
    PROVE  TypeInv'
<1>1. PICK n \in Nat : n = Len(log)
  BY DEF TypeInv, LogType
<1>2. PICK t \in Handles[c] :
          IF ~CheckEnv
          THEN /\ ReleaseAllLocks(t)
               /\ state' = [state EXCEPT ![t] = "Aborted"]
               /\ UNCHANGED call
          ELSE /\ call' = [call EXCEPT ![c] =
                     Call("Abort", t, IF HasLoggedData(t) THEN "frame" ELSE "collect")]
               /\ UNCHANGED <<state, write_locks>>
  BY DEF StartAbort
<1>3. t \in Txns
  BY HandleTxns
<1>4. UNCHANGED <<inner, prepared, last_lsn, undo_records, tree, wal, told>>
  BY DEF StartAbort
<1>5. StateType'
  BY <1>2, <1>3, <1>4 DEF TypeInv, StateType
<1>6. UNCHANGED write_locks \/ write_locks' = [write_locks EXCEPT ![t] = << >>]
  BY <1>2 DEF ReleaseAllLocks
<1>7. \E new : new \in CallRecord(n) /\ Shape(c, new) /\ call' = [call EXCEPT ![c] = new]
  <2>1. CASE ~CheckEnv
    <3>1. call[c] \in CallRecord(n) /\ Shape(c, call[c])
      BY <1>1 DEF TypeInv, CallType
    <3>2. call' = [call EXCEPT ![c] = call[c]]
      BY <1>2, <2>1 DEF TypeInv, CallType
    <3>. QED
      BY <3>1, <3>2
  <2>2. CASE CheckEnv
    <3>1. PICK pc \in {"frame", "collect"} : pc = IF HasLoggedData(t) THEN "frame" ELSE "collect"
      OBVIOUS
    <3> DEFINE new == Call("Abort", t, pc)
    <3>2. 0 \in 0 .. n
      OBVIOUS
    <3>3. new \in CallRecord(n) /\ new.pc = pc /\ new.op = "Abort" /\ new.txn = t
      BY <1>3, <3>2 DEF Call, CallRecord, EndPcs, EndOps
    <3>4. call' = [call EXCEPT ![c] = new]
      BY <1>2, <2>2, <3>1
    <3>. HIDE DEF new
    <3>5. Shape(c, new)
      BY <3>3 DEF Shape, EndPcs, EndOps
    <3>. QED
      BY <3>3, <3>4, <3>5
  <2>. QED
    BY <2>1, <2>2
<1>8. PICK new : new \in CallRecord(n) /\ Shape(c, new) /\ call' = [call EXCEPT ![c] = new]
  BY <1>7
<1>. QED
  BY <1>1, <1>3, <1>4, <1>5, <1>6, <1>8, HandleTypes

LEMMA UndoOfType ==
    ASSUME NEW n \in Nat, NEW t \in Txns, LockType(n)
    PROVE  UndoOf(t) \subseteq UndoRecord(n)
<1>1. \A id \in DOMAIN write_locks[t] : id \in Ids(n) /\ write_locks[t][id] \in Info(n)
  BY DEF LockType, GoodLocks
<1>. QED
  BY <1>1 DEF UndoOf, UndoRecord, Info

LEMMA CollectTypes ==
    ASSUME TypeInv, NEW c \in Callers, CollectUndo(c)
    PROVE  TypeInv'
<1>1. PICK n \in Nat : n = Len(log)
  BY DEF TypeInv, LogType
<1>2. call[c].pc = "collect"
  BY DEF CollectUndo
<1>3. PICK t \in Txns : t = call[c].txn
  BY <1>2, Busy
<1>4. PICK r \in CallRecord(n) : r = call[c]
  BY <1>1 DEF TypeInv, CallType
<1>5. r.op \in {"Abort", "ResolveAbort"} /\ r.txn \in Handles[c]
  <2>1. Shape(c, r) /\ r # Idle
    BY <1>2, <1>4 DEF TypeInv, CallType, Idle, Call
  <2>. QED
    BY <1>2, <1>4, <2>1 DEF Shape, WritePcs
<1>6. UNCHANGED <<state, last_lsn, write_locks, tree, wal, told>>
  BY DEF CollectUndo
<1>7. LockType(n)
  BY <1>1 DEF TypeInv
<1>8. PICK undo : undo = CASE inner[t] = "Aborted"   -> undo_records[t]
                           [] inner[t] = "Committed" -> {}
                           [] OTHER                  -> UndoOf(t)
  OBVIOUS
<1>9. undo \in SUBSET UndoRecord(n) /\ undo_records[t] \in SUBSET UndoRecord(n)
  BY <1>7, <1>8, UndoOfType DEF LockType
<1>10. LockType(n)'
  <2>1. undo_records' = [undo_records EXCEPT ![t] =
           CASE inner[t] = "Aborted"   -> {}
             [] inner[t] = "Committed" -> undo_records[t]
             [] OTHER                  -> undo_records[t] \union undo]
    BY <1>3, <1>8 DEF CollectUndo
  <2>2. undo_records' \in [Txns -> SUBSET UndoRecord(n)]
    <3>1. PICK w \in SUBSET UndoRecord(n) : undo_records' = [undo_records EXCEPT ![t] = w]
      <4>1. CASE inner[t] = "Aborted"
        BY <2>1, <4>1
      <4>2. CASE inner[t] = "Committed"
        BY <1>9, <2>1, <4>2
      <4>3. CASE inner[t] \notin {"Aborted", "Committed"}
        BY <1>9, <2>1, <4>3
      <4>. QED
        BY <4>1, <4>2, <4>3
    <3>. QED
      BY <1>7, <3>1 DEF LockType
  <2>. QED
    BY <1>6, <1>7, <2>2 DEF LockType
<1>11. StateType'
  <2>1. inner' \in [Txns -> {"Open", "MustAbort", "Committed", "Aborted"}]
    BY <1>3 DEF CollectUndo, TypeInv, StateType
  <2>2. prepared' \in [Txns -> BOOLEAN]
    BY <1>3 DEF CollectUndo, TypeInv, StateType
  <2>. QED
    BY <1>6, <2>1, <2>2 DEF TypeInv, StateType
<1>12. LogType' /\ TreeType(n)' /\ n = Len(log') /\ n <= n
  BY <1>1, <1>6 DEF TypeInv, LogType, TreeType, wal
<1> DEFINE new == [r EXCEPT !.undo = undo, !.pc = "undo"]
<1>13. call' = [call EXCEPT ![c] = new]
  BY <1>3, <1>4, <1>8 DEF CollectUndo, TypeInv, CallType
<1>14. new \in CallRecord(n) /\ new.pc = "undo" /\ new.op = r.op /\ new.txn = r.txn
  BY <1>9 DEF CallRecord, EndPcs
<1>. HIDE DEF new
<1>15. Shape(c, new)
  BY <1>5, <1>14 DEF Shape, EndPcs, EndOps
<1>. QED
  BY <1>1, <1>10, <1>11, <1>12, <1>13, <1>14, <1>15, StepTypes

LEMMA ApplyUndoTypes ==
    ASSUME TypeInv, NEW c \in Callers, ApplyUndo(c)
    PROVE  TypeInv'
<1>1. PICK n \in Nat : n = Len(log)
  BY DEF TypeInv, LogType
<1>2. call[c].pc = "undo" /\ call[c].undo # {} /\ UNCHANGED <<handle, wal, told>>
  BY DEF ApplyUndo
<1>4. PICK r \in CallRecord(n) : r = call[c]
  BY <1>1 DEF TypeInv, CallType
<1>5. r.op \in {"Abort", "ResolveAbort"} /\ r.txn \in Handles[c]
  <2>1. Shape(c, r) /\ r # Idle
    BY <1>2, <1>4 DEF TypeInv, CallType, Idle, Call
  <2>. QED
    BY <1>2, <1>4, <2>1 DEF Shape, WritePcs
<1>6. PICK u : u = CHOOSE x \in r.undo : \A s \in r.undo : s.lsn <= x.lsn
  OBVIOUS
<1>7. r.undo \in SUBSET UndoRecord(n) /\ r.undo # {}
  BY <1>2, <1>4 DEF CallRecord
<1>8. u \in UndoRecord(n)
  BY <1>6, <1>7, NewestExists
<1>9. PICK slot : /\ slot = IF u.abort_known_deleted THEN [lsn |-> 0, exists |-> FALSE]
                            ELSE [lsn |-> u.abort_lsn, exists |-> TRUE]
                  /\ tree' = [tree EXCEPT ![u.key] = slot]
  BY <1>4, <1>6 DEF ApplyUndo
<1>10. slot \in [lsn : 0 .. n, exists : BOOLEAN]
  BY <1>8, <1>9 DEF UndoRecord
<1>11. TreeType(n)'
  BY <1>1, <1>9, <1>10 DEF TypeInv, TreeType
<1>12. StateType' /\ LogType' /\ LockType(n)' /\ n = Len(log') /\ n <= n
  BY <1>1, <1>2 DEF TypeInv, StateType, LogType, LockType, handle, wal
<1> DEFINE new == [r EXCEPT !.undo = r.undo \ {u}]
<1>13. call' = [call EXCEPT ![c] = new]
  BY <1>4, <1>6 DEF ApplyUndo, TypeInv, CallType
<1>14. new \in CallRecord(n) /\ new.pc = r.pc /\ new.op = r.op /\ new.txn = r.txn
  BY <1>7 DEF CallRecord
<1>. HIDE DEF new
<1>15. Shape(c, new)
  BY <1>2, <1>4, <1>5, <1>14 DEF Shape, EndPcs, EndOps
<1>. QED
  BY <1>1, <1>11, <1>12, <1>13, <1>14, <1>15, StepTypes

LEMMA XaEndFailTypes ==
    ASSUME TypeInv, NEW t \in Txns, XaEndFail(t)
    PROVE  TypeInv'
<1>1. UNCHANGED <<state, prepared, last_lsn, write_locks, undo_records, tree, wal, call, told>>
  BY DEF XaEndFail
<1>2. inner' \in [Txns -> {"Open", "MustAbort", "Committed", "Aborted"}]
  BY DEF XaEndFail, SetOnlyAbortable, TypeInv, StateType
<1>. QED
  BY <1>1, <1>2 DEF TypeInv, StateType, LogType, LockType, TreeType, CallType, wal

LEMMA LogFailsTypes ==
    ASSUME TypeInv, LogFails
    PROVE  TypeInv'
  BY DEF LogFails, TypeInv, StateType, LogType, LockType, TreeType, CallType, handle

LEMMA InitTypes == Init => TypeInv
<1>. SUFFICES ASSUME Init PROVE TypeInv
  OBVIOUS
<1>1. Len(log) = 1 /\ log \in Seq(Entry)
  <2>1. LN(0, 1, FALSE, 0, FALSE) \in Entry
    BY DEF LN, Entry
  <2>2. PICK e \in Entry : log = << e >>
    BY <2>1 DEF Init
  <2>. QED
    BY <2>2
<1>2. StateType /\ LogType
  <2>0. io_invalid \in BOOLEAN
    BY Zenon DEF Init
  <2>1. durable \in 1 .. Len(log)
    BY <1>1 DEF Init
  <2>2. StateType
    BY DEF Init, StateType
  <2>. QED
    BY <1>1, <2>0, <2>1, <2>2 DEF LogType
<1>3. LockType(1)
  BY DEF Init, LockType, GoodLocks
<1>4. TreeType(1)
  BY DEF Init, TreeType
<1>5. CallType(1)
  BY IdleType DEF Init, CallType, Shape
<1>. QED
  BY <1>1, <1>2, <1>3, <1>4, <1>5 DEF TypeInv

LEMMA NextTypes == TypeInv /\ [Next]_vars => TypeInv'
<1>. SUFFICES ASSUME TypeInv, [Next]_vars PROVE TypeInv'
  OBVIOUS
<1>1. CASE UNCHANGED vars
  BY <1>1 DEF vars, handle, wal, TypeInv, StateType, LogType, LockType, TreeType, CallType
<1>2. ASSUME NEW c \in Callers,
             \/ StartWrite(c) \/ ReadSlot(c) \/ Lock(c) \/ WaitEnds(c) \/ RecheckPut(c)
             \/ RecheckInsert(c) \/ RecheckDelete(c) \/ LogLn(c) \/ FinalizeWriteLock(c)
             \/ ApplyTree(c) \/ StartCommit(c) \/ StartAbort(c) \/ StartPrepare(c)
             \/ StartResolve(c) \/ WriteFrame(c) \/ SyncFrame(c) \/ CommitInner(c)
             \/ ResolveCommitInner(c) \/ PrepareInner(c) \/ End(c) \/ CollectUndo(c)
             \/ ApplyUndo(c) \/ FinishAbort(c)
      PROVE  TypeInv'
  BY <1>2, StartTypes, ReadTypes, WaitTypes, LogLnTypes, FinalizeTypes, ApplyTreeTypes,
     StartAbortTypes, WriteFrameTypes, SyncFrameTypes, InnerTypes, EndTypes, CollectTypes,
     ApplyUndoTypes
<1>3. ASSUME NEW t \in Txns, XaEndFail(t) PROVE TypeInv'
  BY <1>3, XaEndFailTypes
<1>. QED
  BY <1>1, <1>2, <1>3, LogFailsTypes DEF Next

\* The handles, locks, tree, log and call records always have their types: no LSN in a
\* handle, a lock table, a before-image or a slot lies beyond the end of the log, and the
\* newest undo record that abort looks for exists.
THEOREM TypeCorrect == Spec => []TypeOK
<1>1. TypeInv => TypeOK
  <2>. SUFFICES ASSUME TypeInv PROVE TypeOK
    OBVIOUS
  <2>1. PICK n \in Nat : n = Len(log)
    BY DEF TypeInv, LogType
  <2>2. \A t \in Txns : last_lsn[t] \in 0 .. n
    BY <2>1 DEF TypeInv, LockType
  <2>3. \A t \in Txns : \A id \in DOMAIN write_locks[t] : id \in 1 .. n \/ -id \in Keys
    BY <2>1, TransactionAssumption DEF TypeInv, LockType, GoodLocks, Ids
  <2>4. \A k \in Keys : tree[k].lsn \in 0 .. n
    BY <2>1 DEF TypeInv, TreeType
  <2>. QED
    BY <2>1, <2>2, <2>3, <2>4 DEF TypeInv, StateType, LogType, TypeOK
<1>. QED
  BY <1>1, InitTypes, NextTypes, PTL DEF Spec

-----------------------------------------------------------------------------
(* The facts of one transaction: lemmas *)

LEMMA IdleFields ==
    /\ Idle.op = "none" /\ Idle.pc = "idle" /\ Idle.txn = 0 /\ Idle.sync = FALSE
    /\ Idle.new = 0 /\ Idle.err = FALSE
  BY DEF Idle, Call

LEMMA FramesAppend ==
    ASSUME TypeInv, NEW e \in Entry, log' = Append(log, e), NEW t, NEW type
    PROVE  Frames(t, type, Len(log))' =
               IF e.type = type /\ e.txn = t THEN Frames(t, type, Len(log)) \cup {Len(log) + 1}
               ELSE Frames(t, type, Len(log))
<1>1. /\ Len(log) \in Nat /\ Len(log') = Len(log) + 1 /\ log'[Len(log) + 1] = e
      /\ \A i \in 1 .. Len(log) : log'[i] = log[i]
  BY DEF TypeInv, LogType
<1>2. PICK n \in Nat : n = Len(log)
  BY <1>1
<1>3. 1 .. n + 1 = 1 .. n \cup {n + 1} /\ n + 1 \notin 1 .. n
  OBVIOUS
<1>4. Frames(t, type, Len(log))' = {i \in 1 .. n + 1 : log'[i].type = type /\ log'[i].txn = t}
  BY <1>1, <1>2 DEF Frames
<1>5. Frames(t, type, Len(log)) = {i \in 1 .. n : log[i].type = type /\ log[i].txn = t}
  BY <1>2 DEF Frames
<1>6. \A i : i \in Frames(t, type, Len(log))' <=>
             \/ i \in Frames(t, type, Len(log))
             \/ i = n + 1 /\ e.type = type /\ e.txn = t
  BY <1>1, <1>2, <1>3, <1>4, <1>5
<1>. QED
  BY <1>2, <1>6

LEMMA FrameIndex ==
    ASSUME TypeInv, NEW t
    PROVE  /\ Len(log) \in Nat /\ durable \in Nat /\ durable <= Len(log)
           /\ \A i \in LNs(t) \cup Ends(t) \cup Prepares(t) : i \in Nat /\ i <= Len(log)
  BY DEF TypeInv, LogType, LNs, Ends, Commits, Aborts, Prepares, Frames

\* A step that appends nothing keeps the frames.
LEMMA FramesKept ==
    ASSUME NEW t, log' = log
    PROVE  /\ LNs(t)' = LNs(t) /\ Commits(t)' = Commits(t) /\ Aborts(t)' = Aborts(t)
           /\ Prepares(t)' = Prepares(t)
  BY DEF LNs, Commits, Aborts, Prepares, Frames

LEMMA FactsKept ==
    ASSUME TypeInv, TypeInv', NEW t \in Txns, NEW r, Facts(t, r), Kept(t)
    PROVE  Facts(t, r)'
<1>1. Ends(t)' = Ends(t)
  BY DEF Kept, Ends
<1>2. /\ CommitSynced(t) => CommitSynced(t)'
      /\ AbortSynced(t) => AbortSynced(t)'
      /\ PrepareSynced(t) => PrepareSynced(t)'
  <2>1. Commits(t) \in SUBSET Nat /\ Aborts(t) \in SUBSET Nat /\ Prepares(t) \in SUBSET Nat
    BY FrameIndex DEF Ends
  <2>2. \A frames \in SUBSET Nat : (\E i \in frames : i <= durable) => \E i \in frames : i <= durable'
    BY DEF Kept, TypeInv, LogType
  <2>. QED
    BY <2>1, <2>2 DEF Kept, CommitSynced, AbortSynced, PrepareSynced
<1>3. HandleInv(t, r)'
  BY DEF Facts, Kept, HandleInv
<1>4. OrderInv(t)'
  BY <1>1 DEF Facts, Kept, OrderInv
<1>5. LogInv(t, r)'
  <2>1. LogInv(t, r)
    BY DEF Facts
  <2>. QED
    BY <1>1, <1>2, <2>1 DEF Kept, LogInv
<1>6. ToldInv(t)'
  <2>1. ToldInv(t)
    BY DEF Facts
  <2>. QED
    BY <1>1, <1>2, <2>1 DEF Kept, ToldInv
<1>. QED
  BY <1>3, <1>4, <1>5, <1>6 DEF Facts

\* A caller's own transaction, before and after a step.
LEMMA Mine ==
    ASSUME OwnHandles, TypeInv, NEW c \in Callers, NEW t \in Handles[c],
           call[c].txn = t \/ call[c] = Idle
    PROVE  \A r : CallOf(t, r) <=> r = call[c]
<1>1. \A d \in Callers : call[d] = Idle \/ call[d].txn \in Handles[d]
  BY DEF TypeInv, CallType, Shape
<1>2. t # 0
  BY HandleTxns
<1>3. \A d \in Callers : call[d].txn = t => d = c
  BY <1>1, <1>2, IdleFields DEF OwnHandles
<1>. QED
  BY <1>2, <1>3, IdleFields DEF CallOf

LEMMA OwnStep ==
    ASSUME OwnHandles, TypeInv, TypeInv', TxnInv, NEW c \in Callers, NEW t \in Handles[c],
           NEW new, call[c].txn = t \/ call[c] = Idle, new.txn = t \/ new = Idle,
           call' = [call EXCEPT ![c] = new],
           \A u \in Txns \ {t} : Kept(u),
           Facts(t, call[c]) => Facts(t, new)'
    PROVE  TxnInv'
<1>1. t \in Txns /\ t # 0
  BY HandleTxns
<1>2. Facts(t, new)'
  BY <1>1, Mine DEF TxnInv
<1>3. DOMAIN call = Callers
  BY DEF TypeInv, CallType
<1>4. call'[c] = new /\ \A d \in Callers : d # c => call'[d] = call[d]
  BY <1>3
<1>5. ASSUME NEW r, CallOf(t, r)' PROVE r = new
  <2>1. \A d \in Callers : call'[d] = Idle \/ call'[d].txn \in Handles[d]
    BY DEF TypeInv, CallType, Shape
  <2>2. \A d \in Callers : call'[d].txn = t => d = c
    BY <1>1, <2>1, IdleFields DEF OwnHandles
  <2>. QED
    BY <1>1, <1>4, <1>5, <2>2, IdleFields DEF CallOf
<1>6. ASSUME NEW u \in Txns \ {t}, NEW r, CallOf(u, r)' PROVE Facts(u, r)'
  <2>0. u # 0
    BY TransactionAssumption
  <2>1. \A d \in Callers : call'[d].txn = u <=> call[d].txn = u
    BY <1>4, <2>0, IdleFields
  <2>2. \A d \in Callers : call[d].txn = u => call'[d] = call[d]
    BY <1>4, <2>0, IdleFields
  <2>3. CallOf(u, r)
    BY <1>6, <2>1, <2>2 DEF CallOf
  <2>4. Facts(u, r)
    BY <2>3 DEF TxnInv
  <2>. QED
    BY <2>4, FactsKept
<1>. QED
  BY <1>2, <1>5, <1>6 DEF TxnInv

-----------------------------------------------------------------------------
(* The facts of one transaction: one lemma per kind of step *)

\* A step that changes nothing the facts depend on but one call record.
LEMMA QuietFacts ==
    ASSUME OwnHandles, TypeInv, TypeInv', TxnInv, NEW c \in Callers, NEW t \in Handles[c],
           NEW new, call[c].txn = t \/ call[c] = Idle, new.txn = t \/ new = Idle,
           call' = [call EXCEPT ![c] = new],
           UNCHANGED <<state, inner, prepared, last_lsn, told, wal>>,
           Facts(t, call[c]) => Facts(t, new)
    PROVE  TxnInv'
<1>1. \A u \in Txns : Kept(u)
  BY FramesKept DEF Kept, wal, TypeInv, LogType
<1>2. Facts(t, call[c]) => Facts(t, new)'
  BY <1>1, FactsKept, HandleTxns
<1>. QED
  BY <1>1, <1>2, OwnStep

\* A write that moves on, or ends.
LEMMA WriteMoves ==
    ASSUME NEW t, NEW r, NEW new, Facts(t, r), r.op \in WriteOps,
           r.pc = "finalize" => inner[t] # "Open",
           \/ new = Idle
           \/ /\ new.op \in WriteOps /\ new.pc \in WritePcs
              /\ new.pc \in {"slot", "lock"} \/ r.pc \notin {"slot", "lock"} \/ inner[t] = "Open",
           state[t] \in {"Open", "Prepared", "Committed", "Aborted"}
    PROVE  Facts(t, new)
<1>1. new.op \in WriteOps \cup {"none"} /\ new.pc \in WritePcs \cup {"idle"}
  BY IdleFields
<1>2. HandleInv(t, new)
  BY <1>1, IdleFields DEF Facts, HandleInv, Late, WriteOps, WritePcs, EndOps
<1>3. LogInv(t, new)
  BY <1>1, IdleFields DEF Facts, LogInv, WriteOps, WritePcs, EndOps
<1>. QED
  BY <1>2, <1>3 DEF Facts

\* Any call may end when the log has failed.
LEMMA FailedEnds ==
    ASSUME NEW t, NEW r, Facts(t, r), io_invalid, ~ Late(r), r.op \in EndOps \cup {"Prepare"},
           r.pc \notin {"finalize", "end"}
    PROVE  Facts(t, Idle)
<1>2. HandleInv(t, Idle)
  BY IdleFields DEF Facts, HandleInv, Late, WriteOps, EndOps
<1>3. LogInv(t, Idle)
  BY IdleFields DEF Facts, LogInv, WriteOps, EndOps
<1>. QED
  BY <1>2, <1>3 DEF Facts

LEMMA IdleCall ==
    ASSUME TypeInv, NEW c \in Callers, call[c].pc = "idle"
    PROVE  call[c] = Idle
  BY DEF TypeInv, CallType, Shape, WritePcs, EndPcs

LEMMA StartWriteFacts ==
    ASSUME OwnHandles, ~LateWrites, TypeInv, TypeInv', TxnInv, NEW c \in Callers, StartWrite(c)
    PROVE  TxnInv'
<1>1. PICK t \in Handles[c], k \in Keys, op \in WriteOps :
         /\ state[t] # "Prepared"
         /\ call' = [call EXCEPT ![c] = [Call(op, t, "slot") EXCEPT !.key = k]]
  BY DEF StartWrite
<1> DEFINE new == [Call(op, t, "slot") EXCEPT !.key = k]
<1>2. new.op = op /\ new.pc = "slot" /\ new.txn = t
  BY DEF Call
<1>3. call[c] = Idle
  BY IdleCall DEF StartWrite
<1>4. UNCHANGED <<state, inner, prepared, last_lsn, told, wal>> /\ call' = [call EXCEPT ![c] = new]
  BY <1>1 DEF StartWrite, handle
<1>. HIDE DEF new
<1>5. ASSUME Facts(t, Idle) PROVE Facts(t, new)
  <2>1. HandleInv(t, new)
    BY <1>1, <1>2, <1>5, IdleFields DEF Facts, HandleInv, Late, WriteOps, EndOps
  <2>2. LogInv(t, new)
    BY <1>1, <1>2, <1>5, IdleFields DEF Facts, LogInv, WriteOps, EndOps
  <2>. QED
    BY <1>5, <2>1, <2>2 DEF Facts
<1>. QED
  BY <1>2, <1>3, <1>4, <1>5, QuietFacts

LEMMA ReadFacts ==
    ASSUME OwnHandles, TypeInv, TypeInv', TxnInv, NEW c \in Callers,
           ReadSlot(c) \/ RecheckPut(c) \/ RecheckInsert(c) \/ RecheckDelete(c) \/ Lock(c)
           \/ ApplyTree(c)
    PROVE  TxnInv'
<1>1. PICK r : r = call[c]
  OBVIOUS
<1>2. PICK t : t = r.txn
  OBVIOUS
<1>3. /\ r.pc \in {"slot", "recheck", "exists", "lock", "apply"} /\ r.op \in WriteOps
      /\ t \in Handles[c] /\ t \in Txns
  <2>1. r.pc \in {"slot", "recheck", "exists", "lock", "apply"}
    BY <1>1 DEF ReadSlot, RecheckPut, RecheckInsert, RecheckDelete, Lock, ApplyTree
  <2>. QED
    BY <1>1, <1>2, <2>1, Busy DEF WritePcs
<1>4. UNCHANGED <<state, inner, prepared, last_lsn, told, wal>>
  BY DEF ReadSlot, RecheckPut, RecheckInsert, RecheckDelete, Lock, ApplyTree, handle
<1>5. PICK new : call' = [call EXCEPT ![c] = new] /\
          \/ new = Idle
          \/ /\ new.op = r.op /\ new.txn = t /\ new.pc \in WritePcs
             /\ new.pc \in {"slot", "lock"} \/ r.pc \notin {"slot", "lock"} \/ inner[t] = "Open"
  <2>0. call'[c] \in CallRecord(Len(log')) /\ DOMAIN call = Callers /\ r \in CallRecord(Len(log))
    BY <1>1 DEF TypeInv, CallType
  <2>1. CASE Return(c)
    BY <2>1 DEF Return
  <2>2. ASSUME NEW pc \in WritePcs, Goto(c, pc),
               pc \in {"slot", "lock"} \/ r.pc \notin {"slot", "lock"} \/ inner[t] = "Open"
        PROVE  \E new : call' = [call EXCEPT ![c] = new] /\
                 /\ new.op = r.op /\ new.txn = t /\ new.pc \in WritePcs
                 /\ new.pc \in {"slot", "lock"} \/ r.pc \notin {"slot", "lock"}
                       \/ inner[t] = "Open"
    <3> DEFINE new == [r EXCEPT !.pc = pc]
    <3>1. new.pc = pc /\ new.op = r.op /\ new.txn = r.txn
      BY <2>0, GotoType
    <3>2. call' = [call EXCEPT ![c] = new]
      BY <1>1, <2>2, GotoIs
    <3>. HIDE DEF new
    <3>. QED
      BY <1>2, <2>2, <3>1, <3>2
  <2>3. CASE ReadSlot(c) /\ ~Return(c)
    <3>0. PICK old, exists, want : /\ old = tree[call[c].key].lsn
                                   /\ exists = tree[call[c].key].exists
                                   /\ want = LockId(call[c].key, tree[call[c].key].lsn)
      OBVIOUS
    <3>1. call' = [call EXCEPT ![c].old = old, ![c].exists = exists, ![c].want = want,
                               ![c].then = "recheck", ![c].pc = "lock"]
      BY <2>3, <3>0 DEF ReadSlot
    <3> DEFINE new == [r EXCEPT !.old = old, !.exists = exists, !.want = want,
                                !.then = "recheck", !.pc = "lock"]
    <3>2. call' = [call EXCEPT ![c] = new]
      BY <1>1, <2>0, <3>1
    <3>3. new.op = r.op /\ new.txn = r.txn /\ new.pc = "lock"
      BY <2>0 DEF CallRecord
    <3>. HIDE DEF new
    <3>. QED
      BY <1>2, <3>2, <3>3 DEF WritePcs
  <2>4. CASE RecheckPut(c) /\ ~Goto(c, "slot")
    <3>0. PICK old, exists, pc : /\ old = tree[call[c].key].lsn
                                 /\ exists = tree[call[c].key].exists
                                 /\ pc = IF call[c].op = "Insert" THEN "exists" ELSE "log"
      OBVIOUS
    <3>1. call' = [call EXCEPT ![c].old = old, ![c].exists = exists, ![c].pc = pc]
      BY <2>4, <3>0 DEF RecheckPut
    <3> DEFINE new == [r EXCEPT !.old = old, !.exists = exists, !.pc = pc]
    <3>2. call' = [call EXCEPT ![c] = new]
      BY <1>1, <2>0, <3>1
    <3>3. new.op = r.op /\ new.txn = r.txn /\ new.pc = pc
      BY <2>0 DEF CallRecord
    <3>4. r.pc = "recheck"
      BY <1>1, <2>4 DEF RecheckPut
    <3>. HIDE DEF new
    <3>. QED
      BY <1>2, <3>0, <3>2, <3>3, <3>4 DEF WritePcs
  <2>5. CASE RecheckDelete(c) /\ ~Return(c)
    <3>1. PICK want : call' = [call EXCEPT ![c].want = want, ![c].then = "log", ![c].pc = "lock"]
      BY <2>5 DEF RecheckDelete
    <3> DEFINE new == [r EXCEPT !.want = want, !.then = "log", !.pc = "lock"]
    <3>2. call' = [call EXCEPT ![c] = new]
      BY <1>1, <2>0, <3>1
    <3>3. new.op = r.op /\ new.txn = r.txn /\ new.pc = "lock"
      BY <2>0 DEF CallRecord
    <3>. HIDE DEF new
    <3>. QED
      BY <1>2, <3>2, <3>3 DEF WritePcs
  <2>6. CASE Lock(c) /\ ~Return(c)
    <3>1. r.then \in {"recheck", "log"}
      <4>1. Shape(c, r) /\ r # Idle /\ r.then \in {"idle", "recheck", "log"}
        BY <1>1, <1>3, <2>0, IdleFields DEF TypeInv, CallType, CallRecord
      <4>. QED
        BY <1>1, <2>6, <4>1 DEF Shape, Lock, EndPcs
    <3>2. inner[t] = "Open" /\ \E pc \in {"wait", "recheck", "log"} : Goto(c, pc)
      BY <1>1, <1>2, <2>6, <3>1 DEF Lock, CheckState
    <3>. QED
      BY <2>2, <3>2 DEF WritePcs
  <2>7. CASE RecheckInsert(c) /\ ~Return(c)
    <3>1. Goto(c, "log") /\ r.pc = "exists"
      BY <1>1, <2>7 DEF RecheckInsert
    <3>. QED
      BY <2>2, <3>1 DEF WritePcs
  <2>8. CASE RecheckPut(c) /\ Goto(c, "slot")
    BY <2>2, <2>8 DEF WritePcs
  <2>9. CASE ApplyTree(c)
    BY <2>1, <2>9 DEF ApplyTree
  <2>. QED
    BY <2>1, <2>3, <2>4, <2>5, <2>6, <2>7, <2>8, <2>9
<1>6. Facts(t, r) => Facts(t, new)
  <2>1. state[t] \in {"Open", "Prepared", "Committed", "Aborted"}
    BY <1>3 DEF TypeInv, StateType
  <2>. QED
    BY <1>3, <1>5, <2>1, WriteMoves
<1>. QED
  BY <1>1, <1>2, <1>3, <1>4, <1>5, <1>6, QuietFacts

\* The inner Txn of an open handle becomes abort-only.
LEMMA OnlyAbortableKeeps ==
    ASSUME TypeInv, NEW t \in Txns, NEW r, Facts(t, r), state[t] # "Prepared",
           r.op \in WriteOps \cup {"Commit", "Abort", "none"}, SetOnlyAbortable(t),
           UNCHANGED <<state, prepared, last_lsn, wal, told>>
    PROVE  Facts(t, r)'
<1>1. inner'[t] = IF inner[t] = "Open" THEN "MustAbort" ELSE inner[t]
  BY DEF SetOnlyAbortable, TypeInv, StateType
<1>2. Ends(t)' = Ends(t) /\ UNCHANGED <<log, durable, io_invalid>>
  BY FramesKept DEF Ends, wal
<1>3. HandleInv(t, r)'
  BY <1>1, <1>2 DEF Facts, HandleInv, WriteOps, Late
<1>4. /\ CommitSynced(t)' <=> CommitSynced(t)
      /\ AbortSynced(t)' <=> AbortSynced(t)
      /\ PrepareSynced(t)' <=> PrepareSynced(t)
  BY <1>2, FramesKept DEF CommitSynced, AbortSynced, PrepareSynced
<1>5. LogInv(t, r)'
  BY <1>1, <1>2, <1>4, FramesKept DEF Facts, LogInv
<1>6. OrderInv(t)'
  BY <1>2, FramesKept DEF Facts, OrderInv
<1>7. ToldInv(t)'
  BY <1>2, <1>4, FramesKept DEF Facts, ToldInv
<1>. QED
  BY <1>3, <1>5, <1>6, <1>7 DEF Facts

LEMMA WaitEndsFacts ==
    ASSUME OwnHandles, TypeInv, TypeInv', TxnInv, NEW c \in Callers, WaitEnds(c)
    PROVE  TxnInv'
<1>1. PICK r : r = call[c]
  OBVIOUS
<1>2. PICK t : t = r.txn
  OBVIOUS
<1>3. /\ r.pc = "wait" /\ r.op \in WriteOps /\ t \in Handles[c] /\ t \in Txns
  BY <1>1, <1>2, Busy DEF WaitEnds, WritePcs
<1>4. UNCHANGED <<state, prepared, last_lsn, told, wal>>
  BY DEF WaitEnds
<1>5. state[t] \in {"Open", "Prepared", "Committed", "Aborted"}
  BY <1>3 DEF TypeInv, StateType
<1>6. CASE ~ Conflict(t, r.want)
  <2>0. r \in CallRecord(Len(log)) /\ r.then \in {"recheck", "log"}
    <3>1. Shape(c, r) /\ r # Idle /\ r \in CallRecord(Len(log))
      BY <1>1, <1>3, IdleFields DEF TypeInv, CallType
    <3>. QED
      BY <1>3, <3>1 DEF Shape, EndPcs, CallRecord
  <2>1. UNCHANGED inner /\ Goto(c, r.then)
    BY <1>1, <1>2, <1>6 DEF WaitEnds
  <2> DEFINE new == [r EXCEPT !.pc = r.then]
  <2>2. call' = [call EXCEPT ![c] = new]
    BY <1>1, <2>1, GotoIs
  <2>3. new.op = r.op /\ new.txn = r.txn /\ new.pc \in {"recheck", "log"}
    BY <2>0 DEF CallRecord
  <2>. HIDE DEF new
  <2>4. Facts(t, r) => Facts(t, new)
    BY <1>3, <1>5, <2>3, WriteMoves DEF WritePcs
  <2>. QED
    BY <1>1, <1>2, <1>3, <1>4, <2>1, <2>2, <2>3, <2>4, QuietFacts
<1>7. CASE Conflict(t, r.want)
  <2>1. SetOnlyAbortable(t) /\ call' = [call EXCEPT ![c] = Idle]
    BY <1>1, <1>2, <1>7 DEF WaitEnds, Return
  <2>2. \A u \in Txns \ {t} : Kept(u)
    BY <1>4, <2>1, FramesKept DEF Kept, wal, TypeInv, LogType, StateType, SetOnlyAbortable
  <2>3. ASSUME Facts(t, r) PROVE Facts(t, Idle)'
    <3>1. Facts(t, Idle)
      BY <1>3, <1>5, <2>3, WriteMoves
    <3>2. state[t] # "Prepared"
      BY <1>3, <2>3 DEF Facts, HandleInv
    <3>. QED
      BY <1>3, <1>4, <2>1, <3>1, <3>2, IdleFields, OnlyAbortableKeeps
  <2>. QED
    BY <1>1, <1>2, <1>3, <2>1, <2>2, <2>3, OwnStep
<1>. QED
  BY <1>6, <1>7

LEMMA XaEndFailFacts ==
    ASSUME TypeInv, TypeInv', TxnInv, NEW t \in Txns, XaEndFail(t)
    PROVE  TxnInv'
<1>1. UNCHANGED <<state, prepared, last_lsn, wal, told, call>> /\ SetOnlyAbortable(t)
  BY DEF XaEndFail
<1>2. \A u \in Txns \ {t} : Kept(u)
  BY <1>1, FramesKept DEF Kept, wal, TypeInv, LogType, StateType, SetOnlyAbortable
<1>3. \A u, r : CallOf(u, r)' <=> CallOf(u, r)
  BY <1>1 DEF CallOf
<1>4. ASSUME NEW r, CallOf(t, r) PROVE Facts(t, r)'
  <2>1. Facts(t, r) /\ state[t] # "Prepared"
    BY <1>4 DEF TxnInv, XaEndFail
  <2>2. r.op \in WriteOps \cup {"Commit", "Abort", "none"}
    BY <1>4, IdleFields DEF CallOf, XaEndFail
  <2>. QED
    BY <1>1, <2>1, <2>2, OnlyAbortableKeeps
<1>5. ASSUME NEW u \in Txns \ {t}, NEW r, CallOf(u, r) PROVE Facts(u, r)'
  BY <1>2, <1>5, FactsKept DEF TxnInv
<1>. QED
  BY <1>3, <1>4, <1>5 DEF TxnInv

LEMMA LogFailsFacts ==
    ASSUME TypeInv, TypeInv', TxnInv, LogFails
    PROVE  TxnInv'
<1>1. UNCHANGED <<state, inner, prepared, last_lsn, log, durable, told, call>> /\ io_invalid'
  BY DEF LogFails, handle
<1>2. \A u \in Txns : Kept(u)
  BY <1>1, FramesKept DEF Kept, TypeInv, LogType
<1>3. \A u, r : CallOf(u, r)' <=> CallOf(u, r)
  BY <1>1 DEF CallOf
<1>. QED
  BY <1>2, <1>3, FactsKept DEF TxnInv

\* The frames of every transaction after an append.
LEMMA AppendOthers ==
    ASSUME TypeInv, NEW e \in Entry, log' = Append(log, e), NEW u \in Txns, u # e.txn,
           UNCHANGED <<state, inner, prepared, last_lsn, durable, io_invalid, told>>
    PROVE  Kept(u)
<1>1. \A type : Frames(u, type, Len(log))' = Frames(u, type, Len(log))
  BY FramesAppend
<1>. QED
  BY <1>1 DEF Kept, LNs, Commits, Aborts, Prepares, TypeInv, LogType

LEMMA LogLnFacts ==
    ASSUME OwnHandles, TypeInv, TypeInv', TxnInv, NEW c \in Callers, LogLn(c)
    PROVE  TxnInv'
<1>0. PICK n \in Nat : n = Len(log)
  BY DEF TypeInv, LogType
<1>1. PICK r \in CallRecord(n) : r = call[c]
  BY <1>0 DEF TypeInv, CallType
<1>2. PICK t : t = r.txn
  OBVIOUS
<1>3. /\ r.pc = "log" /\ r.op \in WriteOps /\ t \in Handles[c] /\ t \in Txns
  BY <1>1, <1>2, Busy DEF LogLn, WritePcs
<1>4. state[t] \in {"Open", "Prepared", "Committed", "Aborted"}
  BY <1>3 DEF TypeInv, StateType
<1>5. CASE io_invalid
  <2>1. Return(c) /\ UNCHANGED <<state, inner, prepared, last_lsn, told, wal>>
    BY <1>5 DEF LogLn, wal, handle
  <2>2. Facts(t, r) => Facts(t, Idle)
    BY <1>3, <1>4, WriteMoves
  <2>. QED
    BY <1>1, <1>2, <1>3, <2>1, <2>2, QuietFacts DEF Return
<1>6. CASE ~ io_invalid
  <2>1. UNCHANGED <<state, inner, prepared, last_lsn, durable, io_invalid, told>>
    BY DEF LogLn, handle
  <2>2. PICK e : log' = Append(log, e) /\ e.type = "LN" /\ e.txn = t
    BY <1>1, <1>2, <1>6 DEF LogLn, LN
  <2>3. e \in Entry
    <3>1. log' \in Seq(Entry) /\ Len(log') = n + 1 /\ log'[n + 1] = e
      BY <1>0, <2>2 DEF TypeInv, LogType
    <3>. QED
      BY <3>1
  <2> DEFINE new == [r EXCEPT !.new = n + 1, !.pc = "finalize"]
  <2>4. call' = [call EXCEPT ![c] = new]
    BY <1>0, <1>1, <1>6 DEF LogLn, TypeInv, CallType
  <2>5. new.op = r.op /\ new.txn = r.txn /\ new.pc = "finalize"
    BY DEF CallRecord
  <2>. HIDE DEF new
  <2>6. \A u \in Txns \ {t} : Kept(u)
    BY <2>1, <2>2, <2>3, AppendOthers
  <2>7. /\ Commits(t)' = Commits(t) /\ Aborts(t)' = Aborts(t) /\ Prepares(t)' = Prepares(t)
        /\ LNs(t)' = LNs(t) \cup {n + 1}
    <3>1. \A type : Frames(t, type, Len(log))' =
               IF e.type = type /\ e.txn = t THEN Frames(t, type, Len(log)) \cup {Len(log) + 1}
               ELSE Frames(t, type, Len(log))
      BY <2>2, <2>3, FramesAppend
    <3>. QED
      BY <1>0, <2>2, <3>1 DEF LNs, Commits, Aborts, Prepares
  <2>8. ASSUME Facts(t, r) PROVE Facts(t, new)'
    <3>1. state[t] = "Open"
      BY <1>3, <1>6, <2>8 DEF Facts, HandleInv
    <3>2. Ends(t) = {} /\ Ends(t)' = {}
      BY <1>3, <1>6, <2>7, <2>8, <3>1 DEF Facts, LogInv, Ends, WriteOps, EndOps
    <3>3. HandleInv(t, new)'
      BY <1>3, <2>1, <2>5, <2>8, <3>1 DEF Facts, HandleInv, Late, WriteOps, EndOps
    <3>4. OrderInv(t)'
      BY <3>2 DEF OrderInv
    <3>5. LogInv(t, new)'
      BY <1>3, <2>1, <2>5, <2>7, <2>8, <3>2 DEF Facts, LogInv, Ends, WriteOps, EndOps
    <3>6. ToldInv(t)'
      <4>1. PrepareSynced(t) => PrepareSynced(t)'
        BY <2>1, <2>7 DEF PrepareSynced
      <4>. QED
        BY <2>1, <2>7, <2>8, <3>1, <4>1 DEF Facts, ToldInv
    <3>. QED
      BY <3>3, <3>4, <3>5, <3>6 DEF Facts
  <2>. QED
    BY <1>1, <1>2, <1>3, <2>4, <2>5, <2>6, <2>8, OwnStep
<1>. QED
  BY <1>5, <1>6

LEMMA FinalizeFacts ==
    ASSUME OwnHandles, TypeInv, TypeInv', TxnInv, NEW c \in Callers, FinalizeWriteLock(c)
    PROVE  TxnInv'
<1>1. PICK r \in CallRecord(Len(log)) : r = call[c]
  BY DEF TypeInv, CallType
<1>2. PICK t : t = r.txn
  OBVIOUS
<1>3. /\ r.pc = "finalize" /\ r.op \in WriteOps /\ t \in Handles[c] /\ t \in Txns
  BY <1>1, <1>2, Busy DEF FinalizeWriteLock, WritePcs
<1>4. state[t] \in {"Open", "Prepared", "Committed", "Aborted"}
  BY <1>3 DEF TypeInv, StateType
<1>5. UNCHANGED <<state, inner, prepared, told, wal>>
  BY DEF FinalizeWriteLock
<1>6. CASE r.old = 0 /\ ~CheckState(t)
  <2>1. Return(c) /\ UNCHANGED last_lsn
    BY <1>1, <1>2, <1>6 DEF FinalizeWriteLock
  <2>2. Facts(t, r) => Facts(t, Idle)
    BY <1>3, <1>4, <1>6, WriteMoves DEF CheckState
  <2>. QED
    BY <1>1, <1>2, <1>3, <1>5, <2>1, <2>2, QuietFacts DEF Return
<1>7. CASE ~ (r.old = 0 /\ ~CheckState(t))
  <2>1. last_lsn' = [last_lsn EXCEPT ![t] = r.new] /\ Goto(c, "apply")
    BY <1>1, <1>2, <1>7 DEF FinalizeWriteLock
  <2>2. r.new # 0
    <3>1. Shape(c, r) /\ r # Idle
      BY <1>1, <1>3, IdleFields DEF TypeInv, CallType
    <3>. QED
      BY <1>3, <3>1 DEF Shape, EndPcs
  <2>3. last_lsn'[t] # 0 /\ \A u \in Txns \ {t} : last_lsn'[u] = last_lsn[u]
    BY <1>3, <2>1, <2>2 DEF TypeInv, LockType
  <2> DEFINE new == [r EXCEPT !.pc = "apply"]
  <2>4. call' = [call EXCEPT ![c] = new]
    BY <1>1, <2>1, GotoIs
  <2>5. new.op = r.op /\ new.txn = r.txn /\ new.pc = "apply"
    BY DEF CallRecord
  <2>. HIDE DEF new
  <2>6. \A u \in Txns \ {t} : Kept(u)
    BY <1>5, <2>3, FramesKept DEF Kept, wal, TypeInv, LogType
  <2>7. ASSUME Facts(t, r) PROVE Facts(t, new)'
    <3>0. /\ Ends(t)' = Ends(t) /\ UNCHANGED <<log, durable, io_invalid>>
          /\ LNs(t)' = LNs(t) /\ Commits(t)' = Commits(t) /\ Aborts(t)' = Aborts(t)
          /\ Prepares(t)' = Prepares(t)
      BY <1>5, FramesKept DEF Ends, wal
    <3>1. /\ CommitSynced(t)' <=> CommitSynced(t)
          /\ AbortSynced(t)' <=> AbortSynced(t)
          /\ PrepareSynced(t)' <=> PrepareSynced(t)
      BY <3>0 DEF CommitSynced, AbortSynced, PrepareSynced
    <3>2. HandleInv(t, new)'
      BY <1>3, <1>5, <2>5, <2>7, <3>0 DEF Facts, HandleInv, Late, WriteOps, EndOps
    <3>3. OrderInv(t)'
      BY <2>7, <3>0 DEF Facts, OrderInv
    <3>4. LogInv(t, new)'
      BY <1>3, <1>5, <2>3, <2>5, <2>7, <3>0 DEF Facts, LogInv, WriteOps, EndOps
    <3>5. ToldInv(t)'
      BY <1>5, <2>7, <3>0, <3>1 DEF Facts, ToldInv
    <3>. QED
      BY <3>2, <3>3, <3>4, <3>5 DEF Facts
  <2>. QED
    BY <1>1, <1>2, <1>3, <2>4, <2>5, <2>6, <2>7, OwnStep
<1>. QED
  BY <1>6, <1>7

\* The log stands still.
LEMMA StillLog ==
    ASSUME NEW t, UNCHANGED wal
    PROVE  /\ LNs(t)' = LNs(t) /\ Commits(t)' = Commits(t) /\ Aborts(t)' = Aborts(t)
           /\ Prepares(t)' = Prepares(t) /\ Ends(t)' = Ends(t)
           /\ UNCHANGED <<log, durable, io_invalid>>
           /\ CommitSynced(t)' <=> CommitSynced(t)
           /\ AbortSynced(t)' <=> AbortSynced(t)
           /\ PrepareSynced(t)' <=> PrepareSynced(t)
<1>1. UNCHANGED <<log, durable, io_invalid>>
  BY DEF wal
<1>. QED
  BY <1>1, FramesKept DEF Ends, CommitSynced, AbortSynced, PrepareSynced

LEMMA StartEndFacts ==
    ASSUME OwnHandles, TypeInv, TypeInv', TxnInv, NEW c \in Callers,
           StartCommit(c) \/ StartPrepare(c) \/ StartResolve(c)
    PROVE  TxnInv'
<1>1. call[c] = Idle
  BY IdleCall DEF StartCommit, StartPrepare, StartResolve
<1>2. UNCHANGED <<state, inner, prepared, last_lsn, told, wal>>
  BY DEF StartCommit, StartPrepare, StartResolve, handle
<1>3. ASSUME NEW t \in Handles[c], NEW new, call' = [call EXCEPT ![c] = new], new.txn = t,
             \/ new.pc = "frame"
             \/ new.pc = "inner" /\ last_lsn[t] = 0 /\ new.op \in {"Commit", "Prepare"},
             new.op = "Prepare" => last_lsn[t] # 0 \/ new.pc = "inner",
             new.op \in {"Prepare", "ResolveCommit", "ResolveAbort"} => new.sync,
             \/ /\ new.op \in {"Commit", "Prepare"} /\ state[t] = "Open"
                /\ inner[t] # "MustAbort"
             \/ new.op \in {"ResolveCommit", "ResolveAbort"} /\ state[t] = "Prepared"
      PROVE  TxnInv'
  <2>1. ASSUME Facts(t, Idle) PROVE Facts(t, new)
    <3>1. HandleInv(t, new)
      BY <1>3, <2>1, IdleFields DEF Facts, HandleInv, Late, WriteOps, EndOps
    <3>2. LogInv(t, new)
      <4>1. new.pc = "inner" => LNs(t) = {}
        BY <1>3, <2>1, IdleFields DEF Facts, HandleInv, LogInv, Late, EndOps
      <4>. QED
        BY <1>3, <2>1, <4>1, IdleFields DEF Facts, LogInv, EndOps
    <3>. QED
      BY <2>1, <3>1, <3>2 DEF Facts
  <2>. QED
    BY <1>1, <1>2, <1>3, <2>1, QuietFacts
<1>4. CASE StartCommit(c)
  <2>1. PICK t \in Handles[c], policy \in Policies :
          /\ CheckOpen(t)
          /\ call' = [call EXCEPT ![c] =
                [Call("Commit", t, IF HasLoggedData(t) THEN "frame" ELSE "inner")
                    EXCEPT !.sync = policy = "Sync"]]
    BY <1>4 DEF StartCommit
  <2> DEFINE new == [Call("Commit", t, IF HasLoggedData(t) THEN "frame" ELSE "inner")
                        EXCEPT !.sync = policy = "Sync"]
  <2>2. /\ new.op = "Commit" /\ new.txn = t
        /\ new.pc = "frame" \/ (new.pc = "inner" /\ last_lsn[t] = 0)
    BY DEF HasLoggedData, Call
  <2>3. state[t] = "Open" /\ inner[t] # "MustAbort"
    BY <2>1 DEF CheckOpen
  <2>4. call' = [call EXCEPT ![c] = new]
    BY <2>1
  <2>. HIDE DEF new
  <2>. QED
    BY <1>3, <2>2, <2>3, <2>4
<1>5. CASE StartPrepare(c)
  <2>1. PICK t \in Handles[c] :
          /\ CheckOpen(t)
          /\ call' = [call EXCEPT ![c] =
                [Call("Prepare", t, IF HasLoggedData(t) THEN "frame" ELSE "inner")
                    EXCEPT !.sync = TRUE]]
    BY <1>5 DEF StartPrepare
  <2> DEFINE new == [Call("Prepare", t, IF HasLoggedData(t) THEN "frame" ELSE "inner")
                        EXCEPT !.sync = TRUE]
  <2>2. /\ new.op = "Prepare" /\ new.txn = t /\ new.sync
        /\ (new.pc = "frame" /\ last_lsn[t] # 0) \/ (new.pc = "inner" /\ last_lsn[t] = 0)
    BY DEF HasLoggedData, Call
  <2>3. state[t] = "Open" /\ inner[t] # "MustAbort"
    BY <2>1 DEF CheckOpen
  <2>4. call' = [call EXCEPT ![c] = new]
    BY <2>1
  <2>. HIDE DEF new
  <2>. QED
    BY <1>3, <2>2, <2>3, <2>4
<1>6. CASE StartResolve(c)
  <2>1. PICK t \in Handles[c], op \in {"ResolveCommit", "ResolveAbort"} :
          /\ state[t] = "Prepared"
          /\ call' = [call EXCEPT ![c] = [Call(op, t, "frame") EXCEPT !.sync = TRUE]]
    BY <1>6 DEF StartResolve
  <2> DEFINE new == [Call(op, t, "frame") EXCEPT !.sync = TRUE]
  <2>2. new.op = op /\ new.txn = t /\ new.sync /\ new.pc = "frame"
    BY DEF Call
  <2>4. call' = [call EXCEPT ![c] = new]
    BY <2>1
  <2>. HIDE DEF new
  <2>. QED
    BY <1>3, <2>1, <2>2, <2>4
<1>. QED
  BY <1>4, <1>5, <1>6

LEMMA StartAbortFacts ==
    ASSUME OwnHandles, TypeInv, TypeInv', TxnInv, NEW c \in Callers, StartAbort(c)
    PROVE  TxnInv'
<1>1. call[c] = Idle
  BY IdleCall DEF StartAbort
<1>2. PICK t \in Handles[c] : state[t] = "Open" /\
          IF ~CheckEnv
          THEN /\ state' = [state EXCEPT ![t] = "Aborted"]
               /\ UNCHANGED call
          ELSE /\ call' = [call EXCEPT ![c] =
                     Call("Abort", t, IF HasLoggedData(t) THEN "frame" ELSE "collect")]
               /\ UNCHANGED state
  BY DEF StartAbort
<1>3. t \in Txns
  BY HandleTxns
<1>4. UNCHANGED <<inner, prepared, last_lsn, wal, told>>
  BY DEF StartAbort
<1>5. CASE ~CheckEnv
  <2>1. io_invalid /\ state'[t] = "Aborted" /\ \A u \in Txns \ {t} : state'[u] = state[u]
    BY <1>2, <1>3, <1>5 DEF CheckEnv, TypeInv, StateType
  <2>2. \A u \in Txns \ {t} : Kept(u)
    BY <1>4, <2>1, FramesKept DEF Kept, wal, TypeInv, LogType
  <2>3. call' = [call EXCEPT ![c] = Idle]
    BY <1>1, <1>2, <1>5 DEF TypeInv, CallType
  <2>4. ASSUME Facts(t, Idle) PROVE Facts(t, Idle)'
    <3>1. HandleInv(t, Idle)'
      BY <1>4, <2>1, StillLog, IdleFields DEF HandleInv, Late, WriteOps, EndOps
    <3>2. OrderInv(t)'
      BY <1>4, <2>4, StillLog DEF Facts, OrderInv
    <3>3. LogInv(t, Idle)'
      BY <1>4, <2>1, <2>4, StillLog, IdleFields DEF Facts, LogInv
    <3>4. ToldInv(t)'
      BY <1>2, <1>4, <2>1, <2>4, StillLog DEF Facts, ToldInv
    <3>. QED
      BY <3>1, <3>2, <3>3, <3>4 DEF Facts
  <2>. QED
    BY <1>1, <2>2, <2>3, <2>4, OwnStep
<1>6. CASE CheckEnv
  <2>1. PICK pc \in {"frame", "collect"} : pc = IF HasLoggedData(t) THEN "frame" ELSE "collect"
    OBVIOUS
  <2> DEFINE new == Call("Abort", t, pc)
  <2>2. call' = [call EXCEPT ![c] = new] /\ UNCHANGED state
    BY <1>2, <1>6, <2>1
  <2>3. new.op = "Abort" /\ new.pc = pc /\ new.txn = t
    BY DEF Call
  <2>. HIDE DEF new
  <2>4. ASSUME Facts(t, Idle) PROVE Facts(t, new)
    <3>1. HandleInv(t, new)
      BY <1>2, <2>3, <2>4, IdleFields DEF Facts, HandleInv, Late, WriteOps, EndOps
    <3>2. LogInv(t, new)
      BY <1>2, <1>6, <2>3, <2>4, IdleFields DEF Facts, LogInv, EndOps, Ends, CheckEnv
    <3>. QED
      BY <2>4, <3>1, <3>2 DEF Facts
  <2>. QED
    BY <1>1, <1>4, <2>2, <2>3, <2>4, QuietFacts
<1>. QED
  BY <1>5, <1>6

LEMMA WriteFrameFacts ==
    ASSUME OwnHandles, TypeInv, TypeInv', TxnInv, NEW c \in Callers, WriteFrame(c)
    PROVE  TxnInv'
<1>0. PICK n \in Nat : n = Len(log)
  BY DEF TypeInv, LogType
<1>1. PICK r \in CallRecord(n) : r = call[c]
  BY <1>0 DEF TypeInv, CallType
<1>2. PICK t : t = r.txn
  OBVIOUS
<1>3. /\ r.pc = "frame" /\ r.op \in EndOps \cup {"Prepare"} /\ t \in Handles[c] /\ t \in Txns
  BY <1>1, <1>2, Busy DEF WriteFrame, EndPcs
<1>5. CASE io_invalid
  <2>1. Return(c) /\ UNCHANGED <<state, inner, prepared, last_lsn, told, wal>>
    BY <1>5 DEF WriteFrame, wal, handle
  <2>2. Facts(t, r) => Facts(t, Idle)
    BY <1>3, <1>5, FailedEnds DEF Late
  <2>. QED
    BY <1>1, <1>2, <1>3, <2>1, <2>2, QuietFacts DEF Return
<1>6. CASE ~ io_invalid
  <2>1. UNCHANGED <<state, inner, prepared, last_lsn, durable, io_invalid, told>>
    BY DEF WriteFrame, handle
  <2>2. PICK e : log' = Append(log, e) /\ e.type = FrameType(r.op) /\ e.txn = t
    BY <1>1, <1>2, <1>6 DEF WriteFrame
  <2>3. e \in Entry
    <3>1. log' \in Seq(Entry) /\ Len(log') = n + 1 /\ log'[n + 1] = e
      BY <1>0, <2>2 DEF TypeInv, LogType
    <3>. QED
      BY <3>1
  <2>0. PICK pc : pc = IF r.sync THEN "sync" ELSE AfterFrame(r.op)
    OBVIOUS
  <2> DEFINE new == [r EXCEPT !.pc = pc]
  <2>4. call' = [call EXCEPT ![c] = new]
    BY <1>1, <1>6, <2>0, GotoIs DEF WriteFrame
  <2>5. new.op = r.op /\ new.txn = r.txn /\ new.pc = pc /\ new.sync = r.sync
    BY DEF CallRecord
  <2>. HIDE DEF new
  <2>6. \A u \in Txns \ {t} : Kept(u)
    BY <2>1, <2>2, <2>3, AppendOthers
  <2>7. /\ LNs(t)' = LNs(t)
        /\ Commits(t)' = IF r.op \in {"Commit", "ResolveCommit"} THEN Commits(t) \cup {n + 1}
                         ELSE Commits(t)
        /\ Aborts(t)' = IF r.op \in {"Abort", "ResolveAbort"} THEN Aborts(t) \cup {n + 1}
                        ELSE Aborts(t)
        /\ Prepares(t)' = IF r.op = "Prepare" THEN Prepares(t) \cup {n + 1} ELSE Prepares(t)
    <3>1. \A type : Frames(t, type, Len(log))' =
               IF e.type = type /\ e.txn = t THEN Frames(t, type, Len(log)) \cup {Len(log) + 1}
               ELSE Frames(t, type, Len(log))
      BY <2>2, <2>3, FramesAppend
    <3>2. /\ e.type = "TxnCommit" <=> r.op \in {"Commit", "ResolveCommit"}
          /\ e.type = "TxnAbort" <=> r.op \in {"Abort", "ResolveAbort"}
          /\ e.type = "TxnPrepare" <=> r.op = "Prepare"
          /\ e.type # "LN"
      BY <1>3, <2>2 DEF FrameType, EndOps
    <3>. QED
      BY <1>0, <2>2, <3>1, <3>2 DEF LNs, Commits, Aborts, Prepares
  <2>8. pc = IF r.sync THEN "sync" ELSE IF r.op \in {"Abort", "ResolveAbort"} THEN "collect" ELSE "inner"
    BY <1>3, <2>0 DEF AfterFrame, FrameType, EndOps
  <2>9. ASSUME Facts(t, r) PROVE Facts(t, new)'
    <3>1. state[t] \in {"Open", "Prepared"}
      BY <1>3, <2>9 DEF Facts, HandleInv, EndOps
    <3>2. Ends(t) = {} /\ Commits(t) = {} /\ Aborts(t) = {}
      BY <1>3, <1>6, <2>9, <3>1 DEF Facts, LogInv, Ends, EndOps
    <3>3. Ends(t)' \in {{}, {n + 1}} /\ (Ends(t)' # {} => r.op \in EndOps /\ Prepares(t)' = Prepares(t))
      BY <1>3, <2>7, <3>2 DEF Ends, EndOps
    <3>4. HandleInv(t, new)'
      BY <1>3, <2>1, <2>5, <2>8, <2>9 DEF Facts, HandleInv, Late, WriteOps, EndOps
    <3>5. OrderInv(t)'
      BY <1>0, <2>7, <3>3, FrameIndex DEF OrderInv
    <3>6. LogInv(t, new)'
      <4>1. /\ LNs(t)' # {} /\ last_lsn'[t] = 0 => inner'[t] # "Open"
            /\ r.op \in {"Abort", "ResolveAbort"} => Commits(t)' = {}
            /\ Prepares(t)' # {} => last_lsn'[t] # 0
        BY <1>3, <2>1, <2>7, <2>9, <3>2 DEF Facts, LogInv, EndOps
      <4>2. r.op \in {"Prepare", "ResolveCommit", "ResolveAbort"} => r.sync
        BY <2>9 DEF Facts, LogInv
      <4>3. /\ r.op \in {"Commit", "ResolveCommit"} => Commits(t)' # {}
            /\ r.op = "ResolveAbort" => Aborts(t)' # {}
            /\ r.op = "Prepare" => Prepares(t)' # {}
        BY <2>7
      <4>4. new.pc \in {"sync", "collect", "inner"} /\ (new.sync => new.pc = "sync")
        BY <2>5, <2>8
      <4>. QED
        BY <1>3, <2>5, <3>3, <4>1, <4>2, <4>3, <4>4 DEF LogInv, EndOps
    <3>7. ToldInv(t)'
      <4>1. /\ PrepareSynced(t) => PrepareSynced(t)'
            /\ "Committed" \notin told[t] /\ "Aborted" \notin told[t]
        BY <2>1, <2>7, <2>9, <3>1 DEF PrepareSynced, Facts, ToldInv
      <4>2. "Prepared" \in told[t] => r.op # "Prepare"
        BY <2>9 DEF Facts, ToldInv, HandleInv
      <4>. QED
        BY <2>1, <2>7, <2>9, <4>1, <4>2 DEF Facts, ToldInv
    <3>. QED
      BY <3>4, <3>5, <3>6, <3>7 DEF Facts
  <2>. QED
    BY <1>1, <1>2, <1>3, <2>4, <2>5, <2>6, <2>9, OwnStep
<1>. QED
  BY <1>5, <1>6

LEMMA SyncFrameFacts ==
    ASSUME OwnHandles, TypeInv, TypeInv', TxnInv, NEW c \in Callers, SyncFrame(c)
    PROVE  TxnInv'
<1>0. PICK n \in Nat : n = Len(log)
  BY DEF TypeInv, LogType
<1>1. PICK r \in CallRecord(n) : r = call[c]
  BY <1>0 DEF TypeInv, CallType
<1>2. PICK t : t = r.txn
  OBVIOUS
<1>3. /\ r.pc = "sync" /\ r.op \in EndOps \cup {"Prepare"} /\ t \in Handles[c] /\ t \in Txns
  BY <1>1, <1>2, Busy DEF SyncFrame, EndPcs
<1>5. CASE io_invalid
  <2>1. Return(c) /\ UNCHANGED <<state, inner, prepared, last_lsn, told, wal>>
    BY <1>5 DEF SyncFrame, wal, handle
  <2>2. Facts(t, r) => Facts(t, Idle)
    BY <1>3, <1>5, FailedEnds DEF Late
  <2>. QED
    BY <1>1, <1>2, <1>3, <2>1, <2>2, QuietFacts DEF Return
<1>6. CASE ~ io_invalid
  <2>1. UNCHANGED <<state, inner, prepared, last_lsn, log, io_invalid, told>> /\ durable' = n
    BY <1>0, <1>6 DEF SyncFrame, handle
  <2>2. PICK pc : pc = AfterFrame(r.op)
    OBVIOUS
  <2>3. pc = IF r.op \in {"Abort", "ResolveAbort"} THEN "collect" ELSE "inner"
    BY <1>3, <2>2 DEF AfterFrame, FrameType, EndOps
  <2> DEFINE new == [r EXCEPT !.pc = pc]
  <2>4. call' = [call EXCEPT ![c] = new]
    BY <1>1, <1>6, <2>2, GotoIs DEF SyncFrame
  <2>5. new.op = r.op /\ new.txn = r.txn /\ new.pc = pc /\ new.sync = r.sync
    BY DEF CallRecord
  <2>. HIDE DEF new
  <2>6. durable <= durable'
    BY <1>0, <2>1 DEF TypeInv, LogType
  <2>7. \A u \in Txns : Kept(u)
    BY <2>1, <2>6, FramesKept DEF Kept
  <2>8. ASSUME Facts(t, r) PROVE Facts(t, new)'
    <3>1. Facts(t, r)'
      BY <1>3, <2>7, <2>8, FactsKept
    <3>2. /\ Commits(t)' # {} => CommitSynced(t)'
          /\ Aborts(t)' # {} => AbortSynced(t)'
          /\ Prepares(t)' # {} => PrepareSynced(t)'
      <4>1. \A i \in Ends(t) \cup Prepares(t) : i <= n
        BY <1>0, FrameIndex
      <4>2. Commits(t)' = Commits(t) /\ Aborts(t)' = Aborts(t) /\ Prepares(t)' = Prepares(t)
        BY <2>1, FramesKept
      <4>. QED
        BY <2>1, <4>1, <4>2 DEF CommitSynced, AbortSynced, PrepareSynced, Ends
    <3>3. HandleInv(t, new)'
      <4>1. HandleInv(t, r)'
        BY <3>1 DEF Facts
      <4>. QED
        BY <1>3, <2>3, <2>5, <4>1 DEF HandleInv, Late, WriteOps, EndOps
    <3>4. LogInv(t, new)'
      <4>1. LogInv(t, r)'
        BY <3>1 DEF Facts
      <4>. QED
        BY <1>3, <2>3, <2>5, <3>2, <4>1 DEF LogInv, EndOps
    <3>. QED
      BY <3>1, <3>3, <3>4 DEF Facts
  <2>. QED
    BY <1>1, <1>2, <1>3, <2>4, <2>5, <2>7, <2>8, OwnStep
<1>. QED
  BY <1>5, <1>6

LEMMA CommitInnerFacts ==
    ASSUME OwnHandles, TypeInv, TypeInv', TxnInv, NEW c \in Callers, CommitInner(c)
    PROVE  TxnInv'
<1>1. PICK r \in CallRecord(Len(log)) : r = call[c]
  BY DEF TypeInv, CallType
<1>2. PICK t : t = r.txn
  OBVIOUS
<1>3. r.pc = "inner" /\ r.op = "Commit" /\ t \in Handles[c] /\ t \in Txns
  BY <1>1, <1>2, Busy DEF CommitInner
<1>4. UNCHANGED <<state, prepared, last_lsn, told, wal>>
  BY DEF CommitInner
<1>5. PICK err \in BOOLEAN : err = (prepared[t] \/ ~CheckState(t))
  OBVIOUS
<1> DEFINE new == [r EXCEPT !.err = err, !.pc = "end"]
<1>6. call' = [call EXCEPT ![c] = new]
  BY <1>1, <1>2, <1>5 DEF CommitInner, TypeInv, CallType
<1>7. new.op = "Commit" /\ new.pc = "end" /\ new.txn = t /\ new.sync = r.sync
  BY <1>2, <1>3 DEF CallRecord
<1>. HIDE DEF new
<1>8. /\ \A u \in Txns \ {t} : inner'[u] = inner[u]
      /\ ~ prepared[t] => inner'[t] # "Open"
  BY <1>1, <1>2, <1>3 DEF CommitInner, TypeInv, StateType
<1>9. \A u \in Txns \ {t} : Kept(u)
  BY <1>4, <1>8, FramesKept DEF Kept, wal, TypeInv, LogType
<1>10. ASSUME Facts(t, r) PROVE Facts(t, new)'
  <2>1. state[t] = "Open" /\ ~ prepared[t] /\ inner'[t] # "Open"
    BY <1>3, <1>8, <1>10 DEF Facts, HandleInv
  <2>2. HandleInv(t, new)'
    BY <1>4, <1>7, <2>1 DEF HandleInv, Late, WriteOps, EndOps
  <2>3. OrderInv(t)'
    BY <1>4, <1>10, StillLog DEF Facts, OrderInv
  <2>4. LogInv(t, new)'
    BY <1>3, <1>4, <1>7, <1>10, <2>1, StillLog DEF Facts, LogInv, EndOps
  <2>5. ToldInv(t)'
    BY <1>4, <1>10, StillLog DEF Facts, ToldInv
  <2>. QED
    BY <2>2, <2>3, <2>4, <2>5 DEF Facts
<1>. QED
  BY <1>1, <1>2, <1>3, <1>6, <1>7, <1>9, <1>10, OwnStep

LEMMA ResolveCommitInnerFacts ==
    ASSUME OwnHandles, TypeInv, TypeInv', TxnInv, NEW c \in Callers, ResolveCommitInner(c)
    PROVE  TxnInv'
<1>1. PICK r \in CallRecord(Len(log)) : r = call[c]
  BY DEF TypeInv, CallType
<1>2. PICK t : t = r.txn
  OBVIOUS
<1>3. r.pc = "inner" /\ r.op = "ResolveCommit" /\ t \in Handles[c] /\ t \in Txns
  BY <1>1, <1>2, Busy DEF ResolveCommitInner
<1>4. UNCHANGED <<state, last_lsn, told, wal>>
  BY DEF ResolveCommitInner
<1>5. Facts(t, r)
  BY <1>1, <1>2, <1>3, Mine DEF TxnInv
<1>6. state[t] = "Prepared" /\ prepared[t] /\ inner[t] = "Open"
  BY <1>3, <1>5 DEF Facts, HandleInv, Late
<1>7. /\ prepared' = [prepared EXCEPT ![t] = FALSE]
      /\ inner' = [inner EXCEPT ![t] = IF @ = "Open" THEN "Committed" ELSE @]
      /\ Goto(c, "end")
  BY <1>1, <1>2, <1>6 DEF ResolveCommitInner, CheckState
<1> DEFINE new == [r EXCEPT !.pc = "end"]
<1>8. call' = [call EXCEPT ![c] = new]
  BY <1>1, <1>7, GotoIs
<1>9. new.op = "ResolveCommit" /\ new.pc = "end" /\ new.txn = t /\ new.sync = r.sync
  BY <1>2, <1>3 DEF CallRecord
<1>. HIDE DEF new
<1>10. /\ \A u \in Txns \ {t} : inner'[u] = inner[u] /\ prepared'[u] = prepared[u]
       /\ inner'[t] = "Committed"
  BY <1>3, <1>6, <1>7 DEF TypeInv, StateType
<1>11. \A u \in Txns \ {t} : Kept(u)
  BY <1>4, <1>10, FramesKept DEF Kept, wal, TypeInv, LogType
<1>12. Facts(t, new)'
  <2>2. HandleInv(t, new)'
    BY <1>4, <1>6, <1>9, <1>10 DEF HandleInv, Late, WriteOps, EndOps
  <2>3. OrderInv(t)'
    BY <1>4, <1>5, StillLog DEF Facts, OrderInv
  <2>4. LogInv(t, new)'
    BY <1>3, <1>4, <1>5, <1>9, <1>10, StillLog DEF Facts, LogInv, EndOps
  <2>5. ToldInv(t)'
    BY <1>4, <1>5, StillLog DEF Facts, ToldInv
  <2>. QED
    BY <2>2, <2>3, <2>4, <2>5 DEF Facts
<1>. QED
  BY <1>1, <1>2, <1>3, <1>8, <1>9, <1>11, <1>12, OwnStep

LEMMA PrepareInnerFacts ==
    ASSUME OwnHandles, TypeInv, TypeInv', TxnInv, NEW c \in Callers, PrepareInner(c)
    PROVE  TxnInv'
<1>1. PICK r \in CallRecord(Len(log)) : r = call[c]
  BY DEF TypeInv, CallType
<1>2. PICK t : t = r.txn
  OBVIOUS
<1>3. r.pc = "inner" /\ r.op = "Prepare" /\ t \in Handles[c] /\ t \in Txns
  BY <1>1, <1>2, Busy DEF PrepareInner
<1>4. UNCHANGED <<state, inner, last_lsn, told, wal>>
  BY DEF PrepareInner
<1>5. Facts(t, r)
  BY <1>1, <1>2, <1>3, Mine DEF TxnInv
<1>6. CASE prepared[t] \/ ~CheckState(t)
  <2>1. Return(c) /\ UNCHANGED prepared
    BY <1>1, <1>2, <1>6 DEF PrepareInner
  <2>2. Facts(t, Idle)
    <3>1. HandleInv(t, Idle)
      BY <1>3, <1>5, IdleFields DEF Facts, HandleInv, Late, WriteOps, EndOps
    <3>2. LogInv(t, Idle)
      BY <1>3, <1>5, IdleFields DEF Facts, LogInv, EndOps
    <3>. QED
      BY <1>5, <3>1, <3>2 DEF Facts
  <2>. QED
    BY <1>1, <1>2, <1>3, <1>4, <2>1, <2>2, QuietFacts DEF Return
<1>7. CASE ~ (prepared[t] \/ ~CheckState(t))
  <2>1. prepared' = [prepared EXCEPT ![t] = TRUE] /\ Goto(c, "end")
    BY <1>1, <1>2, <1>7 DEF PrepareInner
  <2> DEFINE new == [r EXCEPT !.pc = "end"]
  <2>2. call' = [call EXCEPT ![c] = new]
    BY <1>1, <2>1, GotoIs
  <2>3. new.op = "Prepare" /\ new.pc = "end" /\ new.txn = t /\ new.sync = r.sync
    BY <1>2, <1>3 DEF CallRecord
  <2>. HIDE DEF new
  <2>4. prepared'[t] /\ \A u \in Txns \ {t} : prepared'[u] = prepared[u]
    BY <1>3, <2>1 DEF TypeInv, StateType
  <2>5. \A u \in Txns \ {t} : Kept(u)
    BY <1>4, <2>4, FramesKept DEF Kept, wal, TypeInv, LogType
  <2>6. state[t] = "Open" /\ inner[t] = "Open"
    BY <1>3, <1>5, <1>7 DEF Facts, HandleInv, CheckState
  <2>7. Facts(t, new)'
    <3>2. HandleInv(t, new)'
      BY <1>4, <2>3, <2>4, <2>6 DEF HandleInv, Late, WriteOps, EndOps
    <3>3. OrderInv(t)'
      BY <1>4, <1>5, StillLog DEF Facts, OrderInv
    <3>4. LogInv(t, new)'
      BY <1>3, <1>4, <1>5, <2>3, StillLog DEF Facts, LogInv, EndOps
    <3>5. ToldInv(t)'
      BY <1>4, <1>5, StillLog DEF Facts, ToldInv
    <3>. QED
      BY <3>2, <3>3, <3>4, <3>5 DEF Facts
  <2>. QED
    BY <1>1, <1>2, <1>3, <2>2, <2>3, <2>5, <2>7, OwnStep
<1>. QED
  BY <1>6, <1>7

LEMMA CollectFacts ==
    ASSUME OwnHandles, TypeInv, TypeInv', TxnInv, NEW c \in Callers, CollectUndo(c)
    PROVE  TxnInv'
<1>1. PICK r \in CallRecord(Len(log)) : r = call[c]
  BY DEF TypeInv, CallType
<1>2. PICK t : t = r.txn
  OBVIOUS
<1>3. r.pc = "collect" /\ r.op \in {"Abort", "ResolveAbort"} /\ t \in Handles[c] /\ t \in Txns
  <2>1. r.pc = "collect" /\ t \in Handles[c] /\ t \in Txns /\ Shape(c, r) /\ r # Idle
    BY <1>1, <1>2, Busy, IdleFields DEF CollectUndo
  <2>. QED
    BY <2>1 DEF Shape, WritePcs
<1>4. UNCHANGED <<state, last_lsn, told, wal>>
  BY DEF CollectUndo
<1>5. /\ prepared' = [prepared EXCEPT ![t] = prepared[t] /\ r.op = "Abort"]
      /\ inner' = [inner EXCEPT ![t] = IF inner[t] = "Committed" THEN inner[t] ELSE "Aborted"]
  BY <1>1, <1>2 DEF CollectUndo
<1>6. PICK undo : call' = [call EXCEPT ![c].undo = undo, ![c].pc = "undo"]
  BY <1>1, <1>2 DEF CollectUndo
<1> DEFINE new == [r EXCEPT !.undo = undo, !.pc = "undo"]
<1>7. call' = [call EXCEPT ![c] = new]
  BY <1>1, <1>6 DEF TypeInv, CallType
<1>8. new.op = r.op /\ new.pc = "undo" /\ new.txn = t /\ new.sync = r.sync
  BY <1>2, <1>3 DEF CallRecord
<1>. HIDE DEF new
<1>9. /\ \A u \in Txns \ {t} : inner'[u] = inner[u] /\ prepared'[u] = prepared[u]
      /\ inner'[t] # "Open" /\ (~ prepared[t] => ~ prepared'[t])
  BY <1>3, <1>5 DEF TypeInv, StateType
<1>10. \A u \in Txns \ {t} : Kept(u)
  BY <1>4, <1>9, FramesKept DEF Kept, wal, TypeInv, LogType
<1>11. ASSUME Facts(t, r) PROVE Facts(t, new)'
  <2>1. /\ r.op = "Abort" => state[t] = "Open" /\ ~ prepared[t]
        /\ r.op = "ResolveAbort" => state[t] = "Prepared"
    BY <1>3, <1>11 DEF Facts, HandleInv
  <2>2. HandleInv(t, new)'
    BY <1>3, <1>4, <1>8, <1>9, <2>1 DEF HandleInv, Late, WriteOps, EndOps
  <2>3. OrderInv(t)'
    BY <1>4, <1>11, StillLog DEF Facts, OrderInv
  <2>4. LogInv(t, new)'
    BY <1>3, <1>4, <1>8, <1>9, <1>11, StillLog DEF Facts, LogInv, EndOps
  <2>5. ToldInv(t)'
    BY <1>4, <1>11, StillLog DEF Facts, ToldInv
  <2>. QED
    BY <2>2, <2>3, <2>4, <2>5 DEF Facts
<1>. QED
  BY <1>1, <1>2, <1>3, <1>7, <1>8, <1>10, <1>11, OwnStep

LEMMA ApplyUndoFacts ==
    ASSUME OwnHandles, TypeInv, TypeInv', TxnInv, NEW c \in Callers, ApplyUndo(c)
    PROVE  TxnInv'
<1>1. PICK r \in CallRecord(Len(log)) : r = call[c]
  BY DEF TypeInv, CallType
<1>2. PICK t : t = r.txn
  OBVIOUS
<1>3. r.pc = "undo" /\ t \in Handles[c] /\ t \in Txns
  BY <1>1, <1>2, Busy DEF ApplyUndo
<1>4. UNCHANGED <<state, inner, prepared, last_lsn, told, wal>>
  BY DEF ApplyUndo, handle
<1>5. PICK undo : call' = [call EXCEPT ![c].undo = undo]
  BY DEF ApplyUndo
<1> DEFINE new == [r EXCEPT !.undo = undo]
<1>6. call' = [call EXCEPT ![c] = new]
  BY <1>1, <1>5 DEF TypeInv, CallType
<1>7. new.op = r.op /\ new.pc = r.pc /\ new.txn = t /\ new.sync = r.sync
  BY <1>2 DEF CallRecord
<1>. HIDE DEF new
<1>8. Facts(t, r) => Facts(t, new)
  BY <1>7 DEF Facts, HandleInv, LogInv, Late
<1>. QED
  BY <1>1, <1>2, <1>3, <1>4, <1>6, <1>7, <1>8, QuietFacts

LEMMA EndFacts ==
    ASSUME OwnHandles, TypeInv, TypeInv', TxnInv, NEW c \in Callers, End(c) \/ FinishAbort(c)
    PROVE  TxnInv'
<1>1. PICK r \in CallRecord(Len(log)) : r = call[c]
  BY DEF TypeInv, CallType
<1>2. PICK t : t = r.txn
  OBVIOUS
<1>3. /\ t \in Handles[c] /\ t \in Txns
      /\ \/ r.pc = "end" /\ r.op \in {"Commit", "ResolveCommit", "Prepare"}
         \/ r.pc = "undo" /\ r.op \in {"Abort", "ResolveAbort"}
  <2>1. r.pc \in {"end", "undo"}
    BY <1>1 DEF End, FinishAbort
  <2>2. t \in Handles[c] /\ t \in Txns /\ Shape(c, r) /\ r # Idle
    BY <1>1, <1>2, <2>1, Busy, IdleFields
  <2>. QED
    BY <2>1, <2>2 DEF Shape, WritePcs
<1>4. UNCHANGED <<inner, prepared, last_lsn, wal>> /\ Finish(c)
  BY DEF End, FinishAbort
<1>5. PICK outcome : outcome = Outcome(r.op)
  OBVIOUS
<1>6. outcome = IF r.op \in {"Commit", "ResolveCommit"} THEN "Committed"
                ELSE IF r.op = "Prepare" THEN "Prepared" ELSE "Aborted"
  BY <1>3, <1>5 DEF Outcome, FrameType
<1>7. state' = [state EXCEPT ![t] = outcome] /\ call' = [call EXCEPT ![c] = Idle]
  BY <1>1, <1>2, <1>4, <1>5 DEF Finish, Return
<1>8. /\ state'[t] = outcome
      /\ \A u \in Txns \ {t} : state'[u] = state[u] /\ told'[u] = told[u]
      /\ \/ told'[t] = told[t]
         \/ told'[t] = told[t] \cup {outcome} /\ (outcome = "Committed" => r.sync)
  <2>1. state'[t] = outcome /\ \A u \in Txns \ {t} : state'[u] = state[u]
    BY <1>3, <1>7 DEF TypeInv, StateType
  <2>2. told' = [told EXCEPT ![t] = IF r.err \/ (outcome = "Committed" /\ ~r.sync)
                                    THEN told[t] ELSE told[t] \union {outcome}]
    BY <1>1, <1>2, <1>4, <1>5 DEF Finish
  <2>3. DOMAIN told = Txns
    BY DEF TypeInv, StateType
  <2>4. \A u \in Txns \ {t} : told'[u] = told[u]
    BY <2>2, <2>3
  <2>5. told'[t] = IF r.err \/ (outcome = "Committed" /\ ~r.sync)
                   THEN told[t] ELSE told[t] \union {outcome}
    BY <1>3, <2>2, <2>3
  <2>. QED
    BY <2>1, <2>4, <2>5
<1>9. \A u \in Txns \ {t} : Kept(u)
  BY <1>4, <1>8, FramesKept DEF Kept, wal, TypeInv, LogType
<1>10. ASSUME Facts(t, r) PROVE Facts(t, Idle)'
  <2>1. /\ r.op \in {"Commit", "Abort", "Prepare"} => state[t] = "Open"
        /\ r.op \in {"ResolveCommit", "ResolveAbort"} => state[t] = "Prepared"
    BY <1>10 DEF Facts, HandleInv
  <2>2. HandleInv(t, Idle)'
    BY <1>3, <1>4, <1>6, <1>8, <1>10, StillLog, IdleFields
       DEF Facts, HandleInv, Late, WriteOps, EndOps
  <2>3. OrderInv(t)'
    BY <1>4, <1>10, StillLog DEF Facts, OrderInv
  <2>4. LogInv(t, Idle)'
    BY <1>3, <1>4, <1>6, <1>8, <1>10, <2>1, StillLog, IdleFields DEF Facts, LogInv, EndOps
  <2>5. ToldInv(t)'
    <3>1. /\ "Committed" \notin told[t] /\ "Aborted" \notin told[t]
          /\ "Prepared" \in told[t] => state[t] = "Prepared"
          /\ "Prepared" \in told[t] => Prepares(t) = {} \/ PrepareSynced(t)
      BY <1>3, <1>10, <2>1 DEF Facts, ToldInv
    <3>2. /\ outcome = "Committed" /\ r.sync => LNs(t) = {} \/ CommitSynced(t)
          /\ outcome = "Aborted" => Commits(t) = {}
          /\ outcome = "Prepared" => Prepares(t) = {} \/ PrepareSynced(t)
          /\ outcome = "Aborted" /\ state[t] = "Prepared" => AbortSynced(t)
      BY <1>3, <1>6, <1>10, <2>1 DEF Facts, LogInv
    <3>. QED
      BY <1>4, <1>6, <1>8, <3>1, <3>2, StillLog DEF ToldInv
  <2>. QED
    BY <2>2, <2>3, <2>4, <2>5 DEF Facts
<1>. QED
  BY <1>1, <1>2, <1>3, <1>7, <1>9, <1>10, OwnStep

LEMMA InitFacts == Init => TxnInv
<1>. SUFFICES ASSUME Init, NEW t \in Txns, NEW r, CallOf(t, r) PROVE Facts(t, r)
  BY DEF TxnInv
<1>1. t # 0
  BY TransactionAssumption
<1>2. r = Idle
  BY <1>1, IdleFields DEF CallOf, Init
<1>3. LNs(t) = {} /\ Commits(t) = {} /\ Aborts(t) = {} /\ Prepares(t) = {} /\ Ends(t) = {}
  <2>1. PICK e : e = LN(0, 1, FALSE, 0, FALSE)
    OBVIOUS
  <2>2. log = << e >> /\ e.txn = 0
    BY <2>1 DEF Init, LN
  <2>3. Len(log) = 1 /\ log[1].txn = 0
    BY <2>2
  <2>4. \A type : Frames(t, type, Len(log)) = {}
    BY <1>1, <2>3 DEF Frames
  <2>. QED
    BY <2>4 DEF LNs, Commits, Aborts, Prepares, Ends
<1>4. state[t] = "Open" /\ inner[t] = "Open" /\ prepared[t] = FALSE /\ told[t] = {}
  BY DEF Init
<1>5. HandleInv(t, r)
  BY <1>2, <1>4, IdleFields DEF HandleInv, Late, WriteOps, EndOps
<1>6. OrderInv(t) /\ LogInv(t, r)
  BY <1>2, <1>3, <1>4, IdleFields DEF OrderInv, LogInv, EndOps
<1>7. ToldInv(t)
  BY <1>4 DEF ToldInv
<1>. QED
  BY <1>5, <1>6, <1>7 DEF Facts

LEMMA NextFacts ==
    ASSUME OwnHandles, ~LateWrites, TypeInv, TxnInv, [Next]_vars
    PROVE  TxnInv'
<1>0. TypeInv'
  BY NextTypes
<1>1. CASE UNCHANGED vars
  <2>1. UNCHANGED <<state, inner, prepared, last_lsn, told, wal, call>>
    BY <1>1 DEF vars, handle
  <2>2. \A u \in Txns : Kept(u)
    BY <2>1, FramesKept DEF Kept, wal, TypeInv, LogType
  <2>3. \A u, r : CallOf(u, r)' <=> CallOf(u, r)
    BY <2>1 DEF CallOf
  <2>. QED
    BY <1>0, <2>2, <2>3, FactsKept DEF TxnInv
<1>2. ASSUME NEW c \in Callers,
             \/ StartWrite(c) \/ ReadSlot(c) \/ Lock(c) \/ WaitEnds(c) \/ RecheckPut(c)
             \/ RecheckInsert(c) \/ RecheckDelete(c) \/ LogLn(c) \/ FinalizeWriteLock(c)
             \/ ApplyTree(c) \/ StartCommit(c) \/ StartAbort(c) \/ StartPrepare(c)
             \/ StartResolve(c) \/ WriteFrame(c) \/ SyncFrame(c) \/ CommitInner(c)
             \/ ResolveCommitInner(c) \/ PrepareInner(c) \/ End(c) \/ CollectUndo(c)
             \/ ApplyUndo(c) \/ FinishAbort(c)
      PROVE  TxnInv'
  BY <1>0, <1>2, StartWriteFacts, ReadFacts, WaitEndsFacts, LogLnFacts, FinalizeFacts,
     StartEndFacts, StartAbortFacts, WriteFrameFacts, SyncFrameFacts, CommitInnerFacts,
     ResolveCommitInnerFacts, PrepareInnerFacts, EndFacts, CollectFacts, ApplyUndoFacts
<1>3. ASSUME NEW t \in Txns, XaEndFail(t) PROVE TxnInv'
  BY <1>0, <1>3, XaEndFailFacts
<1>. QED
  BY <1>0, <1>1, <1>2, <1>3, LogFailsFacts DEF Next

-----------------------------------------------------------------------------
(* Theorems about the outcome of a transaction *)

\* A handle is used by one caller, and no caller writes through a prepared one: then the
\* facts hold throughout.
LEMMA FactsHold ==
    ASSUME OwnHandles, ~LateWrites
    PROVE  Spec => [](TypeInv /\ TxnInv)
<1>1. Init => TypeInv /\ TxnInv
  BY InitTypes, InitFacts
<1>2. TypeInv /\ TxnInv /\ [Next]_vars => (TypeInv /\ TxnInv)'
  BY NextTypes, NextFacts
<1>. QED
  BY <1>1, <1>2, PTL DEF Spec

LEMMA SomeFacts ==
    ASSUME TxnInv, NEW t \in Txns
    PROVE  OrderInv(t) /\ ToldInv(t)
<1>1. \E r : CallOf(t, r)
  BY DEF CallOf
<1>. QED
  BY <1>1 DEF TxnInv, Facts

\* The log never gives a transaction two outcomes, nor the same one twice: a frame is
\* appended only while the outer handle is open or prepared and no frame is there, and
\* every way out of a call that has written one either sets the outer state or leaves a
\* log that takes no more (commit_with_durability, abort, resolved_*_after_prepare).
THEOREM OneOutcomeHolds ==
    ASSUME OwnHandles, ~LateWrites
    PROVE  Spec => []OneOutcome
<1>1. TypeInv /\ TxnInv => OneOutcome
  <2>. SUFFICES ASSUME TypeInv, TxnInv, NEW t \in Txns PROVE Cardinality(Ends(t)) <= 1
    BY DEF OneOutcome, Ends, Commits, Aborts
  <2>1. \A i, j \in Ends(t) : i = j
    BY SomeFacts DEF OrderInv
  <2>2. CASE Ends(t) = {}
    BY <2>2, FS_EmptySet
  <2>3. CASE Ends(t) # {}
    <3>1. PICK i : Ends(t) = {i}
      BY <2>1, <2>3
    <3>. QED
      BY <3>1, FS_Singleton
  <2>. QED
    BY <2>2, <2>3
<1>. QED
  BY <1>1, FactsHold, PTL

\* A transaction whose synced commit returned Ok is committed after any crash, with every
\* LN it logged: its commit frame is synced and lies behind all of them, and nothing is
\* written through the handle once the frame is there (commit_with_durability).
THEOREM CommitsSurvive ==
    ASSUME OwnHandles, ~LateWrites
    PROVE  Spec => []CommittedSurvives
<1>1. TypeInv /\ TxnInv => CommittedSurvives
  <2>. SUFFICES ASSUME TypeInv, TxnInv, NEW t \in Txns, "Committed" \in told[t],
                       NEW d \in durable .. Len(log), NEW i \in LNs(t)
                PROVE  i <= d /\ IsCommitted(t, d)
    BY DEF CommittedSurvives, LNs, Frames
  <2>1. PICK j \in Commits(t) : j <= durable
    BY SomeFacts DEF ToldInv, CommitSynced
  <2>2. i < j
    BY <2>1, SomeFacts DEF OrderInv, Ends
  <2>3. i \in Nat /\ j \in Nat /\ durable \in Nat /\ d \in Nat /\ durable <= d
    BY <2>1, FrameIndex DEF Ends
  <2>4. j \in Frames(t, "TxnCommit", d)
    BY <2>1, <2>3 DEF Commits, Frames
  <2>. QED
    BY <2>1, <2>2, <2>3, <2>4 DEF IsCommitted
<1>. QED
  BY <1>1, FactsHold, PTL

\* A transaction whose abort returned Ok has no commit frame that recovery could find, and
\* if its prepare had returned Ok it is not in-doubt either: the rollback's frame is synced
\* behind the prepare frame (abort, resolved_abort_after_prepare).
THEOREM AbortsStay ==
    ASSUME OwnHandles, ~LateWrites
    PROVE  Spec => []AbortedStaysAborted
<1>1. TypeInv /\ TxnInv => AbortedStaysAborted
  <2>. SUFFICES ASSUME TypeInv, TxnInv, NEW t \in Txns, "Aborted" \in told[t],
                       NEW d \in durable .. Len(log)
                PROVE  /\ ~IsCommitted(t, d)
                       /\ "Prepared" \in told[t] => ~IsPrepared(t, d)
    BY DEF AbortedStaysAborted
  <2>1. durable \in Nat /\ d \in Nat /\ durable <= d /\ d <= Len(log) /\ Len(log) \in Nat
    BY FrameIndex
  <2>2. ~IsCommitted(t, d)
    <3>1. Commits(t) = {} /\ t # 0
      BY SomeFacts, TransactionAssumption DEF ToldInv
    <3>2. Frames(t, "TxnCommit", d) \subseteq Commits(t)
      BY <2>1 DEF Frames, Commits
    <3>. QED
      BY <3>1, <3>2 DEF IsCommitted
  <2>3. ASSUME "Prepared" \in told[t] PROVE ~IsPrepared(t, d)
    <3>1. PICK j \in Aborts(t) : j <= durable
      BY <2>3, SomeFacts DEF ToldInv, AbortSynced
    <3>2. j \in Frames(t, "TxnAbort", d) /\ j \in Nat
      BY <2>1, <3>1, FrameIndex DEF Aborts, Frames, Ends
    <3>3. ASSUME NEW i \in Frames(t, "TxnPrepare", d) PROVE i < j /\ i \in Nat
      <4>1. i \in Prepares(t) /\ i \in Nat
        BY <2>1, <3>3 DEF Frames, Prepares
      <4>. QED
        BY <3>1, <4>1, SomeFacts DEF OrderInv, Ends
    <3>. QED
      BY <3>2, <3>3 DEF IsPrepared
  <2>. QED
    BY <2>2, <2>3
<1>. QED
  BY <1>1, FactsHold, PTL

\* Recovery never rolls a prepared branch back by itself: as long as no resolution has
\* begun, its synced prepare frame survives any crash and makes the branch in-doubt
\* (Transaction::prepare).
THEOREM PreparesAreKept ==
    ASSUME OwnHandles, ~LateWrites
    PROVE  Spec => []PreparedIsKept
<1>1. TypeInv /\ TxnInv => PreparedIsKept
  <2>. SUFFICES ASSUME TypeInv, TxnInv, NEW t \in Txns, "Prepared" \in told[t],
                       Prepares(t) # {}, NEW d \in durable .. Len(log),
                       Frames(t, "TxnCommit", d) \union Frames(t, "TxnAbort", d) = {}
                PROVE  IsPrepared(t, d)
    BY DEF PreparedIsKept, Prepares
  <2>1. PICK i \in Prepares(t) : i <= durable
    BY SomeFacts DEF ToldInv, PrepareSynced
  <2>2. durable \in Nat /\ d \in Nat /\ durable <= d /\ i \in Nat
    BY FrameIndex
  <2>3. i \in Frames(t, "TxnPrepare", d)
    BY <2>1, <2>2 DEF Prepares, Frames
  <2>. QED
    BY <2>3 DEF IsPrepared
<1>. QED
  BY <1>1, FactsHold, PTL

-----------------------------------------------------------------------------
(* Slots, locks and the log *)

\* An LN of record k, and one that transaction t logged.
IsVersion(i, k) == i \in 1 .. Len(log) /\ log[i].type = "LN" /\ log[i].key = k
Wrote(t, k, i)  == IsVersion(i, k) /\ log[i].txn = t

Held(t) == DOMAIN write_locks[t]

\* No two transactions hold the same lock.
ExclusiveInv == \A t, u \in Txns : t # u => Held(t) \cap Held(u) = {}

SlotInv == \A k \in Keys :
    IF tree[k].lsn = 0 THEN ~tree[k].exists ELSE IsVersion(tree[k].lsn, k)

\* The abort in progress has put the before-image of lock `id' back.
Undone(t, id) ==
    \E c \in Callers : /\ call[c].txn = t /\ call[c].pc = "undo"
                       /\ \A u \in call[c].undo : u.lsn # id

\* A change that t has made to record k, under lock `id', and not taken back.
Changed(t, k, id) == Recorded(t, id) /\ write_locks[t][id].key = k /\ ~Undone(t, id)

\* The caller of t is about to lock, or to put into the tree, the LN at i.
Finalizing(t, i)  == \E c \in Callers : call[c].txn = t /\ call[c].pc = "finalize" /\ call[c].new = i
Applying(t, k, i) == \E c \in Callers : /\ call[c].txn = t /\ call[c].pc = "apply"
                                        /\ call[c].key = k /\ call[c].new = i

\* What a lock says about the record: its LN is the last one of the record, and is in
\* the slot unless the tree is about to be updated.
InfoInv(t, id) ==
    LET w == write_locks[t][id]  k == w.key IN
    /\ w.never_locked => ~w.abort_known_deleted /\ w.abort_lsn = 0
    /\ ~w.never_locked =>
          /\ k \in Keys /\ Wrote(t, k, id)
          /\ w.abort_known_deleted \/ w.abort_lsn # 0
          /\ w.abort_lsn # 0 => IsVersion(w.abort_lsn, k)
          /\ ~Undone(t, id) =>
                /\ \/ tree[k].lsn = id /\ tree[k].exists = ~log[id].deleted
                   \/ Applying(t, k, id)
                /\ \A j : IsVersion(j, k) => j <= id \/ Finalizing(t, j)

LocksInv == \A t \in Txns : \A id \in Held(t) : InfoInv(t, id)

\* A write that has looked at the slot under its lock.
Past(r) ==
    /\ r.op \in WriteOps
    /\ \/ r.pc \in {"exists", "log", "finalize", "apply"}
       \/ r.pc \in {"lock", "wait"} /\ r.then = "log"

\* A caller's local variables and what they were read from.
CallInv(r) ==
    /\ r.pc = "recheck" => r.want \in Held(r.txn)
    /\ r.pc = "recheck" \/ (r.pc \in {"lock", "wait"} /\ r.then = "recheck") =>
          r.want = LockId(r.key, r.old) /\ (r.op = "Delete" => r.exists)
    /\ r.pc \in {"lock", "wait"} /\ r.then = "log" => r.op = "Delete"
    /\ Past(r) => /\ LockId(r.key, r.old) \in Held(r.txn)
                  /\ tree[r.key].lsn = r.old /\ tree[r.key].exists = r.exists
    /\ r.op = "Insert" /\ r.pc \in {"log", "finalize", "apply"} => ~r.exists
    /\ r.pc \in {"finalize", "apply"} => /\ Wrote(r.txn, r.key, r.new)
                                         /\ log[r.new].deleted = (r.op = "Delete")
    /\ r.pc = "finalize" => /\ \A j : IsVersion(j, r.key) => j <= r.new
                            /\ \A t \in Txns : r.new \notin Held(t)
                            /\ \A d \in Callers : call[d].want # r.new
    /\ r.pc = "apply" => Recorded(r.txn, r.new) /\ write_locks[r.txn][r.new].key = r.key
    /\ r.pc = "undo" => \A u \in r.undo :
          LET w == write_locks[r.txn][u.lsn] IN
          /\ Recorded(r.txn, u.lsn)
          /\ u.key = w.key /\ u.abort_lsn = w.abort_lsn /\ u.abort_known_deleted = w.abort_known_deleted

CallsInv == \A c \in Callers : CallInv(call[c])

\* The transaction has ended for its Txn, and will write no commit frame.
Gone(t) ==
    /\ inner[t] # "Open"
    /\ \A c \in Callers : call[c].txn = t =>
          ~(call[c].op = "Commit" /\ call[c].pc \in {"frame", "sync", "inner"})

\* A transaction that may still commit has a recorded lock for each record it wrote.
WroteInv ==
    /\ \A i \in 1 .. Len(log) : log[i].txn = 0 => i = 1
    /\ io_invalid \/ \A t \in Txns : \A k, i : Wrote(t, k, i) =>
          \/ \E id : Recorded(t, id) /\ write_locks[t][id].key = k
          \/ Finalizing(t, i)
          \/ Gone(t)

\* The commit frames of a transaction during and after its commit.
CommitInv(t) ==
    /\ \A c \in Callers : call[c].txn = t /\ call[c].op \in {"Commit", "ResolveCommit"}
                             /\ call[c].pc \in {"inner", "end"} => LNs(t) = {} \/ Commits(t) # {}
    /\ \A i \in Commits(t) : i <= durable \/ ~log[i].sync \/ io_invalid
          \/ \E c \in Callers : /\ call[c].txn = t /\ call[c].pc = "sync"
                                /\ call[c].op \in {"Commit", "ResolveCommit"}

Before(w) == IF w.abort_known_deleted THEN 0 ELSE w.abort_lsn
Shown(k)  == IF tree[k].exists THEN tree[k].lsn ELSE 0

\* A record shows its committed version, or a change whose before-image is that.
VersionInv(k) ==
    /\ (\A t \in Txns : \A id : ~Changed(t, k, id)) => Shown(k) = Version(k, Len(log))
    /\ \A t \in Txns : \A id : Changed(t, k, id) =>
          Version(k, Len(log)) = IF Commits(t) = {} THEN Before(write_locks[t][id]) ELSE Shown(k)

DataInv ==
    /\ ExclusiveInv /\ SlotInv /\ LocksInv /\ CallsInv /\ WroteInv
    /\ \A t \in Txns : CommitInv(t)
    /\ io_invalid \/ \A k \in Keys : VersionInv(k)
    /\ BeforeImageIsCommitted

\* The transaction that may change the slot of record k.
Owns(t, k) == LockId(k, tree[k].lsn) \in Held(t)

\* A step of caller c in transaction t: it changes no slot that t does not own, and
\* appends no LN to such a record.
Local(c, t) ==
    /\ call[c].txn \in {0, t} /\ call'[c].txn \in {0, t}
    /\ \A d \in Callers \ {c} : call'[d] = call[d]
    /\ \A u \in Txns \ {t} : write_locks'[u] = write_locks[u] /\ inner'[u] = inner[u]
    /\ \A k \in Keys : tree'[k] = tree[k] \/ Owns(t, k)
    /\ \A i \in 1 .. Len(log) : i \in 1 .. Len(log') /\ log'[i] = log[i]
    /\ \A i \in 1 .. Len(log') : \/ i \in 1 .. Len(log)
                                 \/ /\ log'[i].txn = t
                                    /\ log'[i].type = "LN" => \E k : log'[i].key = k /\ Owns(t, k)
    /\ durable <= durable' /\ (io_invalid => io_invalid')

-----------------------------------------------------------------------------
(* Owners *)

\* The shapes that most steps need.
LEMMA LogIs ==
    ASSUME TypeInv
    PROVE  /\ Len(log) \in Nat /\ durable \in Nat /\ durable <= Len(log) /\ 1 <= durable
           /\ \A i \in 1 .. Len(log) : log[i] \in Entry
           /\ DOMAIN call = Callers /\ DOMAIN tree = Keys /\ DOMAIN write_locks = Txns
           /\ DOMAIN inner = Txns
  BY DEF TypeInv, LogType, CallType, TreeType, LockType, StateType

\* A transaction is in the hands of one caller.
LEMMA Unique ==
    ASSUME OwnHandles, TypeInv, NEW c \in Callers, NEW d \in Callers,
           call[c].txn = call[d].txn, call[c].txn # 0
    PROVE  c = d
<1>1. \A e \in Callers : call[e] = Idle \/ call[e].txn \in Handles[e]
  BY DEF TypeInv, CallType, Shape
<1>. QED
  BY <1>1, IdleFields DEF OwnHandles

\* A record has one owner.
LEMMA OneOwner ==
    ASSUME ExclusiveInv, NEW t \in Txns, NEW u \in Txns, NEW k, Owns(t, k), Owns(u, k)
    PROVE  t = u
  BY DEF ExclusiveInv, Owns

\* A write that has looked at its slot under the lock owns the record.
LEMMA PastOwns ==
    ASSUME TypeInv, CallsInv, NEW c \in Callers, Past(call[c])
    PROVE  /\ Owns(call[c].txn, call[c].key) /\ call[c].txn \in Txns /\ call[c].key \in Keys
           /\ call[c].txn # 0 /\ call[c].txn \in Handles[c]
<1>1. call[c].pc # "idle" /\ call[c].pc \in WritePcs
  BY DEF Past, WritePcs
<1>. QED
  BY <1>1, Busy DEF CallsInv, CallInv, Owns

LEMMA PcIsPast ==
    ASSUME TypeInv, NEW c \in Callers, call[c].pc \in {"exists", "log", "finalize", "apply"}
    PROVE  Past(call[c])
<1>1. call[c].pc # "idle" /\ call[c].pc \in WritePcs
  BY DEF WritePcs
<1>. QED
  BY <1>1, Busy DEF Past

\* A change that is not taken back is under the lock of its slot's version.
LEMMA ChangedOwns ==
    ASSUME TypeInv, LocksInv, CallsInv, NEW t \in Txns, NEW k, NEW id, Changed(t, k, id)
    PROVE  Owns(t, k) /\ k \in Keys /\ id \in Held(t) /\ id \in 1 .. Len(log) /\ Wrote(t, k, id)
<1>1. id \in Held(t) /\ InfoInv(t, id) /\ ~write_locks[t][id].never_locked /\ write_locks[t][id].key = k
      /\ ~Undone(t, id)
  BY DEF Changed, Recorded, LocksInv, Held
<1>2. k \in Keys /\ Wrote(t, k, id) /\ (tree[k].lsn = id \/ Applying(t, k, id))
  BY <1>1 DEF InfoInv
<1>3. id \in 1 .. Len(log) /\ id # 0
  BY <1>2, LogIs DEF Wrote, IsVersion
<1>4. CASE tree[k].lsn = id
  BY <1>1, <1>2, <1>3, <1>4 DEF Owns, LockId
<1>5. CASE Applying(t, k, id)
  <2>1. PICK c \in Callers : call[c].txn = t /\ call[c].pc = "apply" /\ call[c].key = k
    BY <1>5 DEF Applying
  <2>. QED
    BY <1>1, <1>2, <1>3, <2>1, PcIsPast, PastOwns
<1>. QED
  BY <1>1, <1>2, <1>3, <1>4, <1>5

-----------------------------------------------------------------------------
(* What a step leaves alone *)

\* Nothing about another transaction's calls and locks changes.
LEMMA OthersCalls ==
    ASSUME NEW c \in Callers, NEW t, Local(c, t), NEW u \in Txns, u # t
    PROVE  /\ \A d \in Callers : (call'[d].txn = u <=> call[d].txn = u)
                                   /\ (call[d].txn = u => call'[d] = call[d])
           /\ \A id : Undone(u, id)' <=> Undone(u, id)
           /\ \A i : Finalizing(u, i)' <=> Finalizing(u, i)
           /\ \A k, i : Applying(u, k, i)' <=> Applying(u, k, i)
           /\ Gone(u)' <=> Gone(u)
           /\ \A id : Recorded(u, id)' <=> Recorded(u, id)
           /\ \A k, id : Changed(u, k, id)' <=> Changed(u, k, id)
           /\ Held(u)' = Held(u)
<1>0. u # 0
  BY TransactionAssumption
<1>1. \A d \in Callers : (call'[d].txn = u <=> call[d].txn = u) /\ (call[d].txn = u => call'[d] = call[d])
  BY <1>0 DEF Local
<1>2. \A id : Undone(u, id)' <=> Undone(u, id)
  BY <1>1 DEF Undone
<1>3. \A i : Finalizing(u, i)' <=> Finalizing(u, i)
  BY <1>1 DEF Finalizing
<1>4. \A k, i : Applying(u, k, i)' <=> Applying(u, k, i)
  BY <1>1 DEF Applying
<1>5. write_locks'[u] = write_locks[u] /\ inner'[u] = inner[u]
  BY DEF Local
<1>6. Gone(u)' <=> Gone(u)
  BY <1>1, <1>5 DEF Gone
<1>7. \A id : Recorded(u, id)' <=> Recorded(u, id)
  BY <1>5 DEF Recorded
<1>8. \A k, id : Changed(u, k, id)' <=> Changed(u, k, id)
  BY <1>2, <1>5, <1>7 DEF Changed
<1>. QED
  BY <1>1, <1>2, <1>3, <1>4, <1>5, <1>6, <1>7, <1>8 DEF Held

\* The log grows by LNs of owned records only.
LEMMA VersionsStay ==
    ASSUME NEW c, NEW t, Local(c, t)
    PROVE  /\ \A i, k : IsVersion(i, k) => IsVersion(i, k)' /\ log'[i] = log[i]
           /\ \A i, k : IsVersion(i, k)' => IsVersion(i, k) \/ (Owns(t, k) /\ Wrote(t, k, i)')
           /\ \A u, i, k : Wrote(u, k, i) => Wrote(u, k, i)'
           /\ \A u, i, k : u # t => (Wrote(u, k, i)' <=> Wrote(u, k, i))
<1>1. \A i \in 1 .. Len(log) : i \in 1 .. Len(log') /\ log'[i] = log[i]
  BY DEF Local
<1>2. \A i, k : IsVersion(i, k) => IsVersion(i, k)' /\ log'[i] = log[i]
  BY <1>1 DEF IsVersion
<1>3. \A i, k : IsVersion(i, k)' => IsVersion(i, k) \/ (Owns(t, k) /\ Wrote(t, k, i)')
  <2>. SUFFICES ASSUME NEW i, NEW k, IsVersion(i, k)', ~IsVersion(i, k)
                PROVE  Owns(t, k) /\ Wrote(t, k, i)'
    OBVIOUS
  <2>1. i \in 1 .. Len(log') /\ log'[i].type = "LN" /\ log'[i].key = k
    BY DEF IsVersion
  <2>2. i \notin 1 .. Len(log)
    BY <1>1, <2>1 DEF IsVersion
  <2>. QED
    BY <2>1, <2>2 DEF Local, Wrote, IsVersion
<1>4. \A u, i, k : Wrote(u, k, i) => Wrote(u, k, i)'
  BY <1>2 DEF Wrote
<1>5. \A u, i, k : u # t => (Wrote(u, k, i)' => Wrote(u, k, i))
  BY <1>2, <1>3 DEF Wrote
<1>. QED
  BY <1>2, <1>3, <1>4, <1>5

\* What the locks of another transaction say stays true: the step changes no record
\* that the other owns.
LEMMA OthersInfo ==
    ASSUME TypeInv, ExclusiveInv, LocksInv, CallsInv, NEW c \in Callers, NEW t \in Txns, Local(c, t),
           NEW u \in Txns, u # t, NEW id \in Held(u)
    PROVE  InfoInv(u, id)'
<1>1. PICK w : w = write_locks[u][id]
  OBVIOUS
<1>2. PICK k : k = w.key
  OBVIOUS
<1>3. write_locks'[u][id] = w
  BY <1>1 DEF Local
<1>4. InfoInv(u, id)
  BY DEF LocksInv
<1>5. CASE w.never_locked
  BY <1>1, <1>3, <1>4, <1>5 DEF InfoInv
<1>6. CASE ~w.never_locked
  <2>1. /\ k \in Keys /\ Wrote(u, k, id) /\ (w.abort_known_deleted \/ w.abort_lsn # 0)
        /\ w.abort_lsn # 0 => IsVersion(w.abort_lsn, k)
        /\ ~Undone(u, id) => /\ (tree[k].lsn = id /\ tree[k].exists = ~log[id].deleted) \/ Applying(u, k, id)
                             /\ \A j : IsVersion(j, k) => j <= id \/ Finalizing(u, j)
    BY <1>1, <1>2, <1>4, <1>6 DEF InfoInv
  <2>2. Wrote(u, k, id)' /\ (w.abort_lsn # 0 => IsVersion(w.abort_lsn, k)') /\ log'[id] = log[id]
    BY <2>1, VersionsStay DEF Wrote
  <2>3. ASSUME ~Undone(u, id)'
        PROVE  /\ \/ tree'[k].lsn = id /\ tree'[k].exists = ~log'[id].deleted
                  \/ Applying(u, k, id)'
               /\ \A j : IsVersion(j, k)' => j <= id \/ Finalizing(u, j)'
    <3>1. ~Undone(u, id)
      BY <2>3, OthersCalls
    <3>2. Changed(u, k, id)
      BY <1>1, <1>2, <1>6, <3>1 DEF Changed, Recorded, Held
    <3>3. ~Owns(t, k)
      BY <3>2, ChangedOwns, OneOwner
    <3>4. tree'[k] = tree[k]
      BY <2>1, <3>3 DEF Local
    <3>5. \A j : IsVersion(j, k)' => IsVersion(j, k)
      BY <3>3, VersionsStay
    <3>. QED
      BY <2>1, <2>2, <3>1, <3>4, <3>5, OthersCalls
  <2>. QED
    BY <1>2, <1>3, <1>6, <2>1, <2>2, <2>3 DEF InfoInv
<1>. QED
  BY <1>5, <1>6

\* What another caller has read stays true.
LEMMA OthersCall ==
    ASSUME TypeInv, ExclusiveInv, SlotInv, LocksInv, CallsInv, OwnHandles,
           NEW c \in Callers, NEW t \in Handles[c], Local(c, t), NEW d \in Callers, d # c,
           call[d].pc = "finalize" => call[d].new \notin Held(t)' /\ call'[c].want # call[d].new
    PROVE  CallInv(call[d])'
<1>0. t \in Txns /\ t # 0
  BY HandleTxns
<1>1. PICK r : r = call[d]
  OBVIOUS
<1>2. call'[d] = r /\ CallInv(r)
  BY <1>1 DEF Local, CallsInv
<1>3. CASE r.pc \notin WritePcs /\ r.pc # "undo"
  BY <1>1, <1>2, <1>3 DEF CallInv, Past, WritePcs
<1>4. CASE r.pc \in WritePcs \/ r.pc = "undo"
  <2>0. r.pc # "idle"
    BY <1>4 DEF WritePcs
  <2>1. r.txn \in Handles[d] /\ r.txn \in Txns /\ r.txn # 0
    BY <1>1, <2>0, Busy
  <2>2. r.txn # t
    BY <1>0, <2>1 DEF OwnHandles
  <2>3. PICK u \in Txns : u = r.txn
    BY <2>1
  <2>4. write_locks'[u] = write_locks[u] /\ Held(u)' = Held(u) /\ \A id : Recorded(u, id)' <=> Recorded(u, id)
    <3>1. write_locks'[u] = write_locks[u]
      BY <2>2, <2>3 DEF Local
    <3>. QED
      BY <1>0, <2>2, <2>3, <3>1, OthersCalls
  <2>5. Past(r) => tree'[r.key] = tree[r.key] /\ ~Owns(t, r.key)
    BY <1>0, <1>1, <2>2, PastOwns, OneOwner DEF Local
  <2>6. r.pc \in {"finalize", "apply"} => Wrote(u, r.key, r.new)' /\ log'[r.new] = log[r.new]
    BY <1>2, <2>3, VersionsStay DEF CallInv, Wrote
  <2>7. ASSUME r.pc = "finalize"
        PROVE  /\ \A j : IsVersion(j, r.key)' => j <= r.new
               /\ \A v \in Txns : r.new \notin Held(v)'
               /\ \A e \in Callers : call'[e].want # r.new
    <3>1. Past(r)
      BY <1>1, <2>7, PcIsPast
    <3>2. \A j : IsVersion(j, r.key)' => IsVersion(j, r.key)
      BY <2>5, <3>1, VersionsStay
    <3>3. \A v \in Txns \ {t} : Held(v)' = Held(v)
      BY <1>0, OthersCalls
    <3>4. \A e \in Callers \ {c} : call'[e].want = call[e].want
      BY DEF Local
    <3>. QED
      BY <1>1, <1>2, <2>7, <3>2, <3>3, <3>4 DEF CallInv
  <2>8. /\ r.pc = "recheck" => r.want \in Held(u)'
        /\ Past(r) => /\ LockId(r.key, r.old) \in Held(u)'
                      /\ tree'[r.key].lsn = r.old /\ tree'[r.key].exists = r.exists
        /\ r.pc = "apply" => Recorded(u, r.new)' /\ write_locks'[u][r.new].key = r.key
    BY <1>2, <2>3, <2>4, <2>5 DEF CallInv
  <2>9. r.pc = "undo" => \A x \in r.undo :
          LET w == write_locks'[u][x.lsn] IN
          /\ Recorded(u, x.lsn)'
          /\ x.key = w.key /\ x.abort_lsn = w.abort_lsn /\ x.abort_known_deleted = w.abort_known_deleted
    BY <1>2, <2>3, <2>4 DEF CallInv
  <2>10. Past(r)' <=> Past(r)
    BY DEF Past
  <2>11. \A k, l : LockId(k, l)' = LockId(k, l)
    BY DEF LockId
  <2>12. CallInv(r)
    BY <1>2
  <2>13. CallInv(r)'
    BY <2>3, <2>6, <2>7, <2>8, <2>9, <2>12 DEF CallInv, Past, LockId
  <2>. QED
    BY <1>1, <1>2, <2>13
<1>. QED
  BY <1>3, <1>4

\* A step of one caller keeps the facts about slots and locks if it keeps its own.
LEMMA LocalStep ==
    ASSUME TypeInv, ExclusiveInv, SlotInv, LocksInv, CallsInv, OwnHandles,
           NEW c \in Callers, NEW t \in Handles[c], Local(c, t),
           \A u \in Txns \ {t} : Held(t)' \cap Held(u) = {},
           \A d \in Callers \ {c} : call[d].pc = "finalize" =>
               call[d].new \notin Held(t)' /\ call'[c].want # call[d].new,
           \A id \in Held(t)' : InfoInv(t, id)',
           \E new : call'[c] = new /\ CallInv(new)'
    PROVE  ExclusiveInv' /\ LocksInv' /\ CallsInv'
<1>0. t \in Txns
  BY HandleTxns
<1>1. ExclusiveInv'
  <2>1. \A u \in Txns \ {t} : Held(u)' = Held(u)
    BY <1>0, OthersCalls
  <2>. QED
    BY <1>0, <2>1 DEF ExclusiveInv
<1>2. LocksInv'
  <2>. SUFFICES ASSUME NEW u \in Txns, u # t, NEW id \in Held(u)' PROVE InfoInv(u, id)'
    BY DEF LocksInv
  <2>1. id \in Held(u)
    BY <1>0, OthersCalls
  <2>. QED
    BY <1>0, <2>1, OthersInfo
<1>3. CallsInv'
  <2>. SUFFICES ASSUME NEW d \in Callers, d # c PROVE CallInv(call[d])'
    BY DEF CallsInv
  <2>. QED
    BY OthersCall
<1>. QED
  BY <1>1, <1>2, <1>3

-----------------------------------------------------------------------------
(* The log and its committed versions *)

\* Max of a set of LSNs is its greatest element.
LEMMA MaxIs ==
    ASSUME NEW n \in Nat, NEW S, S \subseteq 0 .. n, S # {}
    PROVE  /\ Max(S) \in S /\ \A y \in S : y <= Max(S)
           /\ \A x \in S : (\A y \in S : y <= x) => Max(S) = x
<1> DEFINE T == {n - s : s \in S}
           R == OpToRel(<, Nat)
<1>0. \A s \in S : s \in Int /\ s <= n /\ n - s \in Nat
  OBVIOUS
<1>1. T \subseteq Nat /\ T # {}
  <2>. HIDE DEF R
  <2>. QED BY <1>0
<1>2. IsWellFoundedOn(R, Nat)
  BY NatLessThanWellFounded, Zenon
<1>3. \A x, y \in Nat : <<y, x>> \in R <=> y < x
  BY Zenon DEF OpToRel
<1>. HIDE DEF R
<1>4. PICK x \in T : \A y \in T : ~ (<<y, x>> \in R)
  <2>. HIDE DEF T
  <2>. QED BY <1>1, <1>2, WFMin
<1>5. PICK m \in S : x = n - m
  BY <1>4
<1>6. \A s \in S : ~ (n - s < n - m)
  BY <1>1, <1>3, <1>4, <1>5
<1>7. \A s \in S : m >= s
  BY <1>6
<1>8. \E z \in S : \A y \in S : z >= y
  BY <1>7
<1>9. Max(S) \in S /\ \A y \in S : Max(S) >= y
  BY <1>8, Zenon DEF Max
<1>10. PICK z : z = Max(S)
  OBVIOUS
<1>11. z \in S /\ \A y \in S : z >= y
  BY <1>9, <1>10
<1>. HIDE DEF T
<1>12. \A y \in S : y <= z
  BY <1>0, <1>11
<1>13. \A x1 \in S : (\A y \in S : y <= x1) => z = x1
  BY <1>0, <1>11
<1>. QED
  BY <1>10, <1>11, <1>12, <1>13

\* The committed LNs of a record.
CommittedLNs(k) == {i \in 1 .. Len(log) : /\ log[i].type = "LN" /\ log[i].key = k
                                          /\ IsCommitted(log[i].txn, Len(log))}

\* The last committed LN of a record in terms of the commit frames.
LEMMA LastIs ==
    ASSUME TypeInv, NEW k
    PROVE  /\ LastCommitted(k, Len(log)) = Max({0} \cup CommittedLNs(k))
           /\ LastCommitted(k, Len(log)) \in {0} \cup CommittedLNs(k)
           /\ \A i \in CommittedLNs(k) : i <= LastCommitted(k, Len(log))
           /\ \A i : i \in CommittedLNs(k) <=> /\ IsVersion(i, k)
                                               /\ log[i].txn = 0 \/ Commits(log[i].txn) # {}
<1>1. LastCommitted(k, Len(log)) = Max({0} \cup CommittedLNs(k))
  BY DEF LastCommitted, CommittedLNs
<1>2. {0} \cup CommittedLNs(k) \subseteq 0 .. Len(log) /\ {0} \cup CommittedLNs(k) # {}
  BY LogIs DEF CommittedLNs
<1>3. Max({0} \cup CommittedLNs(k)) \in {0} \cup CommittedLNs(k)
      /\ \A y \in {0} \cup CommittedLNs(k) : y <= Max({0} \cup CommittedLNs(k))
  BY <1>2, LogIs, MaxIs
<1>. QED
  BY <1>1, <1>3 DEF CommittedLNs, IsVersion, IsCommitted, Commits

\* The same in the next state.
LEMMA LastIsNext ==
    ASSUME TypeInv', NEW k
    PROVE  /\ LastCommitted(k, Len(log))' = Max({0} \cup CommittedLNs(k)')
           /\ LastCommitted(k, Len(log))' \in {0} \cup CommittedLNs(k)'
           /\ \A i \in CommittedLNs(k)' : i <= LastCommitted(k, Len(log))'
           /\ \A i : i \in CommittedLNs(k)' <=>
                /\ IsVersion(i, k)' /\ \E u : log'[i].txn = u /\ (u = 0 \/ Commits(u)' # {})
<1>1. LastCommitted(k, Len(log))' = Max({0} \cup CommittedLNs(k)')
  BY DEF LastCommitted, CommittedLNs
<1>2. Len(log') \in Nat
  BY DEF TypeInv, LogType
<1>3. {0} \cup CommittedLNs(k)' \subseteq 0 .. Len(log') /\ {0} \cup CommittedLNs(k)' # {}
  BY <1>2 DEF CommittedLNs
<1>4. Max({0} \cup CommittedLNs(k)') \in {0} \cup CommittedLNs(k)'
      /\ \A y \in {0} \cup CommittedLNs(k)' : y <= Max({0} \cup CommittedLNs(k)')
  BY <1>2, <1>3, MaxIs
<1>. QED
  BY <1>1, <1>4 DEF CommittedLNs, IsVersion, IsCommitted, Commits

LEMMA OthersFrames ==
    ASSUME NEW c, NEW t, Local(c, t), NEW u, NEW type
    PROVE  /\ u # t => Frames(u, type, Len(log))' = Frames(u, type, Len(log))
           /\ Frames(u, type, Len(log)) \subseteq Frames(u, type, Len(log))'
<1>1. /\ \A i \in 1 .. Len(log) : i \in 1 .. Len(log') /\ log'[i] = log[i]
      /\ \A i \in 1 .. Len(log') : i \in 1 .. Len(log) \/ log'[i].txn = t
  BY DEF Local
<1>. QED
  BY <1>1 DEF Frames

\* As long as no LN becomes committed the committed version stays.
LEMMA VersionSame ==
    ASSUME TypeInv, TypeInv', NEW c, NEW t, Local(c, t), NEW k, CommittedLNs(k)' = CommittedLNs(k)
    PROVE  /\ LastCommitted(k, Len(log))' = LastCommitted(k, Len(log))
           /\ Version(k, Len(log))' = Version(k, Len(log))
<1>1. PICK x : x = LastCommitted(k, Len(log))
  OBVIOUS
<1>2. LastCommitted(k, Len(log))' = x
  BY <1>1, LastIs, LastIsNext
<1>3. x = 0 \/ log'[x] = log[x]
  BY <1>1, LastIs DEF CommittedLNs, Local
<1>4. Version(k, Len(log)) = IF x = 0 \/ log[x].deleted THEN 0 ELSE x
  BY <1>1 DEF Version
<1>5. Version(k, Len(log))' = IF x = 0 \/ log'[x].deleted THEN 0 ELSE x
  BY <1>2 DEF Version
<1>. QED
  BY <1>1, <1>2, <1>3, <1>4, <1>5

\* A step that does not commit a version of the record.
LEMMA NoneCommitted ==
    ASSUME TypeInv, TypeInv', NEW c, NEW t \in Txns, Local(c, t), NEW k,
           (\A i : ~Wrote(t, k, i)') \/ Commits(t)' = Commits(t),
           \A i : Wrote(t, k, i)' /\ ~Wrote(t, k, i) => Commits(t)' = {}
    PROVE  CommittedLNs(k)' = CommittedLNs(k)
<1>0. t # 0
  BY TransactionAssumption
<1>1. ASSUME NEW u, u # t PROVE Commits(u)' = Commits(u)
  <2>1. Frames(u, "TxnCommit", Len(log))' = Frames(u, "TxnCommit", Len(log))
    BY <1>1, OthersFrames
  <2>. QED
    BY <2>1 DEF Commits
<1>2. ASSUME NEW i, IsVersion(i, k) PROVE i \in CommittedLNs(k)' <=> i \in CommittedLNs(k)
  <2>1. IsVersion(i, k)' /\ log'[i] = log[i]
    BY <1>2, VersionsStay
  <2>2. PICK u : u = log[i].txn
    OBVIOUS
  <2>3. i \in CommittedLNs(k) <=> u = 0 \/ Commits(u) # {}
    BY <1>2, <2>2, LastIs
  <2>4. i \in CommittedLNs(k)' <=> u = 0 \/ Commits(u)' # {}
    BY <2>1, <2>2, LastIsNext
  <2>5. u = t => Wrote(t, k, i)'
    BY <2>1, <2>2 DEF Wrote
  <2>. QED
    BY <1>1, <2>3, <2>4, <2>5
<1>3. ASSUME NEW i, ~IsVersion(i, k) PROVE i \notin CommittedLNs(k)' /\ i \notin CommittedLNs(k)
  <2>1. i \notin CommittedLNs(k)
    BY <1>3, LastIs
  <2>2. IsVersion(i, k)' => Wrote(t, k, i)' /\ ~Wrote(t, k, i)
    BY <1>3, VersionsStay DEF Wrote
  <2>3. IsVersion(i, k)' => log'[i].txn = t /\ Commits(t)' = {}
    BY <2>2 DEF Wrote
  <2>. QED
    BY <1>0, <2>1, <2>3, LastIsNext
<1>. QED
  BY <1>2, <1>3

\* The commit of the transaction that wrote the last version of the record.
LEMMA LastCommits ==
    ASSUME TypeInv, TypeInv', NEW c, NEW t, Local(c, t), NEW k, NEW id,
           Wrote(t, k, id), \A j : IsVersion(j, k)' => j <= id, Commits(t)' # {}
    PROVE  /\ LastCommitted(k, Len(log))' = id
           /\ Version(k, Len(log))' = IF log[id].deleted THEN 0 ELSE id
<1>1. Wrote(t, k, id)' /\ log'[id] = log[id] /\ IsVersion(id, k)' /\ log'[id].txn = t
  BY VersionsStay DEF Wrote
<1>2. id \in CommittedLNs(k)'
  BY <1>1, LastIsNext
<1>0. \A i : IsVersion(i, k)' => i \in Nat /\ i # 0
  BY DEF IsVersion, TypeInv, LogType
<1>3. PICK x : x = LastCommitted(k, Len(log))'
  OBVIOUS
<1>4. x \in {0} \cup CommittedLNs(k)' /\ id <= x
  BY <1>2, <1>3, LastIsNext
<1>5. \A i \in CommittedLNs(k)' : i <= id /\ i \in Nat
  BY <1>0, LastIsNext
<1>6. x = id /\ id # 0
  BY <1>0, <1>1, <1>2, <1>4, <1>5
<1>. QED
  BY <1>1, <1>3, <1>6 DEF Version

\* The facts about what was written, if the step keeps those of its transaction.
LEMMA LocalWrote ==
    ASSUME WroteInv, NEW c \in Callers, NEW t \in Txns, Local(c, t),
           io_invalid' \/ \A k, i : Wrote(t, k, i)' =>
               \/ \E id : Recorded(t, id)' /\ write_locks'[t][id].key = k
               \/ Finalizing(t, i)'
               \/ Gone(t)'
    PROVE  WroteInv'
<1>0. t # 0
  BY TransactionAssumption
<1>1. \A i \in 1 .. Len(log') : log'[i].txn = 0 => i = 1
  BY <1>0 DEF WroteInv, Local
<1>2. ASSUME ~io_invalid', NEW u \in Txns, u # t, NEW k, NEW i, Wrote(u, k, i)'
      PROVE  \/ \E id : Recorded(u, id)' /\ write_locks'[u][id].key = k
             \/ Finalizing(u, i)'
             \/ Gone(u)'
  <2>1. Wrote(u, k, i) /\ ~io_invalid
    <3>1. ~io_invalid
      BY <1>2 DEF Local
    <3>. QED
      BY <1>2, <3>1, VersionsStay
  <2>2. \/ \E id : Recorded(u, id) /\ write_locks[u][id].key = k
        \/ Finalizing(u, i)
        \/ Gone(u)
    BY <2>1 DEF WroteInv
  <2>3. write_locks'[u] = write_locks[u]
    BY <1>2 DEF Local
  <2>. QED
    BY <1>2, <2>2, <2>3, OthersCalls
<1>. QED
  BY <1>1, <1>2 DEF WroteInv

\* The commit frames of the other transactions.
LEMMA LocalCommit ==
    ASSUME TypeInv, TypeInv', \A u \in Txns : CommitInv(u), NEW c \in Callers, NEW t \in Txns, Local(c, t),
           CommitInv(t)'
    PROVE  \A u \in Txns : CommitInv(u)'
<1>. SUFFICES ASSUME NEW u \in Txns, u # t PROVE CommitInv(u)'
  OBVIOUS
<1>1. Commits(u)' = Commits(u) /\ LNs(u)' = LNs(u)
  <2>1. Frames(u, "TxnCommit", Len(log))' = Frames(u, "TxnCommit", Len(log))
    BY OthersFrames
  <2>2. Frames(u, "LN", Len(log))' = Frames(u, "LN", Len(log))
    BY OthersFrames
  <2>. QED
    BY <2>1, <2>2 DEF Commits, LNs
<1>2. \A i \in Commits(u) : log'[i] = log[i] /\ i \in Nat
  BY LogIs DEF Commits, Frames, Local
<1>3. durable <= durable' /\ durable \in Nat /\ durable' \in Nat /\ (io_invalid => io_invalid')
  BY LogIs DEF Local, TypeInv, LogType
<1>4. CommitInv(u)
  OBVIOUS
<1>5. \A d \in Callers : (call'[d].txn = u <=> call[d].txn = u) /\ (call[d].txn = u => call'[d] = call[d])
  BY OthersCalls
<1>6. ASSUME NEW d \in Callers, call'[d].txn = u, call'[d].op \in {"Commit", "ResolveCommit"},
             call'[d].pc \in {"inner", "end"}
      PROVE  LNs(u)' = {} \/ Commits(u)' # {}
  BY <1>1, <1>4, <1>5, <1>6 DEF CommitInv
<1>7. ASSUME NEW i \in Commits(u)'
      PROVE  i <= durable' \/ ~log'[i].sync \/ io_invalid'
          \/ \E d \in Callers : /\ call'[d].txn = u /\ call'[d].pc = "sync"
                                /\ call'[d].op \in {"Commit", "ResolveCommit"}
  <2>1. i \in Commits(u) /\ log'[i] = log[i] /\ i \in Nat
    BY <1>1, <1>2, <1>7
  <2>2. i <= durable \/ ~log[i].sync \/ io_invalid
          \/ \E d \in Callers : /\ call[d].txn = u /\ call[d].pc = "sync"
                                /\ call[d].op \in {"Commit", "ResolveCommit"}
    BY <1>4, <2>1 DEF CommitInv
  <2>. QED
    BY <1>3, <1>5, <2>1, <2>2
<1>. QED
  BY <1>6, <1>7 DEF CommitInv

\* A record that a step does not touch.
LEMMA VersionKept ==
    ASSUME NEW k \in Keys, VersionInv(k), tree'[k] = tree[k],
           Version(k, Len(log))' = Version(k, Len(log)),
           \A u \in Txns : \A id : /\ Changed(u, k, id)' <=> Changed(u, k, id)
                                   /\ Changed(u, k, id) => /\ write_locks'[u][id] = write_locks[u][id]
                                                           /\ Commits(u)' = {} <=> Commits(u) = {}
    PROVE  VersionInv(k)'
<1>1. Shown(k)' = Shown(k)
  BY DEF Shown
<1>2. ASSUME NEW u \in Txns, NEW id, Changed(u, k, id)'
      PROVE  Version(k, Len(log))' = IF Commits(u)' = {} THEN Before(write_locks[u][id])' ELSE Shown(k)'
  <2>1. Changed(u, k, id) /\ write_locks'[u][id] = write_locks[u][id] /\ (Commits(u)' = {} <=> Commits(u) = {})
    BY <1>2
  <2>2. Before(write_locks[u][id])' = Before(write_locks[u][id])
    BY <2>1 DEF Before
  <2>3. Version(k, Len(log)) = IF Commits(u) = {} THEN Before(write_locks[u][id]) ELSE Shown(k)
    BY <2>1 DEF VersionInv
  <2>. QED
    BY <1>1, <2>1, <2>2, <2>3
<1>3. ASSUME \A u \in Txns : \A id : ~Changed(u, k, id)' PROVE Shown(k)' = Version(k, Len(log))'
  BY <1>1, <1>3 DEF VersionInv
<1>. QED
  BY <1>2, <1>3 DEF VersionInv

\* A record the transaction does not own keeps its version.
LEMMA OthersVersion ==
    ASSUME TypeInv, TypeInv', LocksInv, CallsInv, NEW c \in Callers, NEW t \in Txns, Local(c, t),
           NEW k \in Keys, ~Owns(t, k), VersionInv(k), \A id : ~Changed(t, k, id)',
           Version(k, Len(log))' = Version(k, Len(log))
    PROVE  VersionInv(k)'
<1>1. tree'[k] = tree[k]
  BY DEF Local
<1>2. ASSUME NEW u \in Txns, NEW id
      PROVE  /\ Changed(u, k, id)' <=> Changed(u, k, id)
             /\ Changed(u, k, id) => /\ write_locks'[u][id] = write_locks[u][id]
                                     /\ Commits(u)' = {} <=> Commits(u) = {}
  <2>1. CASE u = t
    BY <2>1, ChangedOwns
  <2>2. CASE u # t
    <3>1. Frames(u, "TxnCommit", Len(log))' = Frames(u, "TxnCommit", Len(log))
      BY <2>2, OthersFrames
    <3>2. write_locks'[u] = write_locks[u]
      BY <2>2 DEF Local
    <3>. QED
      BY <2>2, <3>1, <3>2, OthersCalls DEF Commits
  <2>. QED
    BY <2>1, <2>2
<1>. QED
  BY <1>1, <1>2, VersionKept

\* A record that the transaction owns has no change of another.
LEMMA OwnVersion ==
    ASSUME TypeInv, ExclusiveInv, LocksInv, CallsInv, NEW c \in Callers, NEW t \in Txns, Local(c, t),
           NEW k \in Keys, Owns(t, k), NEW u \in Txns, u # t, NEW id
    PROVE  ~Changed(u, k, id) /\ ~Changed(u, k, id)'
<1>1. ~Changed(u, k, id)
  BY ChangedOwns, OneOwner
<1>. QED
  BY <1>1, OthersCalls

\* The before-images in the log: what a step has to show of the versions it commits and
\* of the LN it appends.
LEMMA BeforeStep ==
    ASSUME TypeInv, TypeInv', BeforeImageIsCommitted, NEW c, NEW t, Local(c, t),
           \A k, i : IsVersion(i, k) =>
               \/ /\ LastCommitted(k, Len(log))' = LastCommitted(k, Len(log))
                  /\ Version(k, Len(log))' = Version(k, Len(log))
               \/ ~(LastCommitted(k, Len(log))' < i),
           \A k, i : IsVersion(i, k)' /\ ~IsVersion(i, k) =>
               Version(k, Len(log))' = IF log'[i].abort_known_deleted THEN 0 ELSE log'[i].abort_lsn
    PROVE  BeforeImageIsCommitted'
<1>0. DOMAIN log = 1 .. Len(log) /\ DOMAIN log' = 1 .. Len(log')
  BY DEF TypeInv, LogType
<1>. SUFFICES ASSUME NEW i \in DOMAIN log', NEW k, k = log'[i].key, NEW u, u = log'[i].txn,
                     log'[i].type = "LN", LastCommitted(k, Len(log))' < i,
                     ~IsCommitted(u, Len(log))', Frames(u, "TxnAbort", Len(log))' = {}
              PROVE  Version(k, Len(log))' = IF log'[i].abort_known_deleted THEN 0 ELSE log'[i].abort_lsn
  BY DEF BeforeImageIsCommitted
<1>1. IsVersion(i, k)'
  BY <1>0 DEF IsVersion
<1>2. CASE ~IsVersion(i, k)
  BY <1>1, <1>2
<1>3. CASE IsVersion(i, k)
  <2>1. log'[i] = log[i] /\ i \in DOMAIN log
    BY <1>0, <1>3, VersionsStay DEF IsVersion
  <2>2. /\ LastCommitted(k, Len(log))' = LastCommitted(k, Len(log))
        /\ Version(k, Len(log))' = Version(k, Len(log))
    BY <1>3
  <2>3. Frames(u, "TxnAbort", Len(log)) = {}
    BY OthersFrames
  <2>4. ~IsCommitted(u, Len(log))
    <3>1. u # 0 /\ Frames(u, "TxnCommit", Len(log))' = {}
      BY DEF IsCommitted
    <3>2. Frames(u, "TxnCommit", Len(log)) = {}
      BY <3>1, OthersFrames
    <3>. QED
      BY <3>1, <3>2 DEF IsCommitted
  <2>. QED
    BY <2>1, <2>2, <2>3, <2>4 DEF BeforeImageIsCommitted
<1>. QED
  BY <1>2, <1>3

-----------------------------------------------------------------------------
(* Slots, locks and the log: steps that change a call record only *)

\* The step's transaction is in no other call, before or after.
LEMMA OwnCalls ==
    ASSUME OwnHandles, TypeInv, TypeInv', NEW c \in Callers, NEW t \in Handles[c], NEW d \in Callers
    PROVE  (call[d].txn = t => d = c) /\ (call'[d].txn = t => d = c)
<1>1. t # 0
  BY HandleTxns
<1>2. \A e \in Callers : call[e] = Idle \/ call[e].txn \in Handles[e]
  BY DEF TypeInv, CallType, Shape
<1>3. \A e \in Callers : call'[e] = Idle \/ call'[e].txn \in Handles[e]
  BY DEF TypeInv, CallType, Shape
<1>. QED
  BY <1>1, <1>2, <1>3, IdleFields DEF OwnHandles

\* The commit frames of the step's transaction, when nothing is appended.
LEMMA OwnCommit ==
    ASSUME OwnHandles, TypeInv, TypeInv', NEW c \in Callers, NEW t \in Handles[c], CommitInv(t),
           log' = log, durable <= durable', io_invalid => io_invalid', NEW new, call'[c] = new,
           new.op \in {"Commit", "ResolveCommit"} /\ new.pc \in {"inner", "end"}
               => LNs(t) = {} \/ Commits(t) # {},
           call[c].pc # "sync" \/ io_invalid' \/ durable' = Len(log)
    PROVE  CommitInv(t)'
<1>1. Commits(t)' = Commits(t) /\ LNs(t)' = LNs(t)
  BY FramesKept
<1>2. \A d \in Callers : (call[d].txn = t => d = c) /\ (call'[d].txn = t => d = c)
  BY OwnCalls
<1>3. \A i \in Commits(t) : i \in Nat /\ i <= Len(log)
  BY LogIs DEF Commits, Frames
<1>4. durable \in Nat /\ durable' \in Nat
  BY DEF TypeInv, LogType
<1>5. ASSUME NEW i \in Commits(t)'
      PROVE  i <= durable' \/ ~log'[i].sync \/ io_invalid'
  <2>1. i <= durable \/ ~log[i].sync \/ io_invalid \/ call[c].pc = "sync"
    BY <1>1, <1>2, <1>5 DEF CommitInv
  <2>. QED
    BY <1>1, <1>3, <1>4, <1>5, <2>1
<1>. QED
  BY <1>1, <1>2, <1>5 DEF CommitInv

LEMMA CallKept ==
    ASSUME UNCHANGED <<write_locks, tree, log>>, NEW r, CallInv(r), r.pc # "finalize"
    PROVE  CallInv(r)'
  BY DEF CallInv, Past, Held, Wrote, IsVersion, Recorded, LockId

\* A step that changes its call record, and neither locks, slots nor log.
LEMMA QuietData ==
    ASSUME OwnHandles, TypeInv, TypeInv', DataInv, NEW c \in Callers, NEW t \in Handles[c], NEW new,
           call[c].txn \in {0, t}, new.txn \in {0, t}, call'[c] = new, \A d \in Callers \ {c} : call'[d] = call[d],
           UNCHANGED <<write_locks, tree, log>>, durable <= durable', io_invalid => io_invalid',
           \A u \in Txns \ {t} : inner'[u] = inner[u],
           call[c].pc \notin {"finalize", "apply", "undo"}, new.pc \notin {"finalize", "apply", "undo"},
           CallInv(new), new.want = 0 \/ \A d \in Callers : call[d].pc = "finalize" => new.want # call[d].new,
           io_invalid' \/ (Gone(t) => Gone(t)'),
           new.op \in {"Commit", "ResolveCommit"} /\ new.pc \in {"inner", "end"}
               => LNs(t) = {} \/ Commits(t) # {},
           call[c].pc # "sync" \/ io_invalid' \/ durable' = Len(log)
    PROVE  DataInv'
<1>0. t \in Txns /\ t # 0
  BY HandleTxns
<1>1. call'[c] = new /\ \A d \in Callers \ {c} : call'[d] = call[d]
  OBVIOUS
<1>2. Local(c, t)
  BY <1>1 DEF Local
<1>3. /\ \A u, id : Undone(u, id)' <=> Undone(u, id)
      /\ \A u, i : Finalizing(u, i)' <=> Finalizing(u, i)
      /\ \A u, k, i : Applying(u, k, i)' <=> Applying(u, k, i)
  BY <1>1 DEF Undone, Finalizing, Applying
<1>4. /\ \A u : Held(u)' = Held(u)
      /\ \A u, id : Recorded(u, id)' <=> Recorded(u, id)
      /\ \A u, k, id : Changed(u, k, id)' <=> Changed(u, k, id)
      /\ \A i, k : IsVersion(i, k)' <=> IsVersion(i, k)
      /\ \A u, i, k : Wrote(u, k, i)' <=> Wrote(u, k, i)
  BY <1>3 DEF Held, Recorded, Changed, IsVersion, Wrote
<1>5. ExclusiveInv /\ SlotInv /\ LocksInv /\ CallsInv /\ WroteInv /\ (\A u \in Txns : CommitInv(u))
      /\ (io_invalid \/ \A k \in Keys : VersionInv(k)) /\ BeforeImageIsCommitted
  BY DEF DataInv
<1>6. SlotInv'
  BY <1>4, <1>5 DEF SlotInv
<1>7. ASSUME NEW id \in Held(t)' PROVE InfoInv(t, id)'
  <2>1. InfoInv(t, id)
    BY <1>0, <1>4, <1>5 DEF LocksInv
  <2>. QED
    BY <1>3, <1>4, <2>1 DEF InfoInv
<1>8. CallInv(new)'
  BY CallKept
<1>9. \A u \in Txns \ {t} : Held(t)' \cap Held(u) = {}
  BY <1>0, <1>4, <1>5 DEF ExclusiveInv
<1>10. \A d \in Callers \ {c} : call[d].pc = "finalize" =>
               call[d].new \notin Held(t)' /\ call'[c].want # call[d].new
  <2>. SUFFICES ASSUME NEW d \in Callers, call[d].pc = "finalize"
                PROVE  call[d].new \notin Held(t)' /\ call'[c].want # call[d].new
    OBVIOUS
  <2>1. CallInv(call[d]) /\ call[d].new # 0
    <3>1. call[d].pc # "idle" /\ call[d].pc \in WritePcs
      BY DEF WritePcs
    <3>2. Shape(d, call[d]) /\ call[d] # Idle
      BY <3>1, Busy, IdleFields
    <3>. QED
      BY <1>5, <3>2 DEF CallsInv, Shape, EndPcs
  <2>. QED
    BY <1>0, <1>1, <1>4, <2>1 DEF CallInv
<1>11. ExclusiveInv' /\ LocksInv' /\ CallsInv'
  BY <1>1, <1>2, <1>5, <1>7, <1>8, <1>9, <1>10, LocalStep
<1>12. WroteInv'
  <2>1. io_invalid' \/ \A k, i : Wrote(t, k, i)' =>
               \/ \E id : Recorded(t, id)' /\ write_locks'[t][id].key = k
               \/ Finalizing(t, i)'
               \/ Gone(t)'
    BY <1>0, <1>3, <1>4, <1>5 DEF WroteInv
  <2>. QED
    BY <1>0, <1>2, <1>5, <2>1, LocalWrote
<1>13. \A u \in Txns : CommitInv(u)'
  <2>1. CommitInv(t)'
    BY <1>0, <1>1, <1>5, OwnCommit
  <2>. QED
    BY <1>0, <1>2, <1>5, <2>1, LocalCommit
<1>14. ASSUME NEW k PROVE /\ LastCommitted(k, Len(log))' = LastCommitted(k, Len(log))
                          /\ Version(k, Len(log))' = Version(k, Len(log))
  BY DEF LastCommitted, Version, IsCommitted, Frames
<1>15. io_invalid' \/ \A k \in Keys : VersionInv(k)'
  <2>. SUFFICES ASSUME NEW k \in Keys, VersionInv(k) PROVE VersionInv(k)'
    BY <1>5
  <2>. QED
    BY <1>4, <1>14, VersionKept, FramesKept
<1>16. BeforeImageIsCommitted'
  BY <1>2, <1>4, <1>5, <1>14, BeforeStep
<1>. QED
  BY <1>6, <1>11, <1>12, <1>13, <1>15, <1>16 DEF DataInv

\* The facts about the transaction of a call.
LEMMA OwnFacts ==
    ASSUME OwnHandles, TypeInv, TxnInv, NEW c \in Callers, NEW t \in Handles[c],
           call[c].txn = t \/ call[c] = Idle
    PROVE  Facts(t, call[c])
<1>1. CallOf(t, call[c]) /\ t \in Txns
  BY Mine, HandleTxns
<1>. QED
  BY <1>1 DEF TxnInv

LEMMA IdleInv == CallInv(Idle) /\ CallInv(Idle)' /\ Idle.want = 0
  BY DEF CallInv, Idle, Call, Past, WriteOps

\* The lock on an LN that has just been logged is asked for by no one else.
LEMMA WantFresh ==
    ASSUME TypeInv, SlotInv, CallsInv, NEW c \in Callers, NEW want,
           want \in {0, call[c].want} \/ \E k \in Keys : want \in {LockId(k, tree[k].lsn), -k},
           NEW d \in Callers, call[d].pc = "finalize"
    PROVE  want # call[d].new
<1>1. call[d].pc # "idle" /\ call[d].pc \in WritePcs
  BY DEF WritePcs
<1>2. PICK r : r = call[d]
  OBVIOUS
<1>3. CallInv(r) /\ Past(r) /\ r.key \in Keys /\ r.new \in 1 .. Len(log) /\ r.new \in Nat \ {0}
  <2>1. CallInv(r) /\ Past(r)
    BY <1>2, PcIsPast DEF CallsInv
  <2>2. r.new \in 1 .. Len(log)
    BY <1>2, <2>1 DEF CallInv, Wrote, IsVersion
  <2>. QED
    BY <1>1, <1>2, <2>1, <2>2, Busy
<1>4. want # 0 => want # call[c].want \/ want # r.new
  BY <1>2, <1>3 DEF CallInv
<1>5. ASSUME NEW k \in Keys, want \in {LockId(k, tree[k].lsn), -k}, want = r.new PROVE FALSE
  <2>1. k \in Nat \ {0}
    BY TransactionAssumption
  <2>2. -k # r.new
    BY <1>3, <2>1
  <2>3. tree[k].lsn = r.new /\ IsVersion(r.new, k)
    BY <1>3, <1>5, <2>2 DEF LockId, SlotInv
  <2>4. r.key = k
    BY <1>2, <1>3, <2>3 DEF CallInv, Wrote, IsVersion
  <2>5. r.new = r.old /\ LockId(r.key, r.old) \in Held(r.txn)
    BY <1>3, <2>3, <2>4 DEF CallInv
  <2>6. r.new \in Held(r.txn) /\ r.txn \in Txns
    BY <1>1, <1>2, <1>3, <2>5, Busy DEF LockId
  <2>. QED
    BY <1>2, <1>3, <2>6 DEF CallInv
<1>. QED
  BY <1>2, <1>3, <1>4, <1>5

\* A transaction that has ended stays so.
LEMMA GoneStays ==
    ASSUME OwnHandles, TypeInv, TypeInv', NEW c \in Callers, NEW t \in Handles[c], NEW new, call'[c] = new,
           inner[t] # "Open" => inner'[t] # "Open",
           \/ new.txn # t \/ new.op # "Commit" \/ new.pc \notin {"frame", "sync", "inner"}
           \/ ~Gone(t)
    PROVE  Gone(t) => Gone(t)'
<1>1. \A d \in Callers : (call[d].txn = t => d = c) /\ (call'[d].txn = t => d = c)
  BY OwnCalls
<1>. QED
  BY <1>1 DEF Gone

\* Quiet steps of a write ...
LEMMA QuietWrite ==
    ASSUME OwnHandles, TypeInv, TypeInv', DataInv, NEW c \in Callers, NEW t \in Handles[c], NEW new,
           call[c].txn \in {0, t}, call'[c] = new, \A d \in Callers \ {c} : call'[d] = call[d],
           UNCHANGED <<write_locks, tree, wal>>,
           \A u \in Txns \ {t} : inner'[u] = inner[u], inner[t] # "Open" => inner'[t] # "Open",
           call[c].pc \in {"idle", "slot", "lock", "wait", "recheck", "exists", "log"},
           \/ new = Idle
           \/ /\ new.txn = t /\ new.op \in WriteOps
              /\ new.pc \in {"slot", "lock", "wait", "recheck", "exists", "log"} /\ CallInv(new)
              /\ new.want \in {0, call[c].want} \/ \E k \in Keys : new.want \in {LockId(k, tree[k].lsn), -k}
    PROVE  DataInv'
<1>1. SlotInv /\ CallsInv
  BY DEF DataInv
<1>2. CallInv(new) /\ new.txn \in {0, t} /\ new.op \in WriteOps \cup {"none"}
      /\ new.pc \notin {"finalize", "apply", "undo"}
  BY IdleInv, IdleFields
<1>3. \A d \in Callers : call[d].pc = "finalize" => new.want # call[d].new
  BY <1>1, IdleInv, WantFresh
<1>4. call'[c] = new /\ \A d \in Callers \ {c} : call'[d] = call[d]
  OBVIOUS
<1>5. new.op \notin {"Commit", "ResolveCommit"}
  BY <1>2 DEF WriteOps
<1>6. Gone(t) => Gone(t)'
  BY <1>4, <1>5, GoneStays
<1>7. UNCHANGED <<write_locks, tree, log>> /\ durable <= durable' /\ (io_invalid => io_invalid')
  BY LogIs DEF wal
<1>8. call[c].pc \notin {"finalize", "apply", "undo"} /\ call[c].pc # "sync"
  OBVIOUS
<1>. QED
  BY <1>2, <1>3, <1>4, <1>5, <1>6, <1>7, <1>8, QuietData

\* StartWrite.
LEMMA StartWriteData ==
    ASSUME OwnHandles, TypeInv, TypeInv', DataInv, NEW c \in Callers, StartWrite(c)
    PROVE  DataInv'
<1>1. PICK t \in Handles[c], k \in Keys, op \in WriteOps :
         call' = [call EXCEPT ![c] = [Call(op, t, "slot") EXCEPT !.key = k]]
  BY DEF StartWrite
<1> DEFINE new == [Call(op, t, "slot") EXCEPT !.key = k]
<1>2. new.op = op /\ new.pc = "slot" /\ new.txn = t /\ new.want = 0
  BY DEF Call
<1>3. call[c] = Idle
  BY IdleCall DEF StartWrite
<1>4. UNCHANGED <<write_locks, inner, tree, wal>> /\ call' = [call EXCEPT ![c] = new]
  BY <1>1 DEF StartWrite, handle
<1>. HIDE DEF new
<1>5. CallInv(new)
  BY <1>2 DEF CallInv, Past
<1>6. call'[c] = new /\ \A d \in Callers \ {c} : call'[d] = call[d]
  BY <1>4, LogIs
<1>7. UNCHANGED <<write_locks, tree, wal>> /\ (\A u \in Txns \ {t} : inner'[u] = inner[u]) /\ inner' = inner
  BY <1>4
<1>. QED
  BY <1>2, <1>3, <1>5, <1>6, <1>7, IdleFields, QuietWrite

\* The reads of the slot.  What is read under the lock stays true because of the lock.
LEMMA ReadData ==
    ASSUME OwnHandles, TypeInv, TypeInv', DataInv, NEW c \in Callers,
           ReadSlot(c) \/ RecheckPut(c) \/ RecheckInsert(c) \/ RecheckDelete(c)
    PROVE  DataInv'
<1>1. PICK r : r = call[c]
  OBVIOUS
<1>2. PICK t, k : t = r.txn /\ k = r.key
  OBVIOUS
<1>3. /\ r.pc \in {"slot", "recheck", "exists"} /\ r.op \in WriteOps
      /\ t \in Handles[c] /\ t \in Txns /\ k \in Keys /\ r \in CallRecord(Len(log))
  <2>1. r.pc \in {"slot", "recheck", "exists"}
    BY <1>1 DEF ReadSlot, RecheckPut, RecheckInsert, RecheckDelete
  <2>. QED
    BY <1>1, <1>2, <2>1, Busy DEF WritePcs
<1>4. UNCHANGED <<write_locks, inner, tree, wal>> /\ DOMAIN call = Callers
  BY LogIs DEF ReadSlot, RecheckPut, RecheckInsert, RecheckDelete, handle
<1>5. CallInv(r) /\ tree[k].exists \in BOOLEAN
  BY <1>1, <1>3 DEF DataInv, CallsInv, TypeInv, TreeType
<1>6. PICK old, exists, want : old = tree[k].lsn /\ exists = tree[k].exists /\ want = LockId(k, tree[k].lsn)
  OBVIOUS
<1>8. PICK new : /\ call' = [call EXCEPT ![c] = new]
               /\ \/ new = Idle
                  \/ /\ new.txn = t /\ new.op \in WriteOps
                     /\ new.pc \in {"slot", "lock", "wait", "recheck", "exists", "log"} /\ CallInv(new)
                     /\ new.want \in {0, r.want} \/ \E q \in Keys : new.want \in {LockId(q, tree[q].lsn), -q}
  <2>1. CASE ReadSlot(c) /\ ~Return(c)
    <3>1. call' = [call EXCEPT ![c].old = old, ![c].exists = exists, ![c].want = want,
                               ![c].then = "recheck", ![c].pc = "lock"]
      BY <1>1, <1>2, <1>6, <2>1 DEF ReadSlot
    <3> DEFINE new == [r EXCEPT !.old = old, !.exists = exists, !.want = want,
                                !.then = "recheck", !.pc = "lock"]
    <3>2. call' = [call EXCEPT ![c] = new]
      BY <1>1, <1>4, <3>1
    <3>3. new.op = r.op /\ new.txn = r.txn /\ new.key = r.key /\ new.pc = "lock" /\ new.want = want
          /\ new.then = "recheck" /\ new.old = old /\ new.exists = exists
      BY <1>3 DEF CallRecord
    <3>. HIDE DEF new
    <3>4. r.op = "Delete" => exists
      BY <1>1, <1>2, <1>5, <1>6, <2>1 DEF ReadSlot, KeyExists
    <3>5. CallInv(new)
      BY <1>2, <1>6, <3>3, <3>4 DEF CallInv, Past
    <3>. QED
      BY <1>2, <1>3, <1>6, <3>2, <3>3, <3>5
  <2>2. CASE RecheckPut(c) /\ ~Goto(c, "slot")
    <3>0. PICK pc \in {"exists", "log"} : pc = IF r.op = "Insert" THEN "exists" ELSE "log"
      OBVIOUS
    <3>1. call' = [call EXCEPT ![c].old = old, ![c].exists = exists, ![c].pc = pc] /\ want = r.want
          /\ r.pc = "recheck"
      BY <1>1, <1>2, <1>6, <2>2, <3>0 DEF RecheckPut
    <3> DEFINE new == [r EXCEPT !.old = old, !.exists = exists, !.pc = pc]
    <3>2. call' = [call EXCEPT ![c] = new]
      BY <1>1, <1>4, <3>1
    <3>3. new.op = r.op /\ new.txn = r.txn /\ new.key = r.key /\ new.pc = pc /\ new.want = r.want
          /\ new.old = old /\ new.exists = exists
      BY <1>3 DEF CallRecord
    <3>. HIDE DEF new
    <3>4. want \in Held(t)
      BY <1>2, <1>5, <3>1 DEF CallInv
    <3>5. CallInv(new)
      BY <1>2, <1>6, <3>0, <3>3, <3>4 DEF CallInv, Past
    <3>. QED
      BY <1>2, <1>3, <1>6, <3>2, <3>3, <3>5
  <2>3. CASE RecheckPut(c) /\ Goto(c, "slot")
    <3> DEFINE new == [r EXCEPT !.pc = "slot"]
    <3>1. call' = [call EXCEPT ![c] = new]
      BY <1>1, <2>3, GotoIs
    <3>2. new.op = r.op /\ new.txn = r.txn /\ new.pc = "slot" /\ new.want = r.want
      BY <1>3 DEF CallRecord
    <3>. HIDE DEF new
    <3>3. CallInv(new)
      BY <3>2 DEF CallInv, Past
    <3>. QED
      BY <1>2, <1>3, <3>1, <3>2, <3>3
  <2>4. CASE RecheckInsert(c) /\ ~Return(c)
    <3>1. Goto(c, "log") /\ ~tree[k].exists /\ r.pc = "exists"
      BY <1>1, <1>2, <2>4 DEF RecheckInsert, KeyExists
    <3> DEFINE new == [r EXCEPT !.pc = "log"]
    <3>2. call' = [call EXCEPT ![c] = new]
      BY <1>1, <3>1, GotoIs
    <3>3. new.op = r.op /\ new.txn = r.txn /\ new.key = r.key /\ new.pc = "log" /\ new.want = r.want
          /\ new.old = r.old /\ new.exists = r.exists
      BY <1>3 DEF CallRecord
    <3>. HIDE DEF new
    <3>4. Past(r)
      BY <1>3, <3>1 DEF Past
    <3>5. CallInv(new)
      BY <1>2, <1>5, <3>1, <3>3, <3>4 DEF CallInv, Past
    <3>. QED
      BY <1>2, <1>3, <3>2, <3>3, <3>5
  <2>5. CASE RecheckDelete(c) /\ ~Return(c)
    <3>1. /\ call' = [call EXCEPT ![c].want = -k, ![c].then = "log", ![c].pc = "lock"]
          /\ tree[k].exists /\ tree[k].lsn = r.old /\ r.op = "Delete" /\ r.pc = "recheck"
      BY <1>1, <1>2, <2>5 DEF RecheckDelete
    <3> DEFINE new == [r EXCEPT !.want = -k, !.then = "log", !.pc = "lock"]
    <3>2. call' = [call EXCEPT ![c] = new]
      BY <1>1, <1>4, <3>1
    <3>3. new.op = r.op /\ new.txn = r.txn /\ new.key = r.key /\ new.pc = "lock" /\ new.want = -k
          /\ new.then = "log" /\ new.old = r.old /\ new.exists = r.exists
      BY <1>3 DEF CallRecord
    <3>. HIDE DEF new
    <3>4. r.exists /\ r.want = LockId(k, r.old) /\ r.want \in Held(t)
      BY <1>2, <1>5, <3>1 DEF CallInv
    <3>5. r.exists \in BOOLEAN
      BY <1>3 DEF CallRecord
    <3>6. CallInv(new)
      BY <1>2, <1>5, <3>1, <3>3, <3>4, <3>5 DEF CallInv, Past
    <3>. QED
      BY <1>2, <1>3, <3>2, <3>3, <3>6
  <2>6. CASE Return(c)
    BY <2>6 DEF Return
  <2>. QED
    BY <2>1, <2>2, <2>3, <2>4, <2>5, <2>6
<1>9. call'[c] = new /\ \A d \in Callers \ {c} : call'[d] = call[d]
  BY <1>4, <1>8
<1>10. UNCHANGED <<write_locks, tree, wal>> /\ (\A u \in Txns \ {t} : inner'[u] = inner[u]) /\ inner' = inner
  BY <1>4
<1>. QED
  BY <1>1, <1>2, <1>3, <1>8, <1>9, <1>10, QuietWrite

\* ... and of an end.
LEMMA QuietEnd ==
    ASSUME OwnHandles, TypeInv, TypeInv', DataInv, NEW c \in Callers, NEW t \in Handles[c], NEW new,
           call[c].txn \in {0, t}, call'[c] = new, \A d \in Callers \ {c} : call'[d] = call[d],
           UNCHANGED <<inner, write_locks, tree, log, io_invalid>>, durable <= durable',
           call[c].pc \in {"idle", "frame", "sync", "inner", "end"},
           \/ new = Idle
           \/ /\ new.txn = t /\ new.op \in EndOps \cup {"Prepare"}
              /\ new.pc \in {"frame", "sync", "inner", "end", "collect"} /\ new.want \in {0, call[c].want}
              /\ new.op = "Commit" => ~Gone(t)
              /\ new.op \in {"Commit", "ResolveCommit"} /\ new.pc \in {"inner", "end"}
                    => LNs(t) = {} \/ Commits(t) # {},
           call[c].pc # "sync" \/ io_invalid \/ durable' = Len(log)
    PROVE  DataInv'
<1>1. SlotInv /\ CallsInv
  BY DEF DataInv
<1>2. CallInv(new) /\ new.txn \in {0, t} /\ new.pc \notin {"finalize", "apply", "undo"}
      /\ new.want \in {0, call[c].want}
  <2>1. CASE new = Idle
    BY <2>1, IdleInv, IdleFields
  <2>2. CASE new # Idle
    BY <2>2 DEF CallInv, Past, WriteOps, EndOps
  <2>. QED
    BY <2>1, <2>2
<1>3. \A d \in Callers : call[d].pc = "finalize" => new.want # call[d].new
  BY <1>1, <1>2, WantFresh
<1>4. new.op = "Commit" => ~Gone(t)
  BY IdleFields
<1>5. new.op \in {"Commit", "ResolveCommit"} /\ new.pc \in {"inner", "end"} => LNs(t) = {} \/ Commits(t) # {}
  BY IdleFields
<1>6. Gone(t) => Gone(t)'
  BY <1>4, GoneStays
<1>7. UNCHANGED <<write_locks, tree, log>> /\ (io_invalid => io_invalid') /\ (\A u \in Txns \ {t} : inner'[u] = inner[u])
  OBVIOUS
<1>8. call[c].pc \notin {"finalize", "apply", "undo"} /\ (call[c].pc # "sync" \/ io_invalid' \/ durable' = Len(log))
  OBVIOUS
<1>. QED
  BY <1>2, <1>3, <1>5, <1>6, <1>7, <1>8, QuietData

\* A call that fails with nothing done, on a failed log or a transaction that has ended.
LEMMA FailData ==
    ASSUME OwnHandles, TypeInv, TypeInv', DataInv, NEW c \in Callers, Return(c),
           call[c].pc \in {"slot", "lock", "wait", "recheck", "exists", "log", "frame", "sync", "inner", "end"},
           UNCHANGED <<inner, write_locks, tree, wal>>, call[c].pc # "sync" \/ io_invalid
    PROVE  DataInv'
<1>1. PICK t \in Handles[c] : t = call[c].txn
  BY Busy
<1>2. call'[c] = Idle /\ \A d \in Callers \ {c} : call'[d] = call[d]
  BY LogIs DEF Return
<1>3. UNCHANGED <<write_locks, tree, log, io_invalid>> /\ durable <= durable'
  BY LogIs DEF wal
<1>4. CASE call[c].pc \in {"frame", "sync", "inner", "end"}
  BY <1>1, <1>2, <1>3, <1>4, QuietEnd
<1>5. CASE call[c].pc \in {"slot", "lock", "wait", "recheck", "exists", "log"}
  <2>1. UNCHANGED <<write_locks, tree, wal>> /\ (\A u \in Txns \ {t} : inner'[u] = inner[u]) /\ inner' = inner
    OBVIOUS
  <2>. QED
    BY <1>1, <1>2, <1>5, <2>1, QuietWrite
<1>. QED
  BY <1>4, <1>5

\* The start of a commit, a prepare, a resolution or an abort on a sound log.
LEMMA StartEndData ==
    ASSUME OwnHandles, TypeInv, TypeInv', TxnInv, DataInv, NEW c \in Callers,
           StartCommit(c) \/ StartPrepare(c) \/ StartResolve(c) \/ (StartAbort(c) /\ ~io_invalid)
    PROVE  DataInv'
<1>1. call[c] = Idle /\ DOMAIN call = Callers
  BY IdleCall, LogIs DEF StartCommit, StartPrepare, StartResolve, StartAbort
<1>2. UNCHANGED <<inner, write_locks, tree, log, io_invalid>> /\ durable <= durable'
  BY LogIs DEF StartCommit, StartPrepare, StartResolve, StartAbort, CheckEnv, handle, wal
<1>3. \E t, new :
          /\ t \in Handles[c] /\ call' = [call EXCEPT ![c] = new] /\ new.txn = t /\ new.want = 0
          /\ new.op \in EndOps \cup {"Prepare"} /\ new.pc \in {"frame", "inner", "collect"}
          /\ new.op = "Commit" => CheckOpen(t) /\ (new.pc = "inner" => ~HasLoggedData(t))
          /\ new.op = "ResolveCommit" => new.pc = "frame"
  <2>1. \A op, t, pc, sync :
           LET new == [Call(op, t, pc) EXCEPT !.sync = sync] IN
           new.txn = t /\ new.want = 0 /\ new.op = op /\ new.pc = pc
    BY DEF Call
  <2>2. CASE StartCommit(c)
    <3>1. PICK t \in Handles[c], policy \in Policies :
             /\ CheckOpen(t)
             /\ call' = [call EXCEPT ![c] =
                   [Call("Commit", t, IF HasLoggedData(t) THEN "frame" ELSE "inner")
                       EXCEPT !.sync = policy = "Sync"]]
      BY <2>2 DEF StartCommit
    <3>2. PICK pc : pc = IF HasLoggedData(t) THEN "frame" ELSE "inner"
      OBVIOUS
    <3> DEFINE new == [Call("Commit", t, pc) EXCEPT !.sync = policy = "Sync"]
    <3>3. call' = [call EXCEPT ![c] = new]
      BY <3>1, <3>2
    <3>4. new.txn = t /\ new.want = 0 /\ new.op = "Commit" /\ new.pc = pc
      BY <2>1
    <3>. HIDE DEF new
    <3>. QED
      BY <3>1, <3>2, <3>3, <3>4 DEF EndOps
  <2>3. CASE StartPrepare(c)
    <3>1. PICK t \in Handles[c] :
             call' = [call EXCEPT ![c] =
                   [Call("Prepare", t, IF HasLoggedData(t) THEN "frame" ELSE "inner")
                       EXCEPT !.sync = TRUE]]
      BY <2>3 DEF StartPrepare
    <3>2. PICK pc : pc = IF HasLoggedData(t) THEN "frame" ELSE "inner"
      OBVIOUS
    <3> DEFINE new == [Call("Prepare", t, pc) EXCEPT !.sync = TRUE]
    <3>3. call' = [call EXCEPT ![c] = new]
      BY <3>1, <3>2
    <3>4. new.txn = t /\ new.want = 0 /\ new.op = "Prepare" /\ new.pc = pc
      BY <2>1
    <3>. HIDE DEF new
    <3>. QED
      BY <3>1, <3>2, <3>3, <3>4
  <2>4. CASE StartResolve(c)
    <3>1. PICK t \in Handles[c], op \in {"ResolveCommit", "ResolveAbort"} :
             call' = [call EXCEPT ![c] = [Call(op, t, "frame") EXCEPT !.sync = TRUE]]
      BY <2>4 DEF StartResolve
    <3> DEFINE new == [Call(op, t, "frame") EXCEPT !.sync = TRUE]
    <3>3. call' = [call EXCEPT ![c] = new]
      BY <3>1
    <3>4. new.txn = t /\ new.want = 0 /\ new.op = op /\ new.pc = "frame"
      BY <2>1
    <3>. HIDE DEF new
    <3>. QED
      BY <3>1, <3>3, <3>4 DEF EndOps
  <2>5. CASE StartAbort(c) /\ ~io_invalid
    <3>1. PICK t \in Handles[c] :
             call' = [call EXCEPT ![c] = Call("Abort", t, IF HasLoggedData(t) THEN "frame" ELSE "collect")]
      BY <2>5 DEF StartAbort, CheckEnv
    <3>2. PICK pc : pc = IF HasLoggedData(t) THEN "frame" ELSE "collect"
      OBVIOUS
    <3> DEFINE new == Call("Abort", t, pc)
    <3>3. call' = [call EXCEPT ![c] = new]
      BY <3>1, <3>2
    <3>4. new.txn = t /\ new.want = 0 /\ new.op = "Abort" /\ new.pc = pc
      BY DEF Call
    <3>. HIDE DEF new
    <3>. QED
      BY <3>1, <3>2, <3>3, <3>4 DEF EndOps
  <2>. QED
    BY <2>2, <2>3, <2>4, <2>5
<1>4. PICK t, new :
          /\ t \in Handles[c] /\ call' = [call EXCEPT ![c] = new] /\ new.txn = t /\ new.want = 0
          /\ new.op \in EndOps \cup {"Prepare"} /\ new.pc \in {"frame", "inner", "collect"}
          /\ new.op = "Commit" => CheckOpen(t) /\ (new.pc = "inner" => ~HasLoggedData(t))
          /\ new.op = "ResolveCommit" => new.pc = "frame"
  BY <1>3
<1>5. call'[c] = new /\ \A d \in Callers \ {c} : call'[d] = call[d]
  BY <1>1, <1>4
<1>6. ASSUME new.op = "Commit" PROVE ~Gone(t) /\ (new.pc = "inner" => LNs(t) = {})
  <2>1. Facts(t, Idle)
    BY <1>1, <1>4, OwnFacts
  <2>2. inner[t] = "Open"
    BY <1>4, <1>6, <2>1, IdleFields DEF Facts, HandleInv, CheckOpen, Late, EndOps
  <2>3. ~Gone(t)
    BY <2>2 DEF Gone
  <2>4. new.pc = "inner" => LNs(t) = {}
    BY <1>4, <1>6, <2>1, <2>2, IdleFields DEF Facts, LogInv, HasLoggedData
  <2>. QED
    BY <2>3, <2>4
<1>. QED
  BY <1>1, <1>2, <1>4, <1>5, <1>6, IdleFields, QuietEnd

\* End.
LEMMA EndData ==
    ASSUME OwnHandles, TypeInv, TypeInv', DataInv, NEW c \in Callers, End(c)
    PROVE  DataInv'
<1>1. Return(c) /\ call[c].pc = "end" /\ UNCHANGED <<inner, write_locks, tree, wal>>
  BY DEF End, Finish
<1>. QED
  BY <1>1, FailData

\* PrepareInner.
LEMMA PrepareInnerData ==
    ASSUME OwnHandles, TypeInv, TypeInv', DataInv, NEW c \in Callers, PrepareInner(c)
    PROVE  DataInv'
<1>1. call[c].pc = "inner" /\ call[c].op = "Prepare" /\ UNCHANGED <<inner, write_locks, tree, wal>>
      /\ (Return(c) \/ Goto(c, "end"))
  BY DEF PrepareInner
<1>2. CASE Return(c)
  BY <1>1, <1>2, FailData
<1>3. CASE Goto(c, "end")
  <2>1. PICK t \in Handles[c] : t = call[c].txn
    BY <1>1, Busy
  <2>2. PICK r \in CallRecord(Len(log)) : r = call[c]
    BY <1>1, Busy
  <2> DEFINE new == [r EXCEPT !.pc = "end"]
  <2>3. call' = [call EXCEPT ![c] = new]
    BY <1>3, <2>2, GotoIs
  <2>4. new.op = "Prepare" /\ new.txn = t /\ new.pc = "end" /\ new.want = r.want
    BY <1>1, <2>1, <2>2 DEF CallRecord
  <2>. HIDE DEF new
  <2>5. call'[c] = new /\ \A d \in Callers \ {c} : call'[d] = call[d]
    BY <2>3, LogIs
  <2>6. UNCHANGED <<inner, write_locks, tree, log, io_invalid>> /\ durable <= durable'
    BY <1>1, LogIs DEF wal
  <2>. QED
    BY <1>1, <2>1, <2>2, <2>4, <2>5, <2>6, QuietEnd
<1>. QED
  BY <1>1, <1>2, <1>3

\* SyncFrame: the commit frame becomes durable before the locks go.
LEMMA SyncFrameData ==
    ASSUME OwnHandles, TypeInv, TypeInv', TxnInv, DataInv, NEW c \in Callers, SyncFrame(c)
    PROVE  DataInv'
<1>1. call[c].pc = "sync" /\ UNCHANGED <<inner, write_locks, tree, log, io_invalid>>
  BY DEF SyncFrame, handle
<1>2. CASE io_invalid
  <2>1. Return(c) /\ UNCHANGED <<inner, write_locks, tree, wal>>
    BY <1>2 DEF SyncFrame, wal, handle
  <2>. QED
    BY <1>1, <1>2, <2>1, FailData
<1>3. CASE ~io_invalid
  <2>1. PICK t \in Handles[c] : t = call[c].txn
    BY <1>1, Busy
  <2>2. PICK r \in CallRecord(Len(log)) : r = call[c]
    BY <1>1, Busy
  <2>3. r.op \in EndOps \cup {"Prepare"}
    BY <1>1, <2>2, Busy DEF EndPcs
  <2>4. PICK pc : pc = AfterFrame(r.op)
    OBVIOUS
  <2>5. pc \in {"inner", "collect"}
    BY <2>4 DEF AfterFrame
  <2> DEFINE new == [r EXCEPT !.pc = pc]
  <2>6. call' = [call EXCEPT ![c] = new]
    <3>1. Goto(c, pc)
      BY <1>3, <2>2, <2>4 DEF SyncFrame
    <3>. QED
      BY <2>2, <3>1, GotoIs
  <2>7. new.op = r.op /\ new.txn = t /\ new.pc = pc /\ new.want = r.want
    BY <2>1, <2>2 DEF CallRecord
  <2>. HIDE DEF new
  <2>8. call'[c] = new /\ \A d \in Callers \ {c} : call'[d] = call[d]
    BY <2>6, LogIs
  <2>9. durable' = Len(log) /\ durable <= durable'
    BY <1>3, LogIs DEF SyncFrame
  <2>10. r.op = "Commit" => ~Gone(t)
    BY <1>1, <2>1, <2>2 DEF Gone
  <2>11. r.op \in {"Commit", "ResolveCommit"} => Commits(t) # {}
    <3>1. Facts(t, r)
      BY <2>1, <2>2, OwnFacts
    <3>. QED
      BY <1>1, <2>2, <3>1 DEF Facts, LogInv
  <2>. QED
    BY <1>1, <2>1, <2>2, <2>3, <2>5, <2>7, <2>8, <2>9, <2>10, <2>11, QuietEnd
<1>. QED
  BY <1>2, <1>3

-----------------------------------------------------------------------------
(* Slots, locks and the log: locks and writes *)

\* The LSN of an LN whose lock is not yet moved is locked and wanted by nobody.
LEMMA FinalizerNew ==
    ASSUME TypeInv, CallsInv, NEW d \in Callers, call[d].pc = "finalize"
    PROVE  /\ CallInv(call[d]) /\ call[d].new # 0
           /\ \A t \in Txns : call[d].new \notin Held(t)
           /\ \A c \in Callers : call[c].want # call[d].new
<1>1. CallInv(call[d])
  BY DEF CallsInv
<1>2. call[d].new \in 1 .. Len(log)
  BY <1>1 DEF CallInv, Wrote, IsVersion
<1>. QED
  BY <1>1, <1>2, LogIs DEF CallInv

\* A lock is granted.
LEMMA GrantData ==
    ASSUME OwnHandles, TypeInv, TypeInv', DataInv, NEW c \in Callers, call[c].pc \in {"lock", "wait"},
           NEW t, t = call[c].txn, NEW id, id = call[c].want, ~Conflict(t, id),
           write_locks' = [write_locks EXCEPT ![t] = Tracked(@, id)],
           Goto(c, call[c].then), UNCHANGED <<inner, tree, wal>>
    PROVE  DataInv'
<1>0. t \in Txns /\ t # 0 /\ t \in Handles[c]
  BY Busy
<1>1. PICK r \in CallRecord(Len(log)) : r = call[c]
  BY Busy
<1>2. r.op \in WriteOps /\ r.then \in {"recheck", "log"} /\ r.key \in Keys /\ r.txn = t /\ r.want = id
  <2>1. Shape(c, r) /\ r # Idle /\ r.then \in {"idle", "recheck", "log"}
    BY <1>1, Busy, IdleFields DEF CallRecord
  <2>. QED
    BY <1>1, <2>1 DEF Shape, EndPcs
<1>3. PICK new : new = [r EXCEPT !.pc = r.then]
  OBVIOUS
<1>4. /\ new.pc = r.then /\ new.op = r.op /\ new.txn = t /\ new.key = r.key /\ new.want = id
      /\ new.then = r.then /\ new.old = r.old /\ new.exists = r.exists
  BY <1>2, <1>3 DEF CallRecord
<1>5. call'[c] = new /\ \A d \in Callers \ {c} : call'[d] = call[d]
  <2>1. call' = [call EXCEPT ![c] = new]
    BY <1>1, <1>3, GotoIs
  <2>. QED
    BY <2>1, LogIs
<1>6. /\ \A u \in Txns \ {t} : write_locks'[u] = write_locks[u]
      /\ write_locks'[t] = Tracked(write_locks[t], id)
  BY <1>0, LogIs
<1>7. log' = log /\ durable' = durable /\ io_invalid' = io_invalid /\ tree' = tree /\ inner' = inner
      /\ durable <= durable'
  BY LogIs DEF wal
<1>8. Local(c, t)
  BY <1>2, <1>1, <1>4, <1>5, <1>6, <1>7 DEF Local
<1>9. /\ Held(t)' = Held(t) \cup {id}
      /\ \A i \in Held(t) : write_locks'[t][i] = write_locks[t][i]
      /\ id \notin Held(t) => write_locks'[t][id] = WriteLockInfo
  <2>1. PICK locks : locks = write_locks[t]
    OBVIOUS
  <2>2. PICK next : next = write_locks'[t]
    OBVIOUS
  <2>3. next = Tracked(locks, id)
    BY <1>6, <2>1, <2>2
  <2>4. /\ DOMAIN next = DOMAIN locks \cup {id}
        /\ \A i \in DOMAIN locks : next[i] = locks[i]
        /\ id \notin DOMAIN locks => next[id] = WriteLockInfo
    BY <2>3 DEF Tracked
  <2>. QED
    BY <2>1, <2>2, <2>4 DEF Held
<1>10. /\ \A u, i : Undone(u, i)' <=> Undone(u, i)
       /\ \A u, i : Finalizing(u, i)' <=> Finalizing(u, i)
       /\ \A u, k, i : Applying(u, k, i)' <=> Applying(u, k, i)
  <2>1. r.pc \notin {"undo", "finalize", "apply"} /\ new.pc \notin {"undo", "finalize", "apply"}
    BY <1>1, <1>2, <1>4
  <2>. QED
    BY <1>1, <1>5, <2>1 DEF Undone, Finalizing, Applying
<1>11. \A u \in Txns : \A i : Recorded(u, i)' <=> Recorded(u, i)
  <2>1. \A i : Recorded(t, i)' <=> Recorded(t, i)
    BY <1>9 DEF Recorded, Held, WriteLockInfo
  <2>. QED
    BY <1>6, <2>1 DEF Recorded
<1>12. \A u \in Txns : \A i : Recorded(u, i) => write_locks'[u][i] = write_locks[u][i]
  BY <1>6, <1>9 DEF Recorded, Held
<1>13. \A u \in Txns : \A k, i : Changed(u, k, i)' <=> Changed(u, k, i)
  BY <1>10, <1>11, <1>12 DEF Changed
<1>14. /\ \A i, k : IsVersion(i, k)' <=> IsVersion(i, k)
       /\ \A u, i, k : Wrote(u, k, i)' <=> Wrote(u, k, i)
  BY <1>7 DEF IsVersion, Wrote
<1>15. ExclusiveInv /\ SlotInv /\ LocksInv /\ CallsInv /\ WroteInv /\ (\A u \in Txns : CommitInv(u))
      /\ (io_invalid \/ \A k \in Keys : VersionInv(k)) /\ BeforeImageIsCommitted
  BY DEF DataInv
<1>16. SlotInv'
  BY <1>7, <1>14, <1>15 DEF SlotInv
<1>17. ASSUME NEW i \in Held(t)' PROVE InfoInv(t, i)'
  <2>1. CASE i \in Held(t)
    <3>1. InfoInv(t, i)
      BY <1>0, <1>15, <2>1 DEF LocksInv
    <3>2. write_locks'[t][i] = write_locks[t][i]
      BY <1>9, <2>1
    <3>. QED
      BY <1>7, <1>10, <1>14, <3>1, <3>2 DEF InfoInv
  <2>2. CASE i \notin Held(t)
    <3>1. write_locks'[t][i] = WriteLockInfo
      BY <1>9, <1>17, <2>2
    <3>2. /\ write_locks'[t][i].never_locked /\ ~write_locks'[t][i].abort_known_deleted
          /\ write_locks'[t][i].abort_lsn = 0
      BY <3>1 DEF WriteLockInfo
    <3>. QED
      BY <3>2 DEF InfoInv
  <2>. QED
    BY <2>1, <2>2
<1>18. CallInv(new)'
  <2>0. CallInv(r)
    BY <1>1, <1>15 DEF CallsInv
  <2>1. Held(t) \subseteq Held(t)' /\ id \in Held(t)'
    BY <1>9
  <2>2. CASE r.then = "recheck"
    <3>1. r.want = LockId(r.key, r.old) /\ (r.op = "Delete" => r.exists)
      BY <1>1, <2>0, <2>2 DEF CallInv
    <3>. QED
      BY <1>2, <1>4, <2>1, <2>2, <3>1 DEF CallInv, Past, LockId
  <2>3. CASE r.then = "log"
    <3>1. r.op = "Delete" /\ Past(r)
      BY <1>1, <1>2, <2>0, <2>3 DEF CallInv, Past
    <3>2. LockId(r.key, r.old) \in Held(t) /\ tree[r.key].lsn = r.old /\ tree[r.key].exists = r.exists
      BY <1>2, <2>0, <3>1 DEF CallInv
    <3>. QED
      BY <1>4, <1>7, <2>1, <2>3, <3>1, <3>2 DEF CallInv, Past, LockId
  <2>. QED
    BY <1>2, <2>2, <2>3
<1>19. \A u \in Txns \ {t} : Held(t)' \cap Held(u) = {}
  BY <1>0, <1>9, <1>15 DEF ExclusiveInv, Conflict, Held
<1>20. \A d \in Callers \ {c} : call[d].pc = "finalize" =>
               call[d].new \notin Held(t)' /\ call'[c].want # call[d].new
  BY <1>0, <1>4, <1>5, <1>9, <1>15, FinalizerNew
<1>21. ExclusiveInv' /\ LocksInv' /\ CallsInv'
  BY <1>0, <1>5, <1>8, <1>15, <1>17, <1>18, <1>19, <1>20, LocalStep
<1>22. WroteInv'
  <2>0. new.op # "Commit"
    BY <1>2, <1>4 DEF WriteOps
  <2>1. Gone(t) => Gone(t)'
    BY <1>0, <1>5, <1>7, <2>0, GoneStays
  <2>2. io_invalid' \/ \A k, i : Wrote(t, k, i)' =>
               \/ \E j : Recorded(t, j)' /\ write_locks'[t][j].key = k
               \/ Finalizing(t, i)'
               \/ Gone(t)'
    BY <1>0, <1>7, <1>10, <1>11, <1>12, <1>14, <1>15, <2>1 DEF WroteInv
  <2>. QED
    BY <1>0, <1>8, <1>15, <2>2, LocalWrote
<1>23. \A u \in Txns : CommitInv(u)'
  <2>0. new.op \notin {"Commit", "ResolveCommit"} /\ call[c].pc # "sync"
    BY <1>2, <1>4 DEF WriteOps
  <2>1. CommitInv(t)'
    BY <1>0, <1>5, <1>7, <1>15, <2>0, OwnCommit
  <2>. QED
    BY <1>0, <1>8, <1>15, <2>1, LocalCommit
<1>24. ASSUME NEW k PROVE /\ LastCommitted(k, Len(log))' = LastCommitted(k, Len(log))
                          /\ Version(k, Len(log))' = Version(k, Len(log))
  BY <1>7 DEF LastCommitted, Version, IsCommitted, Frames
<1>25. io_invalid' \/ \A k \in Keys : VersionInv(k)'
  <2>. SUFFICES ASSUME NEW k \in Keys, VersionInv(k) PROVE VersionInv(k)'
    BY <1>7, <1>15
  <2>1. \A u \in Txns : \A i : /\ Changed(u, k, i)' <=> Changed(u, k, i)
                               /\ Changed(u, k, i) => /\ write_locks'[u][i] = write_locks[u][i]
                                                      /\ Commits(u)' = {} <=> Commits(u) = {}
    <3>1. \A u : Commits(u)' = Commits(u)
      BY <1>7, FramesKept
    <3>2. \A u \in Txns : \A i : Changed(u, k, i) => Recorded(u, i)
      BY DEF Changed
    <3>. QED
      BY <1>12, <1>13, <3>1, <3>2
  <2>2. tree'[k] = tree[k]
    BY <1>7
  <2>. QED
    BY <1>24, <2>1, <2>2, VersionKept
<1>26. BeforeImageIsCommitted'
  BY <1>8, <1>14, <1>15, <1>24, BeforeStep
<1>. QED
  BY <1>16, <1>21, <1>22, <1>23, <1>25, <1>26 DEF DataInv

\* Lock.
LEMMA LockData ==
    ASSUME OwnHandles, TypeInv, TypeInv', DataInv, NEW c \in Callers, Lock(c)
    PROVE  DataInv'
<1>1. PICK t, id : t = call[c].txn /\ id = call[c].want
  OBVIOUS
<1>2. call[c].pc = "lock" /\ UNCHANGED <<inner, tree, wal>>
  BY DEF Lock
<1>3. CASE Return(c) /\ UNCHANGED write_locks
  BY <1>2, <1>3, FailData
<1>4. CASE Goto(c, "wait") /\ UNCHANGED write_locks
  <2>0. t \in Handles[c]
    BY <1>1, <1>2, Busy
  <2>1. PICK r \in CallRecord(Len(log)) : r = call[c]
    BY <1>2, Busy
  <2>2. PICK new : new = [r EXCEPT !.pc = "wait"]
    OBVIOUS
  <2>3. /\ new.pc = "wait" /\ new.op = r.op /\ new.txn = r.txn /\ new.key = r.key /\ new.want = r.want
        /\ new.then = r.then /\ new.old = r.old /\ new.exists = r.exists
    BY <2>2 DEF CallRecord
  <2>4. call'[c] = new /\ \A d \in Callers \ {c} : call'[d] = call[d]
    <3>1. call' = [call EXCEPT ![c] = new]
      BY <1>4, <2>1, <2>2, GotoIs
    <3>. QED
      BY <3>1, LogIs
  <2>5. CallInv(r) /\ r.op \in WriteOps
    BY <1>2, <2>1, Busy DEF DataInv, CallsInv, WritePcs
  <2>6. CallInv(new)
    BY <1>2, <2>1, <2>3, <2>5 DEF CallInv, Past
  <2>7. UNCHANGED <<write_locks, tree, wal>> /\ (\A u \in Txns \ {t} : inner'[u] = inner[u]) /\ inner' = inner
    BY <1>2, <1>4
  <2>. QED
    BY <1>1, <1>2, <2>0, <2>1, <2>3, <2>4, <2>5, <2>6, <2>7, QuietWrite
<1>5. CASE /\ ~Conflict(t, id) /\ Goto(c, call[c].then)
           /\ write_locks' = [write_locks EXCEPT ![t] = Tracked(@, id)]
  BY <1>1, <1>2, <1>5, GrantData
<1>. QED
  BY <1>1, <1>3, <1>4, <1>5 DEF Lock

\* WaitEnds.
LEMMA WaitEndsData ==
    ASSUME OwnHandles, TypeInv, TypeInv', DataInv, NEW c \in Callers, WaitEnds(c)
    PROVE  DataInv'
<1>1. PICK t, id : t = call[c].txn /\ id = call[c].want
  OBVIOUS
<1>2. call[c].pc = "wait" /\ UNCHANGED <<tree, wal>>
  BY DEF WaitEnds
<1>3. CASE Conflict(t, id)
  <2>0. t \in Handles[c] /\ t \in Txns
    BY <1>1, <1>2, Busy
  <2>1. SetOnlyAbortable(t) /\ Return(c) /\ UNCHANGED write_locks
    BY <1>1, <1>3 DEF WaitEnds
  <2>2. call'[c] = Idle /\ \A d \in Callers \ {c} : call'[d] = call[d]
    BY <2>1, LogIs DEF Return
  <2>3. (\A u \in Txns \ {t} : inner'[u] = inner[u]) /\ (inner[t] # "Open" => inner'[t] # "Open")
    BY <2>0, <2>1, LogIs DEF SetOnlyAbortable
  <2>4. UNCHANGED <<write_locks, tree, wal>>
    BY <1>2, <2>1
  <2>. QED
    BY <1>1, <1>2, <2>0, <2>2, <2>3, <2>4, QuietWrite
<1>4. CASE ~Conflict(t, id)
  <2>1. /\ Goto(c, call[c].then) /\ write_locks' = [write_locks EXCEPT ![t] = Tracked(@, id)]
        /\ UNCHANGED <<inner, tree, wal>>
    BY <1>1, <1>2, <1>4 DEF WaitEnds
  <2>. QED
    BY <1>1, <1>2, <1>4, <2>1, GrantData
<1>. QED
  BY <1>3, <1>4

\* A change of the caller's transaction is in the slot, unless it is just putting it there.
LEMMA OwnChange ==
    ASSUME OwnHandles, TypeInv, LocksInv, NEW c \in Callers, NEW t \in Txns, call[c].txn = t,
           call[c].pc # "apply"
    PROVE  \A k, id : Changed(t, k, id) =>
               tree[k].lsn = id /\ Shown(k) = IF log[id].deleted THEN 0 ELSE id
<1>. SUFFICES ASSUME NEW k, NEW id, Changed(t, k, id)
              PROVE  tree[k].lsn = id /\ Shown(k) = IF log[id].deleted THEN 0 ELSE id
  OBVIOUS
<1>0. t # 0
  BY TransactionAssumption
<1>1. ~Applying(t, k, id)
  BY <1>0, Unique DEF Applying
<1>2. InfoInv(t, id) /\ ~write_locks[t][id].never_locked /\ write_locks[t][id].key = k /\ ~Undone(t, id)
  BY DEF Changed, Recorded, LocksInv, Held
<1>. QED
  BY <1>1, <1>2 DEF InfoInv, Shown

\* Before its undo pass a transaction has taken nothing back.
LEMMA NotUndone ==
    ASSUME OwnHandles, TypeInv, NEW c \in Callers, NEW t \in Txns, call[c].txn = t, call[c].pc # "undo", NEW id
    PROVE  ~Undone(t, id)
<1>0. t # 0
  BY TransactionAssumption
<1>. QED
  BY <1>0, Unique DEF Undone

\* The version a write is about to replace, and its before-image.
LEMMA BeforeImage ==
    ASSUME OwnHandles, TypeInv, ExclusiveInv, SlotInv, LocksInv, CallsInv, NEW c \in Callers, NEW t \in Txns,
           call[c].txn = t, call[c].pc = "log", Commits(t) = {}, NEW k \in Keys, k = call[c].key,
           VersionInv(k), NEW old, old = tree[k].lsn
    PROVE  Version(k, Len(log)) = IF AbortKnownDeleted(t, old, tree[k].exists) THEN 0 ELSE AbortLsn(t, old)
<1>1. CASE Recorded(t, old)
  <2>1. PICK w : w = write_locks[t][old]
    OBVIOUS
  <2>2. InfoInv(t, old) /\ ~w.never_locked
    BY <1>1, <2>1 DEF Recorded, LocksInv, Held
  <2>3. Wrote(t, w.key, old)
    BY <2>1, <2>2 DEF InfoInv
  <2>4. w.key = k
    BY <2>3, LogIs DEF SlotInv, Wrote, IsVersion
  <2>5. Changed(t, k, old)
    BY <1>1, <2>1, <2>4, NotUndone DEF Changed
  <2>6. Version(k, Len(log)) = Before(w)
    BY <2>1, <2>5 DEF VersionInv
  <2>. QED
    BY <1>1, <2>1, <2>6 DEF Before, AbortKnownDeleted, AbortLsn
<1>2. CASE ~Recorded(t, old)
  <2>1. Owns(t, k)
    BY PcIsPast, PastOwns
  <2>2. ASSUME NEW u \in Txns, NEW id, Changed(u, k, id) PROVE FALSE
    <3>1. u = t
      BY <2>1, <2>2, ChangedOwns, OneOwner
    <3>2. tree[k].lsn = id
      <4>1. Changed(t, k, id) /\ call[c].pc # "apply"
        BY <2>2, <3>1
      <4>. QED
        BY <4>1, OwnChange
    <3>. QED
      BY <1>2, <2>2, <3>1, <3>2 DEF Changed
  <2>3. Shown(k) = Version(k, Len(log))
    BY <2>2 DEF VersionInv
  <2>4. tree[k].exists => old # 0
    BY DEF SlotInv
  <2>. QED
    BY <1>2, <2>3, <2>4 DEF Shown, AbortKnownDeleted, AbortLsn
<1>. QED
  BY <1>1, <1>2

\* LogLn: the new LN is the last one of the record, and its before-image the committed
\* version.
LEMMA LogLnData ==
    ASSUME OwnHandles, TypeInv, TypeInv', TxnInv, DataInv, NEW c \in Callers, LogLn(c), ~io_invalid
    PROVE  DataInv'
<1>0. PICK n \in Nat : n = Len(log)
  BY LogIs
<1>1. PICK r \in CallRecord(n) : r = call[c]
  BY <1>0 DEF TypeInv, CallType
<1>2. PICK t, k, old : t = r.txn /\ k = r.key /\ old = r.old
  OBVIOUS
<1>3. r.pc = "log" /\ r.op \in WriteOps /\ t \in Handles[c] /\ t \in Txns /\ k \in Keys /\ t # 0
  BY <1>1, <1>2, Busy DEF LogLn, WritePcs
<1>4. inner' = inner /\ write_locks' = write_locks /\ tree' = tree /\ durable' = durable /\ io_invalid' = io_invalid
  BY DEF LogLn, handle
<1>5. ExclusiveInv /\ SlotInv /\ LocksInv /\ CallsInv /\ WroteInv /\ (\A u \in Txns : CommitInv(u))
      /\ (\A q \in Keys : VersionInv(q)) /\ BeforeImageIsCommitted
  BY DEF DataInv
<1>6. Past(r) /\ Owns(t, k) /\ CallInv(r)
  BY <1>1, <1>2, <1>3, <1>5, PcIsPast, PastOwns DEF CallsInv
<1>7. tree[k].lsn = old /\ tree[k].exists = r.exists /\ LockId(k, old) \in Held(t)
  BY <1>2, <1>6 DEF CallInv
<1>8. PICK e : /\ log' = Append(log, e) /\ e.type = "LN" /\ e.txn = t /\ e.key = k
               /\ e.deleted = (r.op = "Delete") /\ e.abort_lsn = AbortLsn(t, old)
               /\ e.abort_known_deleted = AbortKnownDeleted(t, old, tree[k].exists)
  BY <1>1, <1>2 DEF LogLn, LN
<1>9. /\ Len(log') = n + 1 /\ log'[n + 1] = e /\ \A i \in 1 .. n : log'[i] = log[i]
  BY <1>0, <1>8 DEF TypeInv, LogType
<1>10. e \in Entry
  BY <1>9 DEF TypeInv, LogType
<1>11. PICK new : new = [r EXCEPT !.new = n + 1, !.pc = "finalize"]
  OBVIOUS
<1>12. /\ new.pc = "finalize" /\ new.op = r.op /\ new.txn = t /\ new.key = k /\ new.want = r.want
       /\ new.old = old /\ new.exists = r.exists /\ new.new = n + 1
  BY <1>2, <1>11 DEF CallRecord
<1>13. call'[c] = new /\ \A d \in Callers \ {c} : call'[d] = call[d]
  <2>1. call' = [call EXCEPT ![c] = new]
    BY <1>0, <1>1, <1>11, LogIs DEF LogLn
  <2>. QED
    BY <2>1, LogIs
<1>14. Local(c, t)
  <2>1. \A i \in 1 .. n : i \in 1 .. n + 1
    OBVIOUS
  <2>2. \A i \in 1 .. n + 1 : i \in 1 .. n \/ i = n + 1
    OBVIOUS
  <2>3. durable <= durable'
    BY <1>4, LogIs
  <2>. QED
    BY <1>0, <1>1, <1>2, <1>4, <1>6, <1>8, <1>9, <1>12, <1>13, <2>1, <2>2, <2>3 DEF Local
<1>15. Commits(t) = {} /\ Commits(t)' = {}
  <2>1. Facts(t, r)
    BY <1>1, <1>2, <1>3, OwnFacts
  <2>2. Ends(t) = {}
    <3>1. state[t] = "Open"
      BY <1>3, <2>1 DEF Facts, HandleInv
    <3>. QED
      BY <1>3, <2>1, <3>1 DEF Facts, LogInv, WriteOps, EndOps
  <2>3. Commits(t) = {}
    BY <2>2 DEF Ends
  <2>4. Frames(t, "TxnCommit", Len(log))' = Frames(t, "TxnCommit", Len(log))
    BY <1>8, <1>10, FramesAppend
  <2>. QED
    BY <2>3, <2>4 DEF Commits
<1>16. \A d \in Callers : (call[d].txn = t => d = c) /\ (call'[d].txn = t => d = c)
  BY <1>3, OwnCalls
<1>17. /\ \A i : ~Undone(t, i) /\ ~Undone(t, i)'
       /\ \A i : ~Finalizing(t, i) /\ (Finalizing(t, i)' <=> i = n + 1)
       /\ \A q, i : ~Applying(t, q, i) /\ ~Applying(t, q, i)'
  BY <1>1, <1>3, <1>12, <1>13, <1>16 DEF Undone, Finalizing, Applying
<1>18. /\ \A u : Held(u)' = Held(u)
       /\ \A u, i : Recorded(u, i)' <=> Recorded(u, i)
  BY <1>4 DEF Held, Recorded
<1>19. \A u \in Txns : \A q, i : Changed(u, q, i)' <=> Changed(u, q, i)
  <2>1. \A u \in Txns : \A i : Undone(u, i)' <=> Undone(u, i)
    BY <1>3, <1>14, <1>17, OthersCalls
  <2>. QED
    BY <1>4, <1>18, <2>1 DEF Changed
<1>20. /\ \A i, q : IsVersion(i, q)' <=> IsVersion(i, q) \/ (i = n + 1 /\ q = k)
       /\ \A i, q : IsVersion(i, q) => i \in 1 .. n
       /\ Wrote(t, k, n + 1)'
  <2>1. \A i : i \in 1 .. n + 1 <=> i \in 1 .. n \/ i = n + 1
    OBVIOUS
  <2>. QED
    BY <1>0, <1>8, <1>9, <2>1 DEF IsVersion, Wrote
<1>21. SlotInv'
  BY <1>4, <1>5, <1>20 DEF SlotInv
<1>22. ASSUME NEW id \in Held(t)' PROVE InfoInv(t, id)'
  <2>1. PICK w, q : w = write_locks[t][id] /\ q = w.key
    OBVIOUS
  <2>2. InfoInv(t, id) /\ write_locks'[t][id] = w
    BY <1>3, <1>4, <1>5, <1>18, <2>1 DEF LocksInv
  <2>3. CASE w.never_locked
    BY <2>1, <2>2, <2>3 DEF InfoInv
  <2>4. CASE ~w.never_locked
    <3>1. /\ q \in Keys /\ Wrote(t, q, id) /\ (w.abort_known_deleted \/ w.abort_lsn # 0)
          /\ w.abort_lsn # 0 => IsVersion(w.abort_lsn, q)
          /\ tree[q].lsn = id /\ tree[q].exists = ~log[id].deleted
          /\ \A j : IsVersion(j, q) => j <= id
      BY <1>17, <2>1, <2>2, <2>4 DEF InfoInv
    <3>2. Wrote(t, q, id)' /\ log'[id] = log[id] /\ (w.abort_lsn # 0 => IsVersion(w.abort_lsn, q)')
      BY <1>14, <3>1, VersionsStay DEF Wrote
    <3>. QED
      BY <1>4, <1>17, <1>20, <2>1, <2>2, <2>4, <3>1, <3>2 DEF InfoInv
  <2>. QED
    BY <2>3, <2>4
<1>23. CallInv(new)'
  <2>1. \A u \in Txns : n + 1 \notin Held(u)'
    <3>1. \A u \in Txns : Held(u) \subseteq Ids(n)
      BY <1>0 DEF TypeInv, LockType, GoodLocks, Held
    <3>2. n + 1 \notin Ids(n)
      BY TransactionAssumption DEF Ids
    <3>. QED
      BY <1>18, <3>1, <3>2
  <2>2. \A d \in Callers : call'[d].want # n + 1
    <3>1. \A d \in Callers : call[d].want \in Ids(n) \cup {0}
      BY <1>0 DEF TypeInv, CallType, CallRecord
    <3>2. n + 1 \notin Ids(n) \cup {0}
      BY TransactionAssumption DEF Ids
    <3>3. \A d \in Callers : call'[d].want = call[d].want
      BY <1>1, <1>12, <1>13
    <3>. QED
      BY <3>1, <3>2, <3>3
  <2>3. \A j : IsVersion(j, k)' => j <= n + 1
    BY <1>20
  <2>4. r.op = "Insert" => ~r.exists
    BY <1>3, <1>6 DEF CallInv
  <2>5. log'[n + 1].deleted = (r.op = "Delete")
    BY <1>8, <1>9
  <2>. QED
    BY <1>4, <1>7, <1>12, <1>18, <1>20, <2>1, <2>2, <2>3, <2>4, <2>5 DEF CallInv, LockId
<1>24. ExclusiveInv' /\ LocksInv' /\ CallsInv'
  <2>1. \A u \in Txns \ {t} : Held(t)' \cap Held(u) = {}
    BY <1>3, <1>5, <1>18 DEF ExclusiveInv
  <2>2. \A d \in Callers \ {c} : call[d].pc = "finalize" =>
               call[d].new \notin Held(t)' /\ call'[c].want # call[d].new
    BY <1>1, <1>3, <1>5, <1>12, <1>13, <1>18, FinalizerNew
  <2>. QED
    BY <1>3, <1>5, <1>13, <1>14, <1>22, <1>23, <2>1, <2>2, LocalStep
<1>25. WroteInv'
  <2>0. new.op # "Commit"
    BY <1>3, <1>12 DEF WriteOps
  <2>1. Gone(t) => Gone(t)'
    BY <1>3, <1>4, <1>13, <2>0, GoneStays
  <2>2. ASSUME NEW q, NEW i, Wrote(t, q, i)'
        PROVE  (\E id : Recorded(t, id)' /\ write_locks'[t][id].key = q) \/ Finalizing(t, i)' \/ Gone(t)'
    <3>1. CASE i = n + 1
      BY <1>17, <3>1
    <3>2. CASE i # n + 1
      <4>1. IsVersion(i, q) /\ log'[i].txn = t /\ log'[i] = log[i]
        BY <1>14, <1>20, <2>2, <3>2, VersionsStay DEF Wrote
      <4>2. Wrote(t, q, i)
        BY <4>1 DEF Wrote
      <4>3. (\E id : Recorded(t, id) /\ write_locks[t][id].key = q) \/ Gone(t)
        BY <1>3, <1>5, <1>17, <4>2 DEF WroteInv
      <4>. QED
        BY <1>4, <1>18, <2>1, <4>3
    <3>. QED
      BY <3>1, <3>2
  <2>. QED
    BY <1>3, <1>5, <1>14, <2>2, LocalWrote
<1>26. \A u \in Txns : CommitInv(u)'
  <2>1. CommitInv(t)'
    BY <1>3, <1>12, <1>13, <1>15, <1>16 DEF CommitInv, WriteOps
  <2>. QED
    BY <1>3, <1>5, <1>14, <2>1, LocalCommit
<1>27. ASSUME NEW q PROVE /\ LastCommitted(q, Len(log))' = LastCommitted(q, Len(log))
                          /\ Version(q, Len(log))' = Version(q, Len(log))
  <2>1. CommittedLNs(q)' = CommittedLNs(q)
    BY <1>3, <1>14, <1>15, NoneCommitted
  <2>. QED
    BY <1>14, <2>1, VersionSame
<1>28. ASSUME NEW q \in Keys PROVE VersionInv(q)'
  <2>1. \A u \in Txns : Commits(u)' = Commits(u)
    <3>1. ASSUME NEW u \in Txns, u # t PROVE Commits(u)' = Commits(u)
      <4>1. Frames(u, "TxnCommit", Len(log))' = Frames(u, "TxnCommit", Len(log))
        BY <1>14, <3>1, OthersFrames
      <4>. QED
        BY <4>1 DEF Commits
    <3>. QED
      BY <1>15, <3>1
  <2>2. \A u \in Txns : \A id : /\ Changed(u, q, id)' <=> Changed(u, q, id)
                                /\ Changed(u, q, id) => /\ write_locks'[u][id] = write_locks[u][id]
                                                        /\ Commits(u)' = {} <=> Commits(u) = {}
    BY <1>4, <1>19, <2>1
  <2>3. tree'[q] = tree[q] /\ VersionInv(q)
    BY <1>4, <1>5
  <2>. QED
    BY <1>27, <2>2, <2>3, VersionKept
<1>29. BeforeImageIsCommitted'
  <2>1. ASSUME NEW q, NEW i, IsVersion(i, q)', ~IsVersion(i, q)
        PROVE  Version(q, Len(log))' = IF log'[i].abort_known_deleted THEN 0 ELSE log'[i].abort_lsn
    <3>1. q = k /\ i = n + 1
      BY <1>20, <2>1
    <3>2. Version(k, Len(log)) = IF AbortKnownDeleted(t, old, tree[k].exists) THEN 0 ELSE AbortLsn(t, old)
      BY <1>1, <1>2, <1>3, <1>5, <1>7, <1>15, BeforeImage
    <3>. QED
      BY <1>8, <1>9, <1>27, <3>1, <3>2
  <2>. QED
    BY <1>5, <1>14, <1>27, <2>1, BeforeStep
<1>. QED
  BY <1>21, <1>24, <1>25, <1>26, <1>28, <1>29 DEF DataInv

\* The lock on a new record is refused: the transaction has ended for its Txn.
LEMMA FinalizeRefused ==
    ASSUME OwnHandles, TypeInv, TypeInv', DataInv, NEW c \in Callers, call[c].pc = "finalize",
           NEW t, t = call[c].txn, call[c].old = 0, ~CheckState(t), Return(c),
           UNCHANGED <<inner, write_locks, tree, wal>>
    PROVE  DataInv'
<1>0. t \in Txns /\ t # 0 /\ t \in Handles[c]
  BY Busy
<1>1. PICK r \in CallRecord(Len(log)) : r = call[c]
  BY Busy
<1>2. PICK k : k = r.key
  OBVIOUS
<1>3. inner' = inner /\ write_locks' = write_locks /\ tree' = tree /\ log' = log /\ durable' = durable
      /\ io_invalid' = io_invalid /\ durable <= durable' /\ (io_invalid => io_invalid')
  BY LogIs DEF wal
<1>4. call'[c] = Idle /\ \A d \in Callers \ {c} : call'[d] = call[d]
  BY LogIs DEF Return
<1>5. ExclusiveInv /\ SlotInv /\ LocksInv /\ CallsInv /\ WroteInv /\ (\A u \in Txns : CommitInv(u))
      /\ (io_invalid \/ \A q \in Keys : VersionInv(q)) /\ BeforeImageIsCommitted
  BY DEF DataInv
<1>6. Past(r) /\ CallInv(r)
  BY <1>1, <1>5, PcIsPast DEF CallsInv
<1>7. tree[k].lsn = 0 /\ Wrote(t, k, r.new)
  BY <1>1, <1>2, <1>6 DEF CallInv
<1>8. Local(c, t)
  BY <1>1, <1>3, <1>4, IdleFields DEF Local
<1>9. \A d \in Callers : (call[d].txn = t => d = c) /\ (call'[d].txn = t => d = c)
  BY <1>0, OwnCalls
<1>10. /\ \A u, i : Undone(u, i)' <=> Undone(u, i)
       /\ \A u, q, i : Applying(u, q, i)' <=> Applying(u, q, i)
  BY <1>4, IdleFields DEF Undone, Applying
<1>11. \A i : Finalizing(t, i) => i = r.new
  BY <1>1, <1>9 DEF Finalizing
<1>12. /\ \A u : Held(u)' = Held(u)
       /\ \A u, i : Recorded(u, i)' <=> Recorded(u, i)
       /\ \A u, q, i : Changed(u, q, i)' <=> Changed(u, q, i)
       /\ \A i, q : IsVersion(i, q)' <=> IsVersion(i, q)
       /\ \A u, i, q : Wrote(u, q, i)' <=> Wrote(u, q, i)
  BY <1>3, <1>10 DEF Held, Recorded, Changed, IsVersion, Wrote
<1>13. SlotInv'
  BY <1>3, <1>5, <1>12 DEF SlotInv
<1>14. ASSUME NEW id \in Held(t)' PROVE InfoInv(t, id)'
  <2>1. PICK w, q : w = write_locks[t][id] /\ q = w.key
    OBVIOUS
  <2>2. InfoInv(t, id) /\ write_locks'[t][id] = w /\ id \in Held(t)
    BY <1>0, <1>3, <1>5, <1>12, <2>1 DEF LocksInv
  <2>3. CASE w.never_locked
    BY <2>1, <2>2, <2>3 DEF InfoInv
  <2>4. CASE ~w.never_locked
    <3>1. ASSUME ~Undone(t, id), NEW j, IsVersion(j, q) PROVE j <= id
      <4>1. j <= id \/ Finalizing(t, j)
        BY <2>1, <2>2, <2>4, <3>1 DEF InfoInv
      <4>2. ASSUME j = r.new PROVE FALSE
        <5>1. q = k
          BY <1>7, <3>1, <4>2 DEF Wrote, IsVersion
        <5>2. Changed(t, k, id) /\ call[c].pc # "apply"
          BY <2>1, <2>2, <2>4, <3>1, <5>1 DEF Changed, Recorded, Held
        <5>3. tree[k].lsn = id
          BY <1>0, <1>5, <5>2, OwnChange
        <5>4. id # 0
          BY <1>0, <1>5, <5>2, ChangedOwns, LogIs
        <5>. QED
          BY <1>7, <5>3, <5>4
      <4>. QED
        BY <1>11, <4>1, <4>2
    <3>. QED
      BY <1>3, <1>10, <1>12, <2>1, <2>2, <2>4, <3>1 DEF InfoInv
  <2>. QED
    BY <2>3, <2>4
<1>15. ExclusiveInv' /\ LocksInv' /\ CallsInv'
  <2>1. \A u \in Txns \ {t} : Held(t)' \cap Held(u) = {}
    BY <1>0, <1>5, <1>12 DEF ExclusiveInv
  <2>2. \A d \in Callers \ {c} : call[d].pc = "finalize" =>
               call[d].new \notin Held(t)' /\ call'[c].want # call[d].new
    BY <1>0, <1>4, <1>5, <1>12, IdleInv, FinalizerNew
  <2>. QED
    BY <1>0, <1>4, <1>5, <1>8, <1>14, <2>1, <2>2, IdleInv, LocalStep
<1>16. WroteInv'
  <2>1. Gone(t)'
    BY <1>3, <1>4, <1>9, IdleFields DEF Gone, CheckState
  <2>. QED
    BY <1>0, <1>5, <1>8, <2>1, LocalWrote
<1>17. \A u \in Txns : CommitInv(u)'
  <2>1. Idle.op \notin {"Commit", "ResolveCommit"} /\ call[c].pc # "sync"
    BY IdleFields
  <2>2. CommitInv(t)'
    BY <1>0, <1>3, <1>4, <1>5, <2>1, OwnCommit
  <2>. QED
    BY <1>0, <1>5, <1>8, <2>2, LocalCommit
<1>18. ASSUME NEW q PROVE /\ LastCommitted(q, Len(log))' = LastCommitted(q, Len(log))
                          /\ Version(q, Len(log))' = Version(q, Len(log))
  BY <1>3 DEF LastCommitted, Version, IsCommitted, Frames
<1>19. io_invalid' \/ \A q \in Keys : VersionInv(q)'
  <2>. SUFFICES ASSUME NEW q \in Keys, VersionInv(q) PROVE VersionInv(q)'
    BY <1>3, <1>5
  <2>. QED
    BY <1>3, <1>12, <1>18, VersionKept, FramesKept
<1>20. BeforeImageIsCommitted'
  BY <1>5, <1>8, <1>12, <1>18, BeforeStep
<1>. QED
  BY <1>13, <1>15, <1>16, <1>17, <1>19, <1>20 DEF DataInv

\* FinalizeWriteLock, granted: the lock of the old version stays, without a
\* before-image, and the new one takes it over.
LEMMA FinalizeMoves ==
    ASSUME OwnHandles, TypeInv, TypeInv', TxnInv, DataInv, NEW c \in Callers, FinalizeWriteLock(c),
           ~(call[c].old = 0 /\ ~CheckState(call[c].txn))
    PROVE  DataInv'
<1>0. call[c].pc = "finalize"
  BY DEF FinalizeWriteLock
<1>1. PICK r \in CallRecord(Len(log)) : r = call[c]
  BY <1>0, Busy
<1>2. PICK t, k, old, lsn : t = r.txn /\ k = r.key /\ old = r.old /\ lsn = r.new
  OBVIOUS
<1>3. t \in Handles[c] /\ t \in Txns /\ k \in Keys /\ t # 0 /\ r.op \in WriteOps
  BY <1>0, <1>1, <1>2, Busy DEF WritePcs
<1>4. inner' = inner /\ tree' = tree /\ log' = log /\ durable' = durable /\ io_invalid' = io_invalid
      /\ durable <= durable' /\ (io_invalid => io_invalid')
  BY LogIs DEF FinalizeWriteLock, wal
<1>5. ExclusiveInv /\ SlotInv /\ LocksInv /\ CallsInv /\ WroteInv /\ (\A u \in Txns : CommitInv(u))
      /\ (io_invalid \/ \A q \in Keys : VersionInv(q)) /\ BeforeImageIsCommitted
  BY DEF DataInv
<1>6. Past(r) /\ CallInv(r) /\ Owns(t, k)
  BY <1>0, <1>1, <1>2, <1>5, PcIsPast, PastOwns DEF CallsInv
<1>7. /\ tree[k].lsn = old /\ tree[k].exists = r.exists /\ LockId(k, old) \in Held(t)
      /\ Wrote(t, k, lsn) /\ lsn \in 1 .. Len(log) /\ lsn # 0
      /\ \A j : IsVersion(j, k) => j <= lsn
      /\ \A u \in Txns : lsn \notin Held(u)
      /\ log[lsn].deleted = (r.op = "Delete") /\ (r.op = "Insert" => ~r.exists)
  <2>1. /\ tree[k].lsn = old /\ tree[k].exists = r.exists /\ LockId(k, old) \in Held(t)
        /\ Wrote(t, k, lsn)
        /\ \A j : IsVersion(j, k) => j <= lsn
        /\ \A u \in Txns : lsn \notin Held(u)
        /\ log[lsn].deleted = (r.op = "Delete") /\ (r.op = "Insert" => ~r.exists)
    BY <1>0, <1>1, <1>2, <1>6 DEF CallInv
  <2>. QED
    BY <2>1, LogIs DEF Wrote, IsVersion
<1>8. PICK locks : locks = write_locks[t]
  OBVIOUS
<1>9. PICK mid, next : /\ mid = IF old # 0 THEN Moved(locks, old, lsn) ELSE Tracked(locks, lsn)
                       /\ next = AbortInfoSet(mid, lsn, c)
  OBVIOUS
<1>10. PICK info : info = [never_locked |-> FALSE, abort_lsn |-> old, abort_known_deleted |-> ~r.exists, key |-> k]
  OBVIOUS
<1>11. write_locks'[t] = next /\ \A u \in Txns \ {t} : write_locks'[u] = write_locks[u]
  <2>1. write_locks' = [write_locks EXCEPT ![t] = next]
    BY <1>1, <1>2, <1>8, <1>9 DEF FinalizeWriteLock
  <2>. QED
    BY <1>3, <2>1, LogIs
<1>12. /\ DOMAIN next = Held(t) \cup {lsn}
       /\ old # 0 => next[old] = WriteLockInfo
       /\ \A i \in Held(t) : i # old \/ old = 0 => next[i] = locks[i]
       /\ next[lsn] = IF old # 0 /\ ~locks[old].never_locked THEN locks[old] ELSE info
       /\ old # 0 => old \in Held(t)
  <2>1. old # 0 => old \in DOMAIN locks
    BY <1>7, <1>8 DEF LockId, Held
  <2>2. lsn \notin DOMAIN locks
    BY <1>3, <1>7, <1>8 DEF Held
  <2>3. (old # 0 => mid = Moved(locks, old, lsn)) /\ (old = 0 => mid = Tracked(locks, lsn))
    BY <1>9
  <2>4. /\ DOMAIN next = DOMAIN locks \cup {lsn}
        /\ old # 0 => next[old] = WriteLockInfo
        /\ \A i \in DOMAIN locks : i # old \/ old = 0 => next[i] = locks[i]
        /\ next[lsn] = IF old # 0 /\ ~locks[old].never_locked THEN locks[old] ELSE info
    <3>1. /\ DOMAIN mid = DOMAIN locks \cup {lsn}
          /\ mid[lsn] = IF old # 0 THEN locks[old] ELSE WriteLockInfo
          /\ old # 0 => mid[old] = WriteLockInfo
          /\ \A i \in DOMAIN locks : i # old \/ old = 0 => mid[i] = locks[i]
      <4>1. CASE old # 0
        <5>1. mid = [i \in DOMAIN locks \cup {lsn} |->
                 CASE i = lsn -> locks[old] [] i = old -> WriteLockInfo [] OTHER -> locks[i]]
          BY <2>1, <2>3, <4>1 DEF Moved
        <5>2. old # lsn
          BY <2>1, <2>2, <4>1
        <5>3. mid[lsn] = locks[old] /\ DOMAIN mid = DOMAIN locks \cup {lsn}
          BY <5>1, <5>2
        <5>4. mid[old] = WriteLockInfo
          BY <2>1, <4>1, <5>1, <5>2
        <5>5. ASSUME NEW i \in DOMAIN locks, i # old PROVE mid[i] = locks[i]
          <6>1. i # lsn
            BY <2>2
          <6>. QED
            BY <5>1, <5>5, <6>1
        <5>. QED
          BY <4>1, <5>3, <5>4, <5>5
      <4>2. CASE old = 0
        <5>1. mid = [i \in DOMAIN locks \cup {lsn} |-> IF i = lsn THEN WriteLockInfo ELSE locks[i]]
          BY <2>2, <2>3, <4>2 DEF Tracked
        <5>. QED
          BY <2>2, <4>2, <5>1
      <4>. QED
        BY <4>1, <4>2
    <3>2. CASE mid[lsn].never_locked
      <4>1. next = [mid EXCEPT ![lsn] = info]
        BY <1>1, <1>2, <1>9, <1>10, <3>1, <3>2 DEF AbortInfoSet
      <4>2. DOMAIN next = DOMAIN mid /\ \A i \in DOMAIN mid : next[i] = IF i = lsn THEN info ELSE mid[i]
        BY <4>1
      <4>. QED
        BY <1>7, <2>1, <2>2, <3>1, <3>2, <4>2
    <3>3. CASE ~mid[lsn].never_locked
      <4>1. next = mid
        BY <1>9, <3>3 DEF AbortInfoSet
      <4>2. old # 0
        BY <3>1, <3>3 DEF WriteLockInfo
      <4>. QED
        BY <3>1, <3>3, <4>1, <4>2
    <3>. QED
      BY <3>2, <3>3
  <2>. QED
    BY <1>8, <2>1, <2>4 DEF Held
<1>13. PICK new : new = [r EXCEPT !.pc = "apply"]
  OBVIOUS
<1>14. /\ new.pc = "apply" /\ new.op = r.op /\ new.txn = t /\ new.key = k /\ new.want = r.want
       /\ new.old = old /\ new.exists = r.exists /\ new.new = lsn
  BY <1>2, <1>13 DEF CallRecord
<1>15. call'[c] = new /\ \A d \in Callers \ {c} : call'[d] = call[d]
  <2>1. Goto(c, "apply")
    BY DEF FinalizeWriteLock
  <2>2. call' = [call EXCEPT ![c] = new]
    BY <1>1, <1>13, <2>1, GotoIs
  <2>. QED
    BY <2>2, LogIs
<1>16. Local(c, t)
  BY <1>1, <1>2, <1>4, <1>11, <1>14, <1>15 DEF Local
<1>17. \A d \in Callers : (call[d].txn = t => d = c) /\ (call'[d].txn = t => d = c)
  BY <1>3, OwnCalls
<1>18. /\ \A i : ~Undone(t, i) /\ ~Undone(t, i)'
       /\ \A i : (Finalizing(t, i) => i = lsn) /\ ~Finalizing(t, i)'
       /\ \A q, i : ~Applying(t, q, i) /\ (Applying(t, q, i)' <=> q = k /\ i = lsn)
  BY <1>0, <1>1, <1>2, <1>14, <1>15, <1>17 DEF Undone, Finalizing, Applying
<1>19. /\ \A i, q : IsVersion(i, q)' <=> IsVersion(i, q)
       /\ \A u, i, q : Wrote(u, q, i)' <=> Wrote(u, q, i)
  BY <1>4 DEF IsVersion, Wrote
<1>20. Held(t)' = Held(t) \cup {lsn} /\ 0 \notin Held(t)
  <2>1. Held(t) \subseteq Ids(Len(log))
    BY <1>3 DEF TypeInv, LockType, GoodLocks, Held
  <2>2. 0 \notin Ids(Len(log))
    BY TransactionAssumption DEF Ids
  <2>. QED
    BY <1>11, <1>12, <2>1, <2>2 DEF Held
\* The lock of the slot's version is the only one with a change of the record.
<1>21. \A i : Changed(t, k, i) <=> i = old /\ old # 0 /\ ~locks[old].never_locked
  <2>1. ASSUME NEW i, Changed(t, k, i) PROVE i = old /\ old # 0 /\ ~locks[old].never_locked
    <3>0. call[c].txn = t /\ call[c].pc # "apply"
      BY <1>0, <1>1, <1>2
    <3>1. tree[k].lsn = i
      BY <1>3, <1>5, <2>1, <3>0, OwnChange
    <3>2. i \in Held(t) /\ ~write_locks[t][i].never_locked
      BY <2>1 DEF Changed, Recorded, Held
    <3>. QED
      BY <1>7, <1>8, <1>20, <3>1, <3>2
  <2>2. ASSUME old # 0, ~locks[old].never_locked PROVE Changed(t, k, old)
    <3>1. old \in Held(t)
      BY <1>12, <2>2
    <3>2. InfoInv(t, old)
      BY <1>3, <1>5, <3>1 DEF LocksInv
    <3>3. Wrote(t, locks[old].key, old)
      BY <1>8, <2>2, <3>2 DEF InfoInv
    <3>4. IsVersion(old, k)
      BY <1>3, <1>5, <1>7, <2>2 DEF SlotInv
    <3>5. locks[old].key = k
      BY <3>3, <3>4 DEF Wrote, IsVersion
    <3>. QED
      BY <1>8, <1>18, <2>2, <3>1, <3>5 DEF Changed, Recorded, Held
  <2>. QED
    BY <2>1, <2>2
<1>22. next[lsn].key = k /\ ~next[lsn].never_locked
  <2>1. CASE old # 0 /\ ~locks[old].never_locked
    <3>1. Changed(t, k, old)
      BY <1>21, <2>1
    <3>. QED
      BY <1>8, <1>12, <2>1, <3>1 DEF Changed
  <2>2. CASE ~(old # 0 /\ ~locks[old].never_locked)
    <3>1. next[lsn] = info
      BY <1>12, <2>2
    <3>. QED
      BY <1>10, <3>1
  <2>. QED
    BY <2>1, <2>2
<1>23. ASSUME NEW i, NEW q, q # k, Recorded(t, i), locks[i].key = q PROVE Recorded(t, i)' /\ next[i] = locks[i]
  <2>1. i \in Held(t) /\ ~locks[i].never_locked
    BY <1>8, <1>23 DEF Recorded, Held
  <2>2. i # old \/ old = 0
    <3>1. ASSUME i = old, old # 0 PROVE FALSE
      <4>1. Changed(t, k, i)
        BY <1>21, <2>1, <3>1
      <4>. QED
        BY <1>8, <1>23, <4>1 DEF Changed
    <3>. QED
      BY <3>1
  <2>3. next[i] = locks[i]
    BY <1>12, <2>1, <2>2
  <2>. QED
    BY <1>11, <1>20, <2>1, <2>3 DEF Recorded, Held
<1>24. \A i : i \in Held(t) /\ ~next[i].never_locked => i # old \/ old = 0
  BY <1>12 DEF WriteLockInfo
<1>25. \A i : Changed(t, k, i)' <=> i = lsn
  <2>1. Changed(t, k, lsn)'
    BY <1>11, <1>18, <1>20, <1>22 DEF Changed, Recorded, Held
  <2>2. ASSUME NEW i, Changed(t, k, i)', i # lsn PROVE FALSE
    <3>1. i \in Held(t) /\ ~next[i].never_locked /\ next[i].key = k
      BY <1>11, <1>20, <2>2 DEF Changed, Recorded, Held
    <3>2. next[i] = locks[i]
      BY <1>12, <1>24, <3>1
    <3>3. Changed(t, k, i)
      BY <1>8, <1>18, <3>1, <3>2 DEF Changed, Recorded, Held
    <3>. QED
      BY <1>21, <1>24, <3>1, <3>3
  <2>. QED
    BY <2>1, <2>2
<1>26. ASSUME NEW q, q # k, NEW i
       PROVE  /\ Changed(t, q, i)' <=> Changed(t, q, i)
              /\ Changed(t, q, i) => write_locks'[t][i] = write_locks[t][i]
  <2>1. ASSUME Changed(t, q, i) PROVE Changed(t, q, i)' /\ write_locks'[t][i] = write_locks[t][i]
    <3>1. Recorded(t, i) /\ locks[i].key = q
      BY <1>8, <2>1 DEF Changed
    <3>2. Recorded(t, i)' /\ next[i] = locks[i]
      BY <1>23, <1>26, <3>1
    <3>. QED
      BY <1>8, <1>11, <1>18, <3>1, <3>2 DEF Changed
  <2>2. ASSUME Changed(t, q, i)' PROVE Changed(t, q, i)
    <3>1. i \in Held(t) \cup {lsn} /\ ~next[i].never_locked /\ next[i].key = q
      BY <1>11, <1>20, <2>2 DEF Changed, Recorded, Held
    <3>2. i \in Held(t) /\ next[i] = locks[i]
      BY <1>12, <1>22, <1>24, <1>26, <3>1
    <3>. QED
      BY <1>8, <1>18, <3>1, <3>2 DEF Changed, Recorded, Held
  <2>. QED
    BY <2>1, <2>2
<1>27. SlotInv'
  BY <1>4, <1>5, <1>19 DEF SlotInv
<1>28. ASSUME NEW id \in Held(t)' PROVE InfoInv(t, id)'
  <2>1. CASE id = lsn
    <3>1. PICK w : w = next[lsn]
      OBVIOUS
    <3>2. (w.abort_known_deleted \/ w.abort_lsn # 0) /\ (w.abort_lsn # 0 => IsVersion(w.abort_lsn, k))
      <4>1. CASE old # 0 /\ ~locks[old].never_locked
        <5>1. Changed(t, k, old) /\ w = locks[old]
          BY <1>12, <1>21, <3>1, <4>1
        <5>2. InfoInv(t, old) /\ locks[old].key = k
          BY <1>3, <1>5, <1>8, <5>1 DEF LocksInv, Changed, Recorded, Held
        <5>. QED
          BY <1>8, <4>1, <5>1, <5>2 DEF InfoInv
      <4>2. CASE ~(old # 0 /\ ~locks[old].never_locked)
        <5>1. w = info
          BY <1>12, <3>1, <4>2
        <5>2. w.abort_lsn = old /\ w.abort_known_deleted = ~r.exists
          BY <1>10, <5>1
        <5>3. IF old = 0 THEN ~tree[k].exists ELSE IsVersion(old, k)
          BY <1>3, <1>5, <1>7 DEF SlotInv
        <5>. QED
          BY <1>7, <5>2, <5>3
      <4>. QED
        BY <4>1, <4>2
    <3>3. write_locks'[t][id] = w /\ w.key = k /\ ~w.never_locked /\ Applying(t, k, id)' /\ Wrote(t, k, id)'
      BY <1>7, <1>11, <1>18, <1>19, <1>22, <2>1, <3>1
    <3>. QED
      BY <1>3, <1>7, <1>19, <2>1, <3>2, <3>3 DEF InfoInv
  <2>2. CASE id # lsn /\ id = old /\ old # 0
    <3>1. write_locks'[t][id] = WriteLockInfo
      BY <1>11, <1>12, <2>2
    <3>. QED
      BY <3>1 DEF InfoInv, WriteLockInfo
  <2>3. CASE id # lsn /\ ~(id = old /\ old # 0)
    <3>0. id \in Held(t)
      BY <1>20, <1>28, <2>3
    <3>1. PICK w, q : w = locks[id] /\ q = w.key
      OBVIOUS
    <3>2. InfoInv(t, id) /\ write_locks'[t][id] = w /\ write_locks[t][id] = w
      BY <1>3, <1>5, <1>8, <1>11, <1>12, <2>3, <3>0, <3>1 DEF LocksInv
    <3>3. CASE w.never_locked
      BY <3>1, <3>2, <3>3 DEF InfoInv
    <3>4. CASE ~w.never_locked
      <4>1. /\ q \in Keys /\ Wrote(t, q, id) /\ (w.abort_known_deleted \/ w.abort_lsn # 0)
            /\ w.abort_lsn # 0 => IsVersion(w.abort_lsn, q)
            /\ tree[q].lsn = id /\ tree[q].exists = ~log[id].deleted
            /\ \A j : IsVersion(j, q) => j <= id \/ j = lsn
        BY <1>18, <3>1, <3>2, <3>4 DEF InfoInv
      <4>2. Changed(t, q, id)
        BY <1>18, <3>0, <3>1, <3>2, <3>4 DEF Changed, Recorded, Held
      <4>3. q # k
        BY <1>21, <2>3, <4>2
      <4>4. ~IsVersion(lsn, q)
        BY <1>7, <4>3 DEF Wrote, IsVersion
      <4>5. \A j : IsVersion(j, q) => j <= id
        BY <4>1, <4>4
      <4>. QED
        BY <1>4, <1>19, <3>1, <3>2, <3>4, <4>1, <4>5 DEF InfoInv
    <3>. QED
      BY <3>3, <3>4
  <2>. QED
    BY <2>1, <2>2, <2>3
<1>29. CallInv(new)'
  <2>1. LockId(k, old) \in Held(t)' /\ Recorded(t, lsn)' /\ write_locks'[t][lsn].key = k
    BY <1>7, <1>11, <1>20, <1>22 DEF Recorded, Held
  <2>. QED
    BY <1>4, <1>7, <1>14, <1>19, <2>1 DEF CallInv, LockId
<1>30. ExclusiveInv' /\ LocksInv' /\ CallsInv'
  <2>1. \A u \in Txns \ {t} : Held(t)' \cap Held(u) = {}
    BY <1>3, <1>5, <1>7, <1>20 DEF ExclusiveInv
  <2>2. ASSUME NEW d \in Callers \ {c}, call[d].pc = "finalize"
        PROVE  call[d].new \notin Held(t)' /\ call'[c].want # call[d].new
    <3>1. call[d].new # lsn
      <4>1. Wrote(call[d].txn, call[d].key, call[d].new)
        BY <1>5, <2>2 DEF CallsInv, CallInv
      <4>2. call[d].txn # t
        BY <1>17
      <4>. QED
        BY <1>7, <4>1, <4>2 DEF Wrote
    <3>2. call[d].new \notin Held(t) /\ call[c].want # call[d].new
      BY <1>3, <1>5, <2>2, FinalizerNew
    <3>. QED
      BY <1>1, <1>14, <1>15, <1>20, <3>1, <3>2
  <2>. QED
    BY <1>3, <1>5, <1>15, <1>16, <1>28, <1>29, <2>1, <2>2, LocalStep
<1>31. WroteInv'
  <2>0. new.op # "Commit"
    BY <1>3, <1>14 DEF WriteOps
  <2>1. Gone(t) => Gone(t)'
    BY <1>3, <1>4, <1>15, <2>0, GoneStays
  <2>2. ASSUME ~io_invalid, NEW q, NEW i, Wrote(t, q, i)'
        PROVE  (\E id : Recorded(t, id)' /\ write_locks'[t][id].key = q) \/ Finalizing(t, i)' \/ Gone(t)'
    <3>1. CASE q = k
      <4>1. Recorded(t, lsn)' /\ write_locks'[t][lsn].key = k
        BY <1>11, <1>20, <1>22 DEF Recorded, Held
      <4>. QED
        BY <3>1, <4>1
    <3>2. CASE q # k
      <4>1. Wrote(t, q, i)
        BY <1>19, <2>2
      <4>2. i # lsn
        BY <1>7, <3>2, <4>1 DEF Wrote, IsVersion
      <4>3. (\E id : Recorded(t, id) /\ write_locks[t][id].key = q) \/ Gone(t)
        BY <1>3, <1>5, <1>18, <2>2, <4>1, <4>2 DEF WroteInv
      <4>. QED
        BY <1>8, <1>11, <1>23, <2>1, <3>2, <4>3
    <3>. QED
      BY <3>1, <3>2
  <2>. QED
    BY <1>3, <1>4, <1>5, <1>16, <2>2, LocalWrote
<1>32. \A u \in Txns : CommitInv(u)'
  <2>0. new.op \notin {"Commit", "ResolveCommit"} /\ call[c].pc # "sync"
    BY <1>0, <1>3, <1>14 DEF WriteOps
  <2>1. CommitInv(t)'
    BY <1>3, <1>4, <1>5, <1>15, <2>0, OwnCommit
  <2>. QED
    BY <1>3, <1>5, <1>16, <2>1, LocalCommit
<1>33. ASSUME NEW q PROVE /\ LastCommitted(q, Len(log))' = LastCommitted(q, Len(log))
                          /\ Version(q, Len(log))' = Version(q, Len(log))
  BY <1>4 DEF LastCommitted, Version, IsCommitted, Frames
<1>34. \A u : Commits(u)' = Commits(u)
  BY <1>4, FramesKept
<1>35. ASSUME ~io_invalid, NEW q \in Keys, q # k, VersionInv(q) PROVE VersionInv(q)'
  <2>1. ASSUME NEW u \in Txns, NEW id
        PROVE /\ Changed(u, q, id)' <=> Changed(u, q, id)
              /\ Changed(u, q, id) => write_locks'[u][id] = write_locks[u][id]
    <3>1. CASE u = t
      BY <1>26, <1>35, <3>1
    <3>2. CASE u # t
      BY <1>3, <1>11, <1>16, <3>2, OthersCalls
    <3>. QED
      BY <3>1, <3>2
  <2>2. tree'[q] = tree[q]
    BY <1>4
  <2>. QED
    BY <1>33, <1>34, <1>35, <2>1, <2>2, VersionKept
<1>36. ASSUME ~io_invalid, VersionInv(k) PROVE VersionInv(k)'
  <2>1. Commits(t) = {}
    <3>1. Facts(t, r)
      BY <1>1, <1>2, <1>3, OwnFacts
    <3>2. state[t] = "Open"
      BY <1>0, <1>1, <1>3, <1>36, <3>1 DEF Facts, HandleInv
    <3>3. Ends(t) = {}
      BY <1>3, <1>36, <3>1, <3>2 DEF Facts, LogInv, WriteOps, EndOps
    <3>. QED
      BY <3>3 DEF Ends
  <2>2. \A u \in Txns : \A id : u # t => ~Changed(u, k, id) /\ ~Changed(u, k, id)'
    BY <1>3, <1>5, <1>6, <1>16, OwnVersion
  <2>3. PICK w : w = next[lsn]
    OBVIOUS
  <2>4. Version(k, Len(log)) = Before(w)
    <3>1. CASE old # 0 /\ ~locks[old].never_locked
      <4>1. Changed(t, k, old) /\ w = write_locks[t][old]
        BY <1>8, <1>12, <1>21, <2>3, <3>1
      <4>. QED
        BY <1>3, <1>36, <2>1, <4>1 DEF VersionInv
    <3>2. CASE ~(old # 0 /\ ~locks[old].never_locked)
      <4>1. w = info
        BY <1>12, <2>3, <3>2
      <4>2. w.abort_lsn = old /\ w.abort_known_deleted = ~r.exists
        BY <1>10, <4>1
      <4>3. \A u \in Txns : \A id : ~Changed(u, k, id)
        BY <1>21, <2>2, <3>2
      <4>4. Shown(k) = Version(k, Len(log))
        BY <1>36, <4>3 DEF VersionInv
      <4>. QED
        BY <1>7, <4>2, <4>4 DEF Shown, Before
    <3>. QED
      BY <3>1, <3>2
  <2>5. ASSUME NEW u \in Txns, NEW id, Changed(u, k, id)'
        PROVE  Commits(u)' = {} /\ Version(k, Len(log))' = Before(write_locks[u][id])'
    <3>1. u = t /\ id = lsn
      BY <1>25, <2>2, <2>5
    <3>2. write_locks'[u][id] = w
      BY <1>11, <2>3, <3>1
    <3>3. Before(write_locks[u][id])' = Before(w)
      BY <3>2 DEF Before
    <3>. QED
      BY <1>33, <1>34, <2>1, <2>4, <3>1, <3>3
  <2>6. Changed(t, k, lsn)'
    BY <1>25
  <2>. QED
    BY <1>3, <2>5, <2>6 DEF VersionInv
<1>37. io_invalid' \/ \A q \in Keys : VersionInv(q)'
  BY <1>4, <1>5, <1>35, <1>36
<1>38. BeforeImageIsCommitted'
  BY <1>5, <1>16, <1>19, <1>33, BeforeStep
<1>. QED
  BY <1>27, <1>30, <1>31, <1>32, <1>37, <1>38 DEF DataInv

\* FinalizeWriteLock.
LEMMA FinalizeData ==
    ASSUME OwnHandles, TypeInv, TypeInv', TxnInv, DataInv, NEW c \in Callers, FinalizeWriteLock(c)
    PROVE  DataInv'
<1>1. CASE call[c].old = 0 /\ ~CheckState(call[c].txn)
  <2>1. call[c].pc = "finalize" /\ Return(c) /\ UNCHANGED <<inner, write_locks, tree, wal>>
    BY <1>1 DEF FinalizeWriteLock
  <2>. QED
    BY <1>1, <2>1, FinalizeRefused
<1>2. CASE ~(call[c].old = 0 /\ ~CheckState(call[c].txn))
  BY <1>2, FinalizeMoves
<1>. QED
  BY <1>1, <1>2

\* No change is committed while its transaction writes.
LEMMA WriterOpen ==
    ASSUME OwnHandles, TypeInv, TxnInv, NEW c \in Callers, NEW t, t = call[c].txn,
           call[c].pc \in WritePcs \ {"slot", "lock"}, ~io_invalid
    PROVE  Commits(t) = {}
<1>0. call[c].pc # "idle" /\ call[c].pc \notin {"slot", "lock"}
  BY DEF WritePcs
<1>1. Facts(t, call[c]) /\ call[c].op \in WriteOps
  BY <1>0, Busy, OwnFacts
<1>2. state[t] = "Open"
  BY <1>0, <1>1 DEF Facts, HandleInv
<1>3. Ends(t) = {}
  BY <1>1, <1>2 DEF Facts, LogInv, WriteOps, EndOps
<1>. QED
  BY <1>3 DEF Ends

\* ApplyTree: the slot gets the version whose lock is held and recorded.
LEMMA ApplyTreeData ==
    ASSUME OwnHandles, TypeInv, TypeInv', TxnInv, DataInv, NEW c \in Callers, ApplyTree(c)
    PROVE  DataInv'
<1>0. call[c].pc = "apply"
  BY DEF ApplyTree
<1>1. PICK r \in CallRecord(Len(log)) : r = call[c]
  BY <1>0, Busy
<1>2. PICK t, k, lsn : t = r.txn /\ k = r.key /\ lsn = r.new
  OBVIOUS
<1>3. t \in Handles[c] /\ t \in Txns /\ k \in Keys /\ t # 0 /\ r.op \in WriteOps
  BY <1>0, <1>1, <1>2, Busy DEF WritePcs
<1>4. inner' = inner /\ write_locks' = write_locks /\ log' = log /\ durable' = durable /\ io_invalid' = io_invalid
      /\ durable <= durable' /\ (io_invalid => io_invalid')
  BY LogIs DEF ApplyTree, wal, handle
<1>5. ExclusiveInv /\ SlotInv /\ LocksInv /\ CallsInv /\ WroteInv /\ (\A u \in Txns : CommitInv(u))
      /\ (io_invalid \/ \A q \in Keys : VersionInv(q)) /\ BeforeImageIsCommitted
  BY DEF DataInv
<1>6. CallInv(r) /\ Owns(t, k)
  BY <1>0, <1>1, <1>2, <1>5, PcIsPast, PastOwns DEF CallsInv
<1>7. /\ Wrote(t, k, lsn) /\ lsn \in 1 .. Len(log) /\ lsn # 0 /\ lsn \in Nat
      /\ log[lsn].deleted = (r.op = "Delete")
      /\ Recorded(t, lsn) /\ write_locks[t][lsn].key = k
  <2>1. /\ Wrote(t, k, lsn) /\ log[lsn].deleted = (r.op = "Delete")
        /\ Recorded(t, lsn) /\ write_locks[t][lsn].key = k
    BY <1>0, <1>1, <1>2, <1>6 DEF CallInv
  <2>. QED
    BY <2>1, LogIs DEF Wrote, IsVersion
<1>8. /\ tree'[k] = [lsn |-> lsn, exists |-> r.op # "Delete"]
      /\ \A q \in Keys : q # k => tree'[q] = tree[q]
  BY <1>1, <1>2, <1>3, LogIs DEF ApplyTree
<1>9. tree'[k].lsn = lsn /\ tree'[k].exists = ~log[lsn].deleted
  <2>1. tree'[k].lsn = lsn /\ tree'[k].exists = (r.op # "Delete")
    BY <1>8
  <2>2. CASE r.op = "Delete"
    BY <1>7, <2>1, <2>2
  <2>3. CASE r.op # "Delete"
    BY <1>7, <2>1, <2>3
  <2>. QED
    BY <2>2, <2>3
<1>10. call'[c] = Idle /\ \A d \in Callers \ {c} : call'[d] = call[d]
  BY LogIs DEF ApplyTree, Return
<1>11. Local(c, t)
  BY <1>1, <1>2, <1>4, <1>6, <1>8, <1>10, IdleFields DEF Local
<1>12. \A d \in Callers : (call[d].txn = t => d = c) /\ (call'[d].txn = t => d = c)
  BY <1>3, OwnCalls
<1>13. /\ \A u, i : Undone(u, i)' <=> Undone(u, i)
       /\ \A u, i : Finalizing(u, i)' <=> Finalizing(u, i)
  BY <1>0, <1>10, IdleFields DEF Undone, Finalizing
<1>14. /\ \A q, i : Applying(t, q, i) => q = k /\ i = lsn
       /\ \A i : ~Undone(t, i) /\ ~Finalizing(t, i)
  BY <1>0, <1>1, <1>2, <1>12 DEF Undone, Finalizing, Applying
<1>15. /\ \A u : Held(u)' = Held(u)
       /\ \A u, i : Recorded(u, i)' <=> Recorded(u, i)
       /\ \A u, q, i : Changed(u, q, i)' <=> Changed(u, q, i)
       /\ \A i, q : IsVersion(i, q)' <=> IsVersion(i, q)
       /\ \A u, i, q : Wrote(u, q, i)' <=> Wrote(u, q, i)
  BY <1>4, <1>13 DEF Held, Recorded, Changed, IsVersion, Wrote
<1>16. Changed(t, k, lsn)
  BY <1>7, <1>14 DEF Changed
<1>17. SlotInv'
  BY <1>5, <1>7, <1>8, <1>9, <1>15 DEF SlotInv, Wrote
<1>18. ASSUME NEW id \in Held(t)' PROVE InfoInv(t, id)'
  <2>1. PICK w, q : w = write_locks[t][id] /\ q = w.key
    OBVIOUS
  <2>2. InfoInv(t, id) /\ write_locks'[t][id] = w /\ id \in Held(t)
    BY <1>3, <1>4, <1>5, <1>15, <2>1 DEF LocksInv
  <2>3. CASE w.never_locked
    BY <2>1, <2>2, <2>3 DEF InfoInv
  <2>4. CASE ~w.never_locked
    <3>1. /\ q \in Keys /\ Wrote(t, q, id) /\ (w.abort_known_deleted \/ w.abort_lsn # 0)
          /\ w.abort_lsn # 0 => IsVersion(w.abort_lsn, q)
          /\ (tree[q].lsn = id /\ tree[q].exists = ~log[id].deleted) \/ Applying(t, q, id)
          /\ \A j : IsVersion(j, q) => j <= id
      BY <1>14, <2>1, <2>2, <2>4 DEF InfoInv
    <3>2. CASE q # k
      <4>1. tree'[q].lsn = id /\ tree'[q].exists = ~log[id].deleted
        BY <1>8, <1>14, <3>1, <3>2
      <4>. QED
        BY <1>4, <1>15, <2>1, <2>2, <2>4, <3>1, <4>1 DEF InfoInv
    <3>3. CASE q = k
      <4>1. InfoInv(t, lsn)
        BY <1>3, <1>5, <1>7 DEF LocksInv, Recorded, Held
      <4>2. \A j : IsVersion(j, k) => j <= lsn
        BY <1>7, <1>14, <4>1 DEF InfoInv, Recorded
      <4>3. id <= lsn /\ lsn <= id /\ id \in Nat
        BY <1>7, <3>1, <3>3, <4>2, LogIs DEF Wrote, IsVersion
      <4>4. id = lsn
        BY <1>7, <4>3
      <4>5. tree'[q].lsn = id /\ tree'[q].exists = ~log[id].deleted
        BY <1>9, <3>3, <4>4
      <4>. QED
        BY <1>4, <1>15, <2>1, <2>2, <2>4, <3>1, <4>5 DEF InfoInv
    <3>. QED
      BY <3>2, <3>3
  <2>. QED
    BY <2>3, <2>4
<1>19. ExclusiveInv' /\ LocksInv' /\ CallsInv'
  <2>1. \A u \in Txns \ {t} : Held(t)' \cap Held(u) = {}
    BY <1>3, <1>5, <1>15 DEF ExclusiveInv
  <2>2. \A d \in Callers \ {c} : call[d].pc = "finalize" =>
               call[d].new \notin Held(t)' /\ call'[c].want # call[d].new
    BY <1>3, <1>5, <1>10, <1>15, IdleInv, FinalizerNew
  <2>. QED
    BY <1>3, <1>5, <1>10, <1>11, <1>18, <2>1, <2>2, IdleInv, LocalStep
<1>20. WroteInv'
  <2>0. Idle.txn # t
    BY <1>3, IdleFields
  <2>1. Gone(t) => Gone(t)'
    BY <1>3, <1>4, <1>10, <2>0, GoneStays
  <2>2. io_invalid' \/ \A q, i : Wrote(t, q, i)' =>
               \/ \E id : Recorded(t, id)' /\ write_locks'[t][id].key = q
               \/ Finalizing(t, i)'
               \/ Gone(t)'
    BY <1>3, <1>4, <1>5, <1>13, <1>15, <2>1 DEF WroteInv
  <2>. QED
    BY <1>3, <1>5, <1>11, <2>2, LocalWrote
<1>21. \A u \in Txns : CommitInv(u)'
  <2>1. Idle.op \notin {"Commit", "ResolveCommit"} /\ call[c].pc # "sync"
    BY <1>0, IdleFields
  <2>2. CommitInv(t)'
    BY <1>3, <1>4, <1>5, <1>10, <2>1, OwnCommit
  <2>. QED
    BY <1>3, <1>5, <1>11, <2>2, LocalCommit
<1>22. ASSUME NEW q PROVE /\ LastCommitted(q, Len(log))' = LastCommitted(q, Len(log))
                          /\ Version(q, Len(log))' = Version(q, Len(log))
  BY <1>4 DEF LastCommitted, Version, IsCommitted, Frames
<1>23. \A u : Commits(u)' = Commits(u)
  BY <1>4, FramesKept
<1>24. ASSUME NEW q \in Keys, q # k, VersionInv(q) PROVE VersionInv(q)'
  BY <1>4, <1>8, <1>15, <1>22, <1>23, <1>24, VersionKept
<1>25. ASSUME ~io_invalid, VersionInv(k) PROVE VersionInv(k)'
  <2>1. Commits(t) = {}
    BY <1>0, <1>1, <1>2, <1>25, WriterOpen DEF WritePcs
  <2>2. \A u \in Txns : \A id : u # t => ~Changed(u, k, id)
    BY <1>3, <1>5, <1>6, <1>11, OwnVersion
  <2>3. ASSUME NEW u \in Txns, NEW id, Changed(u, k, id)'
        PROVE  Commits(u)' = {} /\ Version(k, Len(log))' = Before(write_locks[u][id])'
    <3>1. u = t /\ Changed(u, k, id)
      BY <1>15, <2>2, <2>3
    <3>2. Version(k, Len(log)) = Before(write_locks[u][id])
      BY <1>25, <2>1, <3>1 DEF VersionInv
    <3>3. Before(write_locks[u][id])' = Before(write_locks[u][id])
      BY <1>4 DEF Before
    <3>. QED
      BY <1>22, <1>23, <2>1, <3>1, <3>2, <3>3
  <2>4. Changed(t, k, lsn)'
    BY <1>15, <1>16
  <2>. QED
    BY <1>3, <2>3, <2>4 DEF VersionInv
<1>26. io_invalid' \/ \A q \in Keys : VersionInv(q)'
  BY <1>4, <1>5, <1>24, <1>25
<1>27. BeforeImageIsCommitted'
  BY <1>5, <1>11, <1>15, <1>22, BeforeStep
<1>. QED
  BY <1>17, <1>19, <1>20, <1>21, <1>26, <1>27 DEF DataInv

-----------------------------------------------------------------------------
(* Slots, locks and the log: the end of a transaction *)

\* WriteFrame: a commit frame makes the last LN of every record the transaction wrote the
\* committed one, and it is the one in the slot.
LEMMA WriteFrameData ==
    ASSUME OwnHandles, TypeInv, TypeInv', TxnInv, DataInv, NEW c \in Callers, WriteFrame(c)
    PROVE  DataInv'
<1>0. call[c].pc = "frame"
  BY DEF WriteFrame
<1>a. CASE io_invalid
  <2>1. Return(c) /\ UNCHANGED <<inner, write_locks, tree, wal>>
    BY <1>a DEF WriteFrame, handle, wal
  <2>. QED
    BY <1>0, <2>1, FailData
<1>b. CASE ~io_invalid
  <2>1. PICK r \in CallRecord(Len(log)) : r = call[c]
    BY <1>0, Busy
  <2>2. PICK t, n : t = r.txn /\ n = Len(log)
    OBVIOUS
  <2>3. t \in Handles[c] /\ t \in Txns /\ t # 0 /\ r.op \in EndOps \cup {"Prepare"} /\ n \in Nat
    BY <1>0, <2>1, <2>2, Busy, LogIs DEF EndPcs
  <2>4. inner' = inner /\ write_locks' = write_locks /\ tree' = tree /\ durable' = durable /\ io_invalid' = io_invalid
        /\ durable <= durable' /\ (io_invalid => io_invalid')
    BY LogIs DEF WriteFrame, handle
  <2>5. ExclusiveInv /\ SlotInv /\ LocksInv /\ CallsInv /\ WroteInv /\ (\A u \in Txns : CommitInv(u))
        /\ (\A q \in Keys : VersionInv(q)) /\ BeforeImageIsCommitted
    BY <1>b DEF DataInv
  <2>6. PICK e : log' = Append(log, e) /\ e.type = FrameType(r.op) /\ e.txn = t /\ e.sync = r.sync
    BY <1>b, <2>1, <2>2 DEF WriteFrame
  <2>7. /\ FrameType(r.op) # "LN"
        /\ FrameType(r.op) = "TxnCommit" <=> r.op \in {"Commit", "ResolveCommit"}
    BY <2>3 DEF FrameType, EndOps
  <2>8. Len(log') = n + 1 /\ log'[n + 1] = e /\ \A i \in 1 .. n : log'[i] = log[i]
    BY <2>2, <2>6 DEF TypeInv, LogType
  <2>9. e \in Entry
    BY <2>3, <2>8 DEF TypeInv, LogType
  <2>10. PICK pc : pc = IF r.sync THEN "sync" ELSE AfterFrame(r.op)
    OBVIOUS
  <2>11. pc \in {"sync", "inner", "collect"} /\ (r.sync => pc = "sync")
    BY <2>10 DEF AfterFrame
  <2>12. PICK new : new = [r EXCEPT !.pc = pc]
    OBVIOUS
  <2>13. new.pc = pc /\ new.op = r.op /\ new.txn = t /\ new.want = r.want
    BY <2>2, <2>12 DEF CallRecord
  <2>14. call'[c] = new /\ \A d \in Callers \ {c} : call'[d] = call[d]
    <3>1. Goto(c, pc)
      BY <1>b, <2>1, <2>10 DEF WriteFrame
    <3>2. call' = [call EXCEPT ![c] = new]
      BY <2>1, <2>12, <3>1, GotoIs
    <3>. QED
      BY <3>2, LogIs
  <2>15. Local(c, t)
    <3>1. \A i \in 1 .. n : i \in 1 .. n + 1
      BY <2>3
    <3>2. \A i \in 1 .. n + 1 : i \in 1 .. n \/ i = n + 1
      BY <2>3
    <3>. QED
      BY <2>1, <2>2, <2>4, <2>6, <2>7, <2>8, <2>13, <2>14, <3>1, <3>2 DEF Local
  <2>16. \A d \in Callers : (call[d].txn = t => d = c) /\ (call'[d].txn = t => d = c)
    BY <2>3, OwnCalls
  <2>17. /\ \A u, i : Undone(u, i)' <=> Undone(u, i)
         /\ \A u, i : Finalizing(u, i)' <=> Finalizing(u, i)
         /\ \A u, q, i : Applying(u, q, i)' <=> Applying(u, q, i)
    BY <1>0, <2>11, <2>13, <2>14 DEF Undone, Finalizing, Applying
  <2>18. \A i : ~Undone(t, i) /\ ~Finalizing(t, i)
    BY <1>0, <2>16 DEF Undone, Finalizing
  <2>19. /\ \A u : Held(u)' = Held(u)
         /\ \A u, i : Recorded(u, i)' <=> Recorded(u, i)
         /\ \A u, q, i : Changed(u, q, i)' <=> Changed(u, q, i)
    BY <2>4, <2>17 DEF Held, Recorded, Changed
  <2>20. /\ \A i, q : IsVersion(i, q)' <=> IsVersion(i, q)
         /\ \A u, i, q : Wrote(u, q, i)' <=> Wrote(u, q, i)
    <3>1. \A i : i \in 1 .. n + 1 <=> i \in 1 .. n \/ i = n + 1
      BY <2>3
    <3>2. \A i, q : IsVersion(i, q)' <=> IsVersion(i, q)
      BY <2>2, <2>6, <2>7, <2>8, <3>1 DEF IsVersion
    <3>. QED
      BY <2>2, <2>8, <3>2 DEF Wrote, IsVersion
  <2>21. SlotInv'
    BY <2>4, <2>5, <2>20 DEF SlotInv
  <2>22. ASSUME NEW id \in Held(t)' PROVE InfoInv(t, id)'
    <3>1. InfoInv(t, id)
      BY <2>3, <2>5, <2>19 DEF LocksInv
    <3>2. \A q : Wrote(t, q, id) => log'[id] = log[id]
      BY <2>15, VersionsStay DEF Wrote
    <3>. QED
      BY <2>4, <2>17, <2>20, <3>1, <3>2 DEF InfoInv
  <2>23. CallInv(new)'
    BY <2>3, <2>11, <2>13 DEF CallInv, Past, WriteOps, EndOps
  <2>24. ExclusiveInv' /\ LocksInv' /\ CallsInv'
    <3>1. \A u \in Txns \ {t} : Held(t)' \cap Held(u) = {}
      BY <2>3, <2>5, <2>19 DEF ExclusiveInv
    <3>2. \A d \in Callers \ {c} : call[d].pc = "finalize" =>
                 call[d].new \notin Held(t)' /\ call'[c].want # call[d].new
      BY <2>1, <2>3, <2>5, <2>13, <2>14, <2>19, FinalizerNew
    <3>. QED
      BY <2>3, <2>5, <2>14, <2>15, <2>22, <2>23, <3>1, <3>2, LocalStep
  <2>25. r.op = "Commit" => ~Gone(t)
    BY <1>0, <2>1, <2>2 DEF Gone
  <2>26. WroteInv'
    <3>1. Gone(t) => Gone(t)'
      BY <2>3, <2>4, <2>13, <2>14, <2>25, GoneStays
    <3>2. io_invalid' \/ \A q, i : Wrote(t, q, i)' =>
                 \/ \E id : Recorded(t, id)' /\ write_locks'[t][id].key = q
                 \/ Finalizing(t, i)'
                 \/ Gone(t)'
      BY <2>3, <2>4, <2>5, <2>17, <2>19, <2>20, <3>1 DEF WroteInv
    <3>. QED
      BY <2>3, <2>5, <2>15, <3>2, LocalWrote
  <2>27. Facts(t, r) /\ Ends(t) = {}
    <3>1. Facts(t, r)
      BY <2>1, <2>2, <2>3, OwnFacts
    <3>2. state[t] \notin {"Committed", "Aborted"}
      BY <2>3, <3>1 DEF Facts, HandleInv, EndOps
    <3>. QED
      BY <1>0, <1>b, <2>1, <3>1, <3>2 DEF Facts, LogInv
  <2>28. /\ Commits(t) = {}
         /\ Commits(t)' = IF r.op \in {"Commit", "ResolveCommit"} THEN {n + 1} ELSE {}
    <3>1. Commits(t) = {}
      BY <2>27 DEF Ends
    <3>2. Frames(t, "TxnCommit", Len(log))' =
               IF e.type = "TxnCommit" /\ e.txn = t THEN Frames(t, "TxnCommit", Len(log)) \cup {Len(log) + 1}
               ELSE Frames(t, "TxnCommit", Len(log))
      BY <2>6, <2>9, FramesAppend
    <3>. QED
      BY <2>2, <2>6, <2>7, <3>1, <3>2 DEF Commits
  <2>29. \A u \in Txns : CommitInv(u)'
    <3>1. CommitInv(t)'
      <4>1. ASSUME NEW d \in Callers, call'[d].txn = t, call'[d].op \in {"Commit", "ResolveCommit"}
            PROVE  Commits(t)' # {}
        <5>1. call'[d] = new
          BY <2>14, <2>16, <4>1
        <5>2. r.op \in {"Commit", "ResolveCommit"}
          BY <2>13, <4>1, <5>1
        <5>. QED
          BY <2>28, <5>2
      <4>2. ASSUME NEW i \in Commits(t)', log'[i].sync
            PROVE  call'[c].txn = t /\ call'[c].pc = "sync" /\ call'[c].op \in {"Commit", "ResolveCommit"}
        <5>1. i = n + 1 /\ r.op \in {"Commit", "ResolveCommit"}
          BY <2>28, <4>2
        <5>2. r.sync
          BY <2>6, <2>8, <4>2, <5>1
        <5>. QED
          BY <2>11, <2>13, <2>14, <5>1, <5>2
      <4>. QED
        BY <4>1, <4>2 DEF CommitInv
    <3>. QED
      BY <2>3, <2>5, <2>15, <3>1, LocalCommit
  <2>30. ASSUME NEW u \in Txns, u # t PROVE Commits(u)' = Commits(u)
    <3>1. Frames(u, "TxnCommit", Len(log))' = Frames(u, "TxnCommit", Len(log))
      BY <2>15, <2>30, OthersFrames
    <3>. QED
      BY <3>1 DEF Commits
  \* A record that the step commits has its last version from the transaction, in the slot.
  <2>31. ASSUME NEW k, NEW i, Wrote(t, k, i), r.op \in {"Commit", "ResolveCommit"}
         PROVE  \E id : /\ Changed(t, k, id) /\ \A j : IsVersion(j, k) => j <= id
                        /\ LastCommitted(k, Len(log))' = id /\ Version(k, Len(log))' = Shown(k)
    <3>1. ~Gone(t)
      <4>1. CASE r.op = "Commit"
        BY <2>25, <4>1
      <4>2. CASE r.op = "ResolveCommit"
        <5>1. inner[t] = "Open"
          BY <1>0, <2>1, <2>27, <4>2 DEF Facts, HandleInv, Late
        <5>. QED
          BY <5>1 DEF Gone
      <4>. QED
        BY <2>31, <4>1, <4>2
    <3>2. PICK id : Recorded(t, id) /\ write_locks[t][id].key = k
      BY <1>b, <2>3, <2>5, <2>18, <2>31, <3>1 DEF WroteInv
    <3>3. Changed(t, k, id)
      BY <2>18, <3>2 DEF Changed
    <3>4. InfoInv(t, id)
      BY <2>3, <2>5, <3>2 DEF LocksInv, Recorded, Held
    <3>5. Wrote(t, k, id) /\ \A j : IsVersion(j, k) => j <= id
      BY <2>18, <3>2, <3>4 DEF InfoInv, Recorded
    <3>6. \A j : IsVersion(j, k)' => j <= id
      BY <2>20, <3>5
    <3>7. Commits(t)' # {}
      BY <2>28, <2>31
    <3>8. LastCommitted(k, Len(log))' = id /\ Version(k, Len(log))' = IF log[id].deleted THEN 0 ELSE id
      BY <2>15, <3>5, <3>6, <3>7, LastCommits
    <3>9. call[c].txn = t /\ call[c].pc # "apply"
      BY <1>0, <2>1, <2>2
    <3>10. Shown(k) = IF log[id].deleted THEN 0 ELSE id
      <4>1. LocksInv
        BY <2>5
      <4>2. \A p, j : Changed(t, p, j) => tree[p].lsn = j /\ Shown(p) = IF log[j].deleted THEN 0 ELSE j
        BY <2>3, <3>9, <4>1, OwnChange, ZenonT(30)
      <4>. QED
        BY <3>3, <4>2
    <3>. QED
      BY <3>3, <3>5, <3>8, <3>10
  <2>32. ASSUME NEW k, (\A i : ~Wrote(t, k, i)) \/ r.op \notin {"Commit", "ResolveCommit"}
         PROVE  /\ LastCommitted(k, Len(log))' = LastCommitted(k, Len(log))
                /\ Version(k, Len(log))' = Version(k, Len(log))
    <3>1. (\A i : ~Wrote(t, k, i)') \/ Commits(t)' = Commits(t)
      BY <2>20, <2>28, <2>32
    <3>2. \A i : ~(Wrote(t, k, i)' /\ ~Wrote(t, k, i))
      BY <2>20
    <3>3. CommittedLNs(k)' = CommittedLNs(k)
      BY <2>3, <2>15, <3>1, <3>2, NoneCommitted
    <3>. QED
      BY <2>15, <3>3, VersionSame
  <2>33. ASSUME NEW k \in Keys PROVE VersionInv(k)'
    <3>0. VersionInv(k) /\ tree'[k] = tree[k] /\ Shown(k)' = Shown(k)
      BY <2>4, <2>5 DEF Shown
    <3>1. CASE (\A i : ~Wrote(t, k, i)) \/ r.op \notin {"Commit", "ResolveCommit"}
      <4>1. ASSUME NEW u \in Txns, NEW id, Changed(u, k, id) PROVE Commits(u)' = {} <=> Commits(u) = {}
        <5>1. CASE u # t
          BY <2>30, <5>1
        <5>2. CASE u = t
          <6>1. Wrote(t, k, id)
            BY <2>3, <2>5, <4>1, <5>2, ChangedOwns
          <6>. QED
            BY <2>28, <3>1, <5>2, <6>1
        <5>. QED
          BY <5>1, <5>2
      <4>2. Version(k, Len(log))' = Version(k, Len(log))
        BY <2>32, <3>1
      <4>3. \A u \in Txns : \A id : /\ Changed(u, k, id)' <=> Changed(u, k, id)
                                    /\ Changed(u, k, id) => /\ write_locks'[u][id] = write_locks[u][id]
                                                            /\ Commits(u)' = {} <=> Commits(u) = {}
        BY <2>4, <2>19, <4>1
      <4>. QED
        BY <3>0, <4>2, <4>3, VersionKept
    <3>2. CASE (\E i : Wrote(t, k, i)) /\ r.op \in {"Commit", "ResolveCommit"}
      <4>1. PICK id : Changed(t, k, id) /\ Version(k, Len(log))' = Shown(k)
        BY <2>31, <3>2
      <4>2. Owns(t, k)
        BY <2>3, <2>5, <4>1, ChangedOwns
      <4>3. \A u \in Txns : \A j : Changed(u, k, j)' => u = t
        BY <2>3, <2>5, <2>15, <4>2, OwnVersion
      <4>4. Changed(t, k, id)' /\ Commits(t)' # {}
        BY <2>19, <2>28, <3>2, <4>1
      <4>. QED
        BY <2>3, <3>0, <4>1, <4>3, <4>4 DEF VersionInv
    <3>. QED
      BY <3>1, <3>2
  <2>34. BeforeImageIsCommitted'
    <3>1. ASSUME NEW k, NEW i, IsVersion(i, k)
          PROVE  \/ /\ LastCommitted(k, Len(log))' = LastCommitted(k, Len(log))
                    /\ Version(k, Len(log))' = Version(k, Len(log))
                 \/ ~(LastCommitted(k, Len(log))' < i)
      <4>1. CASE (\A j : ~Wrote(t, k, j)) \/ r.op \notin {"Commit", "ResolveCommit"}
        BY <2>32, <4>1
      <4>2. CASE (\E j : Wrote(t, k, j)) /\ r.op \in {"Commit", "ResolveCommit"}
        <5>1. PICK id : Changed(t, k, id) /\ i <= id /\ LastCommitted(k, Len(log))' = id
          BY <2>31, <3>1, <4>2
        <5>2. id \in 1 .. Len(log) /\ i \in 1 .. Len(log) /\ Len(log) \in Nat
          BY <2>3, <2>5, <3>1, <5>1, ChangedOwns, LogIs DEF IsVersion
        <5>3. ~(id < i)
          BY <5>1, <5>2
        <5>. QED
          BY <5>1, <5>3
      <4>. QED
        BY <4>1, <4>2
    <3>2. \A k, i : ~(IsVersion(i, k)' /\ ~IsVersion(i, k))
      BY <2>20
    <3>. QED
      BY <2>5, <2>15, <3>1, <3>2, BeforeStep
  <2>. QED
    BY <2>4, <2>21, <2>24, <2>26, <2>29, <2>33, <2>34 DEF DataInv
<1>. QED
  BY <1>a, <1>b

\* The step that lets go of a transaction's locks, once its changes are committed or
\* taken back.
LEMMA ReleaseData ==
    ASSUME OwnHandles, TypeInv, TypeInv', DataInv, NEW c \in Callers, NEW t \in Handles[c], NEW new,
           call[c].txn \in {0, t}, call'[c] = new, \A d \in Callers \ {c} : call'[d] = call[d],
           UNCHANGED <<tree, wal>>, write_locks'[t] = << >>,
           \A u \in Txns \ {t} : write_locks'[u] = write_locks[u] /\ inner'[u] = inner[u],
           call[c].pc \in {"idle", "inner", "undo"},
           \/ new = Idle
           \/ /\ new.txn = t /\ new.op \in {"Commit", "ResolveCommit"} /\ new.pc = "end"
              /\ new.want = call[c].want /\ (LNs(t) = {} \/ Commits(t) # {}),
           io_invalid \/ inner'[t] # "Open",
           io_invalid \/ \A k, id : Changed(t, k, id) => Commits(t) # {}
    PROVE  DataInv'
<1>0. t \in Txns /\ t # 0
  BY HandleTxns
<1>1. log' = log /\ durable' = durable /\ io_invalid' = io_invalid /\ tree' = tree /\ durable <= durable'
      /\ (io_invalid => io_invalid')
  BY LogIs DEF wal
<1>2. ExclusiveInv /\ SlotInv /\ LocksInv /\ CallsInv /\ WroteInv /\ (\A u \in Txns : CommitInv(u))
      /\ (io_invalid \/ \A k \in Keys : VersionInv(k)) /\ BeforeImageIsCommitted
  BY DEF DataInv
<1>3. /\ CallInv(new)' /\ new.txn \in {0, t} /\ new.want \in {0, call[c].want}
      /\ new.pc \notin {"finalize", "apply", "undo", "frame", "sync", "inner"}
  <2>1. CASE new = Idle
    BY <2>1, IdleInv, IdleFields
  <2>2. CASE new # Idle
    BY <2>2 DEF CallInv, Past, WriteOps
  <2>. QED
    BY <2>1, <2>2
<1>4. Local(c, t)
  BY <1>1, <1>3 DEF Local
<1>5. Held(t)' = {} /\ \A id : ~Recorded(t, id)'
  BY DEF Held, Recorded
<1>6. \A k, id : ~Changed(t, k, id)'
  BY <1>5 DEF Changed
<1>7. /\ \A i, k : IsVersion(i, k)' <=> IsVersion(i, k)
      /\ \A u, i, k : Wrote(u, k, i)' <=> Wrote(u, k, i)
  BY <1>1 DEF IsVersion, Wrote
<1>8. SlotInv'
  BY <1>1, <1>2, <1>7 DEF SlotInv
<1>9. ExclusiveInv' /\ LocksInv' /\ CallsInv'
  <2>1. \A u \in Txns \ {t} : Held(t)' \cap Held(u) = {}
    BY <1>5
  <2>2. \A d \in Callers \ {c} : call[d].pc = "finalize" =>
               call[d].new \notin Held(t)' /\ call'[c].want # call[d].new
    BY <1>2, <1>3, <1>5, FinalizerNew
  <2>3. \A id \in Held(t)' : InfoInv(t, id)'
    BY <1>5
  <2>. QED
    BY <1>2, <1>3, <1>4, <2>1, <2>2, <2>3, LocalStep
<1>10. WroteInv'
  <2>1. io_invalid' \/ Gone(t)'
    <3>1. \A d \in Callers : call'[d].txn = t => d = c
      BY OwnCalls
    <3>. QED
      BY <1>1, <1>3, <3>1 DEF Gone
  <2>2. io_invalid' \/ \A k, i : Wrote(t, k, i)' =>
               \/ \E id : Recorded(t, id)' /\ write_locks'[t][id].key = k
               \/ Finalizing(t, i)'
               \/ Gone(t)'
    BY <2>1
  <2>. QED
    BY <1>0, <1>2, <1>4, <2>2, LocalWrote
<1>11. \A u \in Txns : CommitInv(u)'
  <2>1. new.op \in {"Commit", "ResolveCommit"} => LNs(t) = {} \/ Commits(t) # {}
    BY IdleFields
  <2>2. CommitInv(t)'
    BY <1>0, <1>1, <1>2, <2>1, OwnCommit
  <2>. QED
    BY <1>0, <1>2, <1>4, <2>2, LocalCommit
<1>12. ASSUME NEW k PROVE /\ LastCommitted(k, Len(log))' = LastCommitted(k, Len(log))
                          /\ Version(k, Len(log))' = Version(k, Len(log))
  BY <1>1 DEF LastCommitted, Version, IsCommitted, Frames
<1>13. ASSUME ~io_invalid, NEW k \in Keys PROVE VersionInv(k)'
  <2>0. VersionInv(k) /\ tree'[k] = tree[k] /\ Shown(k)' = Shown(k)
    BY <1>1, <1>2, <1>13 DEF Shown
  <2>1. CASE \E id : Changed(t, k, id)
    <3>1. Owns(t, k)
      BY <1>0, <1>2, <2>1, ChangedOwns
    <3>2. \A u \in Txns : \A j : ~Changed(u, k, j)'
      BY <1>0, <1>2, <1>4, <1>6, <3>1, OwnVersion
    <3>3. Version(k, Len(log)) = Shown(k)
      BY <1>0, <1>13, <2>0, <2>1 DEF VersionInv
    <3>. QED
      BY <1>12, <2>0, <3>2, <3>3 DEF VersionInv
  <2>2. CASE \A id : ~Changed(t, k, id)
    <3>1. ASSUME NEW u \in Txns, NEW id
          PROVE  /\ Changed(u, k, id)' <=> Changed(u, k, id)
                 /\ Changed(u, k, id) => /\ write_locks'[u][id] = write_locks[u][id]
                                         /\ Commits(u)' = {} <=> Commits(u) = {}
      <4>1. CASE u = t
        BY <1>6, <2>2, <4>1
      <4>2. CASE u # t
        <5>1. Commits(u)' = Commits(u)
          BY <1>1, FramesKept
        <5>2. Changed(u, k, id)' <=> Changed(u, k, id)
          BY <1>4, <4>2, OthersCalls
        <5>. QED
          BY <4>2, <5>1, <5>2
      <4>. QED
        BY <4>1, <4>2
    <3>. QED
      BY <1>12, <2>0, <3>1, VersionKept
  <2>. QED
    BY <2>1, <2>2
<1>14. BeforeImageIsCommitted'
  BY <1>2, <1>4, <1>7, <1>12, BeforeStep
<1>. QED
  BY <1>1, <1>8, <1>9, <1>10, <1>11, <1>13, <1>14 DEF DataInv

\* A change of a transaction that may release its locks is committed.
LEMMA ChangeIsCommitted ==
    ASSUME TypeInv, LocksInv, CallsInv, NEW t \in Txns, LNs(t) = {} \/ Commits(t) # {},
           NEW k, NEW id, Changed(t, k, id)
    PROVE  Commits(t) # {}
<1>1. Wrote(t, k, id)
  BY ChangedOwns
<1>2. id \in LNs(t)
  BY <1>1 DEF Wrote, IsVersion, LNs, Frames
<1>. QED
  BY <1>2

\* CommitInner and ResolveCommitInner.
LEMMA CommitInnerData ==
    ASSUME OwnHandles, TypeInv, TypeInv', TxnInv, DataInv, NEW c \in Callers,
           CommitInner(c) \/ ResolveCommitInner(c)
    PROVE  DataInv'
<1>0. call[c].pc = "inner" /\ call[c].op \in {"Commit", "ResolveCommit"} /\ UNCHANGED <<tree, wal>>
  BY DEF CommitInner, ResolveCommitInner
<1>1. PICK r \in CallRecord(Len(log)) : r = call[c]
  BY <1>0, Busy
<1>2. PICK t \in Handles[c] : t = r.txn
  BY <1>0, <1>1, Busy
<1>3. t \in Txns /\ Facts(t, r) /\ DOMAIN write_locks = Txns /\ DOMAIN inner = Txns /\ DOMAIN call = Callers
  BY <1>1, <1>2, HandleTxns, OwnFacts, LogIs
<1>4. LocksInv /\ CallsInv /\ CommitInv(t)
  BY <1>3 DEF DataInv
<1>5. LNs(t) = {} \/ Commits(t) # {}
  BY <1>0, <1>1, <1>2, <1>4 DEF CommitInv
<1>6. r.op = "Commit" => ~prepared[t]
  BY <1>0, <1>1, <1>3 DEF Facts, HandleInv
<1>7. r.op = "ResolveCommit" => prepared[t] /\ inner[t] = "Open"
  BY <1>0, <1>1, <1>3 DEF Facts, HandleInv, Late
<1>8. /\ write_locks' = [write_locks EXCEPT ![t] = << >>]
      /\ inner' = [inner EXCEPT ![t] = IF @ = "Open" THEN "Committed" ELSE @]
  BY <1>0, <1>1, <1>2, <1>6, <1>7 DEF CommitInner, ResolveCommitInner, ReleaseAllLocks
<1>9. /\ write_locks'[t] = << >> /\ inner'[t] # "Open"
      /\ \A u \in Txns \ {t} : write_locks'[u] = write_locks[u] /\ inner'[u] = inner[u]
  BY <1>3, <1>8
<1>10. \E new : /\ call'[c] = new /\ \A d \in Callers \ {c} : call'[d] = call[d]
                /\ new.txn = t /\ new.op \in {"Commit", "ResolveCommit"} /\ new.pc = "end"
                /\ new.want = call[c].want
  <2>1. CASE CommitInner(c)
    <3>1. PICK err : err = (prepared[t] \/ ~CheckState(t))
      OBVIOUS
    <3>2. call' = [call EXCEPT ![c] = [r EXCEPT !.err = err, !.pc = "end"]]
      BY <1>1, <1>2, <1>3, <2>1, <3>1 DEF CommitInner
    <3>. DEFINE new == [r EXCEPT !.err = err, !.pc = "end"]
    <3>3. new.txn = t /\ new.op = r.op /\ new.pc = "end" /\ new.want = r.want
      BY <1>2 DEF CallRecord
    <3>4. call'[c] = new /\ \A d \in Callers \ {c} : call'[d] = call[d]
      BY <1>3, <3>2
    <3>. HIDE DEF new
    <3>. QED
      BY <1>0, <1>1, <3>3, <3>4
  <2>2. CASE ResolveCommitInner(c)
    <3>1. call[c].op = "ResolveCommit"
      BY <2>2 DEF ResolveCommitInner
    <3>2. Goto(c, "end")
      BY <1>1, <1>2, <1>7, <2>2, <3>1 DEF ResolveCommitInner, CheckState
    <3>3. call' = [call EXCEPT ![c] = [r EXCEPT !.pc = "end"]]
      BY <1>1, <3>2, GotoIs
    <3>. DEFINE new == [r EXCEPT !.pc = "end"]
    <3>4. new.txn = t /\ new.op = r.op /\ new.pc = "end" /\ new.want = r.want
      BY <1>2 DEF CallRecord
    <3>5. call'[c] = new /\ \A d \in Callers \ {c} : call'[d] = call[d]
      BY <1>3, <3>3
    <3>. HIDE DEF new
    <3>. QED
      BY <1>0, <1>1, <3>4, <3>5
  <2>. QED
    BY <2>1, <2>2
<1>11. \A k, id : Changed(t, k, id) => Commits(t) # {}
  BY <1>3, <1>4, <1>5, ChangeIsCommitted
<1>12. call[c].txn \in {0, t} /\ call[c].pc \in {"idle", "inner", "undo"}
  BY <1>0, <1>1, <1>2
<1>. QED
  BY <1>0, <1>5, <1>9, <1>10, <1>11, <1>12, ReleaseData

\* FinishAbort: every change has been taken back.
LEMMA FinishAbortData ==
    ASSUME OwnHandles, TypeInv, TypeInv', TxnInv, DataInv, NEW c \in Callers, FinishAbort(c)
    PROVE  DataInv'
<1>0. call[c].pc = "undo" /\ call[c].undo = {} /\ UNCHANGED <<tree, wal>> /\ inner' = inner
  BY DEF FinishAbort
<1>1. PICK r \in CallRecord(Len(log)) : r = call[c]
  BY <1>0, Busy
<1>2. PICK t \in Handles[c] : t = r.txn
  BY <1>0, <1>1, Busy
<1>3. t \in Txns /\ Facts(t, r) /\ DOMAIN write_locks = Txns /\ DOMAIN call = Callers
  BY <1>1, <1>2, HandleTxns, OwnFacts, LogIs
<1>4. inner[t] # "Open"
  <2>1. r.op \in {"Abort", "ResolveAbort"}
    BY <1>0, <1>1, Busy, IdleFields DEF Shape, WritePcs
  <2>. QED
    BY <1>0, <1>1, <1>3, <2>1 DEF Facts, HandleInv, Late, EndOps
<1>5. write_locks' = [write_locks EXCEPT ![t] = << >>]
  BY <1>1, <1>2 DEF FinishAbort, ReleaseAllLocks
<1>6. write_locks'[t] = << >> /\ \A u \in Txns \ {t} : write_locks'[u] = write_locks[u] /\ inner'[u] = inner[u]
  BY <1>0, <1>3, <1>5
<1>7. call'[c] = Idle /\ \A d \in Callers \ {c} : call'[d] = call[d]
  BY <1>3 DEF FinishAbort, Finish, Return
<1>8. \A k, id : ~Changed(t, k, id)
  BY <1>0, <1>1, <1>2 DEF Changed, Undone
<1>9. call[c].txn \in {0, t} /\ call[c].pc \in {"idle", "inner", "undo"}
  BY <1>0, <1>1, <1>2
<1>10. io_invalid \/ inner'[t] # "Open"
  BY <1>0, <1>4
<1>11. io_invalid \/ \A k, id : Changed(t, k, id) => Commits(t) # {}
  BY <1>8
<1>. QED
  BY <1>0, <1>6, <1>7, <1>9, <1>10, <1>11, ReleaseData

\* On a failed log an abort only lets go of the locks.
LEMMA TearDownData ==
    ASSUME OwnHandles, TypeInv, TypeInv', DataInv, NEW c \in Callers, StartAbort(c), io_invalid
    PROVE  DataInv'
<1>1. call[c] = Idle /\ DOMAIN write_locks = Txns
  BY IdleCall, LogIs DEF StartAbort
<1>2. UNCHANGED <<tree, wal>> /\ inner' = inner
  BY DEF StartAbort
<1>3. PICK t \in Handles[c] : write_locks' = [write_locks EXCEPT ![t] = << >>] /\ call' = call
  BY DEF StartAbort, ReleaseAllLocks, CheckEnv
<1>4. t \in Txns
  BY HandleTxns
<1>5. write_locks'[t] = << >> /\ \A u \in Txns \ {t} : write_locks'[u] = write_locks[u] /\ inner'[u] = inner[u]
  BY <1>1, <1>2, <1>3, <1>4
<1>6. call'[c] = Idle /\ \A d \in Callers \ {c} : call'[d] = call[d]
  BY <1>1, <1>3
<1>7. call[c].txn \in {0, t} /\ call[c].pc \in {"idle", "inner", "undo"}
  BY <1>1, IdleFields
<1>. QED
  BY <1>2, <1>5, <1>6, <1>7, ReleaseData

\* CollectUndo: no recorded before-image is missed.
LEMMA CollectUndoData ==
    ASSUME OwnHandles, TypeInv, TypeInv', TxnInv, DataInv, NEW c \in Callers, CollectUndo(c)
    PROVE  DataInv'
<1>0. call[c].pc = "collect" /\ UNCHANGED <<write_locks, tree, wal>>
  BY DEF CollectUndo
<1>1. PICK r \in CallRecord(Len(log)) : r = call[c]
  BY <1>0, Busy
<1>2. PICK t \in Handles[c] : t = r.txn
  BY <1>0, <1>1, Busy
<1>3. t \in Txns /\ t # 0 /\ Facts(t, r) /\ DOMAIN inner = Txns /\ DOMAIN call = Callers
  BY <1>1, <1>2, HandleTxns, OwnFacts, LogIs
<1>4. r.op \in {"Abort", "ResolveAbort"}
  BY <1>0, <1>1, Busy, IdleFields DEF Shape, WritePcs
<1>5. inner[t] \in {"Open", "MustAbort"}
  BY <1>0, <1>1, <1>3, <1>4 DEF Facts, HandleInv, Late
<1>6. PICK undo : undo = UndoOf(t)
  OBVIOUS
<1>7. PICK new : new = [r EXCEPT !.undo = undo, !.pc = "undo"]
  OBVIOUS
<1>8. new.pc = "undo" /\ new.op = r.op /\ new.txn = t /\ new.want = r.want /\ new.undo = undo
  BY <1>2, <1>7 DEF CallRecord
<1>9. /\ call'[c] = new /\ \A d \in Callers \ {c} : call'[d] = call[d]
      /\ inner'[t] = "Aborted" /\ \A u \in Txns \ {t} : inner'[u] = inner[u]
  <2>1. /\ call' = [call EXCEPT ![c].undo = undo, ![c].pc = "undo"]
        /\ inner' = [inner EXCEPT ![t] = IF @ = "Committed" THEN @ ELSE "Aborted"]
    BY <1>1, <1>2, <1>5, <1>6 DEF CollectUndo
  <2>2. call' = [call EXCEPT ![c] = new]
    BY <1>1, <1>3, <1>7, <2>1
  <2>. QED
    BY <1>3, <1>5, <2>1, <2>2
<1>10. ExclusiveInv /\ SlotInv /\ LocksInv /\ CallsInv /\ WroteInv /\ (\A u \in Txns : CommitInv(u))
      /\ (io_invalid \/ \A k \in Keys : VersionInv(k)) /\ BeforeImageIsCommitted
  BY DEF DataInv
<1>11. log' = log /\ durable' = durable /\ io_invalid' = io_invalid /\ tree' = tree /\ write_locks' = write_locks
       /\ durable <= durable' /\ (io_invalid => io_invalid')
  BY <1>0, LogIs DEF wal
<1>12. Local(c, t)
  BY <1>1, <1>2, <1>8, <1>9, <1>11 DEF Local
<1>13. \A d \in Callers : (call[d].txn = t => d = c) /\ (call'[d].txn = t => d = c)
  BY OwnCalls
<1>14. /\ \A id : ~Undone(t, id) /\ ~Finalizing(t, id) /\ ~Finalizing(t, id)'
       /\ \A k, id : ~Applying(t, k, id) /\ ~Applying(t, k, id)'
  BY <1>0, <1>8, <1>9, <1>13 DEF Undone, Finalizing, Applying
<1>15. /\ \A u : Held(u)' = Held(u)
       /\ \A u, id : Recorded(u, id)' <=> Recorded(u, id)
       /\ \A i, k : IsVersion(i, k)' <=> IsVersion(i, k)
       /\ \A u, i, k : Wrote(u, k, i)' <=> Wrote(u, k, i)
  BY <1>11 DEF Held, Recorded, IsVersion, Wrote
\* Every recorded before-image is collected.
<1>16. ASSUME NEW id, Recorded(t, id) PROVE ~Undone(t, id)'
  <2>1. PICK w : w = write_locks[t][id]
    OBVIOUS
  <2>2. InfoInv(t, id)
    BY <1>3, <1>10, <1>16 DEF LocksInv, Recorded, Held
  <2>3. w.abort_known_deleted \/ w.abort_lsn # 0
    BY <1>16, <2>1, <2>2 DEF InfoInv, Recorded
  <2>. DEFINE u == [lsn |-> id, abort_lsn |-> w.abort_lsn, key |-> w.key,
                    abort_known_deleted |-> w.abort_known_deleted]
  <2>4. u \in undo /\ u.lsn = id
    BY <1>6, <1>16, <2>1, <2>3 DEF UndoOf, Recorded
  <2>. HIDE DEF u
  <2>. QED
    BY <1>8, <1>9, <1>13, <2>4 DEF Undone
<1>17. \A k, id : Changed(t, k, id)' <=> Changed(t, k, id)
  BY <1>11, <1>14, <1>15, <1>16 DEF Changed
<1>18. SlotInv'
  BY <1>10, <1>11, <1>15 DEF SlotInv
<1>19. ASSUME NEW id \in Held(t)' PROVE InfoInv(t, id)'
  <2>1. InfoInv(t, id)
    BY <1>3, <1>10, <1>15 DEF LocksInv
  <2>. QED
    BY <1>11, <1>14, <1>15, <2>1 DEF InfoInv
<1>20. CallInv(new)'
  <2>1. ASSUME NEW u \in undo
        PROVE  /\ Recorded(t, u.lsn) /\ u.key = write_locks[t][u.lsn].key
               /\ u.abort_lsn = write_locks[t][u.lsn].abort_lsn
               /\ u.abort_known_deleted = write_locks[t][u.lsn].abort_known_deleted
    <3>1. PICK id \in DOMAIN write_locks[t] :
             /\ write_locks[t][id].abort_known_deleted \/ write_locks[t][id].abort_lsn # 0
             /\ u = [lsn |-> id, abort_lsn |-> write_locks[t][id].abort_lsn, key |-> write_locks[t][id].key,
                     abort_known_deleted |-> write_locks[t][id].abort_known_deleted]
      BY <1>6, <2>1 DEF UndoOf
    <3>2. InfoInv(t, id)
      BY <1>3, <1>10 DEF LocksInv, Held
    <3>3. ~write_locks[t][id].never_locked
      BY <3>1, <3>2 DEF InfoInv
    <3>. QED
      BY <3>1, <3>3 DEF Recorded
  <2>2. new.op \notin WriteOps
    BY <1>4, <1>8 DEF WriteOps
  <2>. QED
    BY <1>8, <1>11, <1>15, <2>1, <2>2 DEF CallInv, Past, WriteOps
<1>21. ExclusiveInv' /\ LocksInv' /\ CallsInv'
  <2>1. \A u \in Txns \ {t} : Held(t)' \cap Held(u) = {}
    BY <1>3, <1>10, <1>15 DEF ExclusiveInv
  <2>2. \A d \in Callers \ {c} : call[d].pc = "finalize" =>
               call[d].new \notin Held(t)' /\ call'[c].want # call[d].new
    BY <1>1, <1>3, <1>8, <1>9, <1>10, <1>15, FinalizerNew
  <2>. QED
    BY <1>9, <1>10, <1>12, <1>19, <1>20, <2>1, <2>2, LocalStep
<1>22. WroteInv'
  <2>1. Gone(t)'
    BY <1>4, <1>8, <1>9, <1>13 DEF Gone
  <2>2. io_invalid' \/ \A k, i : Wrote(t, k, i)' =>
               \/ \E id : Recorded(t, id)' /\ write_locks'[t][id].key = k
               \/ Finalizing(t, i)'
               \/ Gone(t)'
    BY <2>1
  <2>. QED
    BY <1>3, <1>10, <1>12, <2>2, LocalWrote
<1>23. \A u \in Txns : CommitInv(u)'
  <2>1. new.op \notin {"Commit", "ResolveCommit"} /\ call[c].pc # "sync"
    BY <1>0, <1>4, <1>8
  <2>2. CommitInv(t)'
    BY <1>3, <1>9, <1>10, <1>11, <2>1, OwnCommit
  <2>. QED
    BY <1>3, <1>10, <1>12, <2>2, LocalCommit
<1>24. ASSUME NEW k PROVE /\ LastCommitted(k, Len(log))' = LastCommitted(k, Len(log))
                          /\ Version(k, Len(log))' = Version(k, Len(log))
  BY <1>11 DEF LastCommitted, Version, IsCommitted, Frames
<1>25. ASSUME NEW k \in Keys, VersionInv(k) PROVE VersionInv(k)'
  <2>1. ASSUME NEW u \in Txns, NEW id
        PROVE  /\ Changed(u, k, id)' <=> Changed(u, k, id)
               /\ Changed(u, k, id) => /\ write_locks'[u][id] = write_locks[u][id]
                                       /\ Commits(u)' = {} <=> Commits(u) = {}
    <3>1. Commits(u)' = Commits(u)
      BY <1>11, FramesKept
    <3>2. Changed(u, k, id)' <=> Changed(u, k, id)
      <4>1. CASE u = t
        BY <1>17, <4>1
      <4>2. CASE u # t
        BY <1>12, <4>2, OthersCalls
      <4>. QED
        BY <4>1, <4>2
    <3>. QED
      BY <1>11, <3>1, <3>2
  <2>2. tree'[k] = tree[k]
    BY <1>11
  <2>. QED
    BY <1>24, <1>25, <2>1, <2>2, VersionKept
<1>26. BeforeImageIsCommitted'
  BY <1>10, <1>12, <1>15, <1>24, BeforeStep
<1>. QED
  BY <1>10, <1>11, <1>18, <1>21, <1>22, <1>23, <1>25, <1>26 DEF DataInv

\* ApplyUndo: a slot goes back to its committed version, still under the lock.
LEMMA ApplyUndoData ==
    ASSUME OwnHandles, TypeInv, TypeInv', TxnInv, DataInv, NEW c \in Callers, ApplyUndo(c)
    PROVE  DataInv'
<1>0. call[c].pc = "undo" /\ call[c].undo # {}
  BY DEF ApplyUndo
<1>1. PICK r \in CallRecord(Len(log)) : r = call[c]
  BY <1>0, Busy
<1>2. PICK t \in Handles[c] : t = r.txn
  BY <1>0, <1>1, Busy
<1>3. t \in Txns /\ t # 0 /\ Facts(t, r) /\ DOMAIN tree = Keys /\ DOMAIN call = Callers /\ Len(log) \in Nat
  BY <1>1, <1>2, HandleTxns, OwnFacts, LogIs
<1>4. r.op \in {"Abort", "ResolveAbort"}
  BY <1>0, <1>1, Busy, IdleFields DEF Shape, WritePcs
<1>5. Commits(t) = {}
  BY <1>0, <1>1, <1>3, <1>4 DEF Facts, LogInv
<1>6. PICK undo \in SUBSET UndoRecord(Len(log)) : undo = r.undo
  BY DEF CallRecord
<1>7. PICK q : q = CHOOSE s \in undo : \A x \in undo : x.lsn <= s.lsn
  OBVIOUS
<1>8. q \in undo
  <2>1. \E s \in undo : \A x \in undo : x.lsn <= s.lsn
    BY <1>0, <1>1, <1>3, <1>6, NewestExists
  <2>. QED
    BY <1>7, <2>1
<1>9. PICK id, k : id = q.lsn /\ k = q.key
  OBVIOUS
<1>10. PICK w : w = write_locks[t][id]
  OBVIOUS
<1>11. PICK new : new = [r EXCEPT !.undo = undo \ {q}]
  OBVIOUS
<1>12. new.pc = "undo" /\ new.op = r.op /\ new.txn = t /\ new.want = r.want /\ new.undo = undo \ {q}
  BY <1>0, <1>1, <1>2, <1>11 DEF CallRecord
<1>13. call'[c] = new /\ \A d \in Callers \ {c} : call'[d] = call[d]
  <2>1. call' = [call EXCEPT ![c] = new]
    BY <1>1, <1>3, <1>6, <1>7, <1>11 DEF ApplyUndo
  <2>. QED
    BY <1>3, <2>1
<1>14. ExclusiveInv /\ SlotInv /\ LocksInv /\ CallsInv /\ WroteInv /\ (\A u \in Txns : CommitInv(u))
      /\ (io_invalid \/ \A p \in Keys : VersionInv(p)) /\ BeforeImageIsCommitted
  BY DEF DataInv
<1>15. ASSUME NEW u \in undo
       PROVE  /\ Recorded(t, u.lsn) /\ u.key = write_locks[t][u.lsn].key
              /\ u.abort_lsn = write_locks[t][u.lsn].abort_lsn
              /\ u.abort_known_deleted = write_locks[t][u.lsn].abort_known_deleted
  <2>1. CallInv(r)
    BY <1>1, <1>14 DEF CallsInv
  <2>. QED
    BY <1>0, <1>1, <1>2, <1>6, <1>15, <2>1 DEF CallInv
<1>16. /\ Recorded(t, id) /\ w.key = k
       /\ q.abort_lsn = w.abort_lsn /\ q.abort_known_deleted = w.abort_known_deleted
  BY <1>8, <1>9, <1>10, <1>15
<1>17. \A d \in Callers : (call[d].txn = t => d = c) /\ (call'[d].txn = t => d = c)
  BY OwnCalls
<1>18. /\ \A j : Undone(t, j) <=> \A u \in undo : u.lsn # j
       /\ \A j : Undone(t, j)' <=> \A u \in undo \ {q} : u.lsn # j
  <2>1. call[c].txn = t /\ call[c].pc = "undo" /\ call[c].undo = undo
    BY <1>0, <1>1, <1>2, <1>6
  <2>2. \A j : Undone(t, j) <=> \A u \in undo : u.lsn # j
    BY <1>17, <2>1 DEF Undone
  <2>3. \A j : Undone(t, j)' <=> \A u \in undo \ {q} : u.lsn # j
    BY <1>12, <1>13, <1>17 DEF Undone
  <2>. QED
    BY <2>2, <2>3
<1>19. ~Undone(t, id) /\ Undone(t, id)' /\ \A j : j # id => (Undone(t, j)' <=> Undone(t, j))
  <2>1. ASSUME NEW u \in undo, u.lsn = id PROVE u = q
    <3>1. /\ u.key = q.key /\ u.abort_lsn = q.abort_lsn /\ u.abort_known_deleted = q.abort_known_deleted
          /\ u.lsn = q.lsn
      BY <1>8, <1>9, <1>15, <2>1
    <3>2. u \in UndoRecord(Len(log)) /\ q \in UndoRecord(Len(log))
      BY <1>6, <1>8, <2>1
    <3>. QED
      BY <3>1, <3>2 DEF UndoRecord
  <2>. QED
    BY <1>8, <1>9, <1>18, <2>1
<1>20. Changed(t, k, id)
  BY <1>10, <1>16, <1>19 DEF Changed
<1>21. Owns(t, k) /\ k \in Keys /\ id \in Held(t)
  BY <1>3, <1>14, <1>20, ChangedOwns
<1>22. InfoInv(t, id)
  BY <1>3, <1>14, <1>21 DEF LocksInv
<1>23. /\ w.abort_known_deleted \/ w.abort_lsn # 0
       /\ w.abort_lsn # 0 => IsVersion(w.abort_lsn, k)
  BY <1>10, <1>16, <1>22 DEF InfoInv, Recorded
<1>24. /\ tree'[k] = IF w.abort_known_deleted THEN [lsn |-> 0, exists |-> FALSE]
                     ELSE [lsn |-> w.abort_lsn, exists |-> TRUE]
       /\ \A p \in Keys : p # k => tree'[p] = tree[p]
  <2>1. tree' = [tree EXCEPT ![k] = IF q.abort_known_deleted THEN [lsn |-> 0, exists |-> FALSE]
                                    ELSE [lsn |-> q.abort_lsn, exists |-> TRUE]]
    BY <1>1, <1>6, <1>7, <1>9 DEF ApplyUndo
  <2>. QED
    BY <1>3, <1>16, <1>21, <2>1
<1>25. log' = log /\ durable' = durable /\ io_invalid' = io_invalid /\ write_locks' = write_locks /\ inner' = inner
       /\ durable <= durable' /\ (io_invalid => io_invalid')
  BY LogIs DEF ApplyUndo, wal, handle
<1>26. Local(c, t)
  BY <1>1, <1>2, <1>12, <1>13, <1>21, <1>24, <1>25 DEF Local
<1>27. /\ \A i : ~Finalizing(t, i) /\ ~Finalizing(t, i)'
       /\ \A p, i : ~Applying(t, p, i) /\ ~Applying(t, p, i)'
  BY <1>0, <1>12, <1>13, <1>17 DEF Finalizing, Applying
<1>28. /\ \A u : Held(u)' = Held(u)
       /\ \A u, i : Recorded(u, i)' <=> Recorded(u, i)
       /\ \A i, p : IsVersion(i, p)' <=> IsVersion(i, p)
       /\ \A u, i, p : Wrote(u, p, i)' <=> Wrote(u, p, i)
  BY <1>25 DEF Held, Recorded, IsVersion, Wrote
<1>29. \A j : Changed(t, k, j) => j = id
  <2>1. call[c].txn = t /\ call[c].pc # "apply"
    BY <1>0, <1>1, <1>2
  <2>2. \A p, j : Changed(t, p, j) => tree[p].lsn = j
    BY <1>3, <1>14, <2>1, OwnChange
  <2>. QED
    BY <1>20, <2>2
<1>30. /\ \A j : ~Changed(t, k, j)'
       /\ \A p, j : p # k => (Changed(t, p, j)' <=> Changed(t, p, j))
  <2>1. \A p, j : Changed(t, p, j)' <=> Changed(t, p, j) /\ j # id
    BY <1>19, <1>25, <1>28 DEF Changed
  <2>2. \A p : Changed(t, p, id) => p = k
    BY <1>10, <1>16 DEF Changed
  <2>. QED
    BY <1>29, <2>1, <2>2
<1>31. SlotInv'
  <2>1. IF tree'[k].lsn = 0 THEN ~tree'[k].exists ELSE IsVersion(tree'[k].lsn, k)
    BY <1>23, <1>24
  <2>. QED
    BY <1>14, <1>24, <1>28, <2>1 DEF SlotInv
<1>32. ASSUME NEW j \in Held(t)' PROVE InfoInv(t, j)'
  <2>1. InfoInv(t, j)
    BY <1>3, <1>14, <1>28, <1>32 DEF LocksInv
  <2>2. CASE j = id
    BY <1>19, <1>25, <1>28, <2>1, <2>2 DEF InfoInv
  <2>3. CASE j # id
    <3>1. PICK v, p : v = write_locks[t][j] /\ p = v.key
      OBVIOUS
    <3>2. Undone(t, j)' <=> Undone(t, j)
      BY <1>19, <2>3
    <3>3. ~v.never_locked /\ ~Undone(t, j) => p # k
      <4>1. ~v.never_locked /\ ~Undone(t, j) => Changed(t, p, j)
        BY <1>28, <1>32, <3>1 DEF Changed, Recorded, Held
      <4>. QED
        BY <1>29, <2>3, <4>1
    <3>4. ~v.never_locked /\ ~Undone(t, j) => tree'[p] = tree[p]
      BY <1>24, <2>1, <3>1, <3>3 DEF InfoInv
    <3>. QED
      BY <1>25, <1>27, <1>28, <2>1, <3>1, <3>2, <3>4 DEF InfoInv
  <2>. QED
    BY <2>2, <2>3
<1>33. CallInv(new)'
  <2>1. \A u \in undo \ {q} :
           /\ Recorded(t, u.lsn)' /\ u.key = write_locks'[t][u.lsn].key
           /\ u.abort_lsn = write_locks'[t][u.lsn].abort_lsn
           /\ u.abort_known_deleted = write_locks'[t][u.lsn].abort_known_deleted
    BY <1>15, <1>25, <1>28
  <2>2. new.op \notin WriteOps
    BY <1>4, <1>12 DEF WriteOps
  <2>. QED
    BY <1>12, <2>1, <2>2 DEF CallInv, Past, WriteOps
<1>34. ExclusiveInv' /\ LocksInv' /\ CallsInv'
  <2>1. \A u \in Txns \ {t} : Held(t)' \cap Held(u) = {}
    BY <1>3, <1>14, <1>28 DEF ExclusiveInv
  <2>2. \A d \in Callers \ {c} : call[d].pc = "finalize" =>
               call[d].new \notin Held(t)' /\ call'[c].want # call[d].new
    BY <1>1, <1>3, <1>12, <1>13, <1>14, <1>28, FinalizerNew
  <2>. QED
    BY <1>13, <1>14, <1>26, <1>32, <1>33, <2>1, <2>2, LocalStep
<1>35. WroteInv'
  <2>1. Gone(t) => Gone(t)'
    <3>1. new.op # "Commit" /\ (inner[t] # "Open" => inner'[t] # "Open")
      BY <1>4, <1>12, <1>25
    <3>. QED
      BY <1>13, <3>1, GoneStays
  <2>2. io_invalid' \/ \A p, i : Wrote(t, p, i)' =>
               \/ \E j : Recorded(t, j)' /\ write_locks'[t][j].key = p
               \/ Finalizing(t, i)'
               \/ Gone(t)'
    BY <1>3, <1>14, <1>25, <1>27, <1>28, <2>1 DEF WroteInv
  <2>. QED
    BY <1>3, <1>14, <1>26, <2>2, LocalWrote
<1>36. \A u \in Txns : CommitInv(u)'
  <2>1. new.op \notin {"Commit", "ResolveCommit"} /\ call[c].pc # "sync"
    BY <1>0, <1>4, <1>12
  <2>2. CommitInv(t)'
    BY <1>3, <1>13, <1>14, <1>25, <2>1, OwnCommit
  <2>. QED
    BY <1>3, <1>14, <1>26, <2>2, LocalCommit
<1>37. ASSUME NEW p PROVE /\ LastCommitted(p, Len(log))' = LastCommitted(p, Len(log))
                          /\ Version(p, Len(log))' = Version(p, Len(log))
  BY <1>25 DEF LastCommitted, Version, IsCommitted, Frames
<1>38. ASSUME NEW p \in Keys, p # k, VersionInv(p) PROVE VersionInv(p)'
  <2>1. ASSUME NEW u \in Txns, NEW j
        PROVE  /\ Changed(u, p, j)' <=> Changed(u, p, j)
               /\ Changed(u, p, j) => /\ write_locks'[u][j] = write_locks[u][j]
                                      /\ Commits(u)' = {} <=> Commits(u) = {}
    <3>1. Commits(u)' = Commits(u)
      BY <1>25, FramesKept
    <3>2. Changed(u, p, j)' <=> Changed(u, p, j)
      <4>1. CASE u = t
        BY <1>30, <1>38, <4>1
      <4>2. CASE u # t
        BY <1>26, <4>2, OthersCalls
      <4>. QED
        BY <4>1, <4>2
    <3>. QED
      BY <1>25, <3>1, <3>2
  <2>2. tree'[p] = tree[p]
    BY <1>24, <1>38
  <2>. QED
    BY <1>37, <1>38, <2>1, <2>2, VersionKept
\* The slot is back at the before-image, which is the committed version.
<1>39. ASSUME VersionInv(k) PROVE VersionInv(k)'
  <2>1. \A u \in Txns : \A j : ~Changed(u, k, j)'
    BY <1>3, <1>14, <1>21, <1>26, <1>30, OwnVersion
  <2>2. Version(k, Len(log)) = Before(w)
    BY <1>3, <1>5, <1>10, <1>20, <1>39 DEF VersionInv
  <2>3. Shown(k)' = Before(w)
    BY <1>24 DEF Shown, Before
  <2>. QED
    BY <1>37, <2>1, <2>2, <2>3 DEF VersionInv
<1>40. io_invalid' \/ \A p \in Keys : VersionInv(p)'
  BY <1>14, <1>25, <1>38, <1>39
<1>41. BeforeImageIsCommitted'
  BY <1>14, <1>26, <1>28, <1>37, BeforeStep
<1>. QED
  BY <1>31, <1>34, <1>35, <1>36, <1>40, <1>41 DEF DataInv

-----------------------------------------------------------------------------
(* Slots, locks and the log hold in every state *)

\* A step outside of the calls: a Txn becomes abort-only, or the log fails.
LEMMA StillData ==
    ASSUME DataInv, UNCHANGED <<write_locks, tree, log, durable, call>>, io_invalid => io_invalid',
           \A u \in Txns : inner[u] # "Open" => inner'[u] # "Open"
    PROVE  DataInv'
<1>1. ExclusiveInv /\ SlotInv /\ LocksInv /\ CallsInv /\ WroteInv /\ (\A u \in Txns : CommitInv(u))
      /\ (io_invalid \/ \A k \in Keys : VersionInv(k)) /\ BeforeImageIsCommitted
  BY DEF DataInv
<1>2. /\ \A u : Held(u)' = Held(u)
      /\ \A u, id : Recorded(u, id)' <=> Recorded(u, id)
      /\ \A i, k : IsVersion(i, k)' <=> IsVersion(i, k)
      /\ \A u, i, k : Wrote(u, k, i)' <=> Wrote(u, k, i)
  BY DEF Held, Recorded, IsVersion, Wrote
<1>3. /\ \A u, id : Undone(u, id)' <=> Undone(u, id)
      /\ \A u, i : Finalizing(u, i)' <=> Finalizing(u, i)
      /\ \A u, k, i : Applying(u, k, i)' <=> Applying(u, k, i)
  BY DEF Undone, Finalizing, Applying
<1>4. \A u, k, id : Changed(u, k, id)' <=> Changed(u, k, id)
  BY <1>2, <1>3 DEF Changed
<1>5. \A u \in Txns : Gone(u) => Gone(u)'
  BY DEF Gone
<1>6. ExclusiveInv' /\ SlotInv'
  BY <1>1, <1>2 DEF ExclusiveInv, SlotInv
<1>7. LocksInv'
  <2>. SUFFICES ASSUME NEW u \in Txns, NEW id \in Held(u)' PROVE InfoInv(u, id)'
    BY DEF LocksInv
  <2>1. InfoInv(u, id)
    BY <1>1, <1>2 DEF LocksInv
  <2>. QED
    BY <1>2, <1>3, <2>1 DEF InfoInv
<1>8. CallsInv'
  <2>. SUFFICES ASSUME NEW d \in Callers, NEW r, r = call[d] PROVE CallInv(r)'
    BY DEF CallsInv
  <2>1. CallInv(r)
    BY <1>1 DEF CallsInv
  <2>. QED
    BY <1>2, <2>1 DEF CallInv, Past, LockId
<1>9. WroteInv'
  BY <1>1, <1>2, <1>3, <1>5 DEF WroteInv
<1>10. ASSUME NEW u \in Txns PROVE CommitInv(u)'
  <2>1. CommitInv(u)
    BY <1>1
  <2>2. Commits(u)' = Commits(u) /\ LNs(u)' = LNs(u)
    BY FramesKept
  <2>. QED
    BY <2>1, <2>2 DEF CommitInv
<1>11. \A k : Version(k, Len(log))' = Version(k, Len(log))
  BY DEF LastCommitted, Version, IsCommitted, Frames
<1>12. ASSUME NEW k \in Keys, VersionInv(k) PROVE VersionInv(k)'
  <2>1. \A u : Commits(u)' = Commits(u)
    BY FramesKept
  <2>. QED
    BY <1>4, <1>11, <1>12, <2>1, VersionKept
<1>13. BeforeImageIsCommitted'
  BY <1>1 DEF BeforeImageIsCommitted, LastCommitted, Version, IsCommitted, Frames
<1>. QED
  BY <1>1, <1>6, <1>7, <1>8, <1>9, <1>10, <1>12, <1>13 DEF DataInv

\* At the start each slot shows the version of its auto-committed LN, if it has one.
LEMMA InitData == Init => DataInv
<1>. SUFFICES ASSUME Init PROVE DataInv
  OBVIOUS
<1>0. TypeInv
  BY InitTypes
<1>1. /\ Len(log) = 1 /\ log[1].type = "LN" /\ log[1].txn = 0 /\ log[1].key = 1 /\ log[1].deleted = FALSE
      /\ 1 .. Len(log) = {1}
  BY DEF Init, LN
<1>2. /\ \A t \in Txns : Held(t) = {} /\ t # 0
      /\ \A t \in Txns : \A id : ~Recorded(t, id)
      /\ \A c \in Callers : call[c] = Idle
  BY TransactionAssumption DEF Init, Held, Recorded
<1>3. \A i, k : IsVersion(i, k) <=> i = 1 /\ k = 1
  BY <1>1 DEF IsVersion
<1>4. \A t \in Txns : Commits(t) = {} /\ LNs(t) = {}
  BY <1>1, <1>2 DEF Commits, LNs, Frames
<1>5. ExclusiveInv /\ LocksInv
  BY <1>2 DEF ExclusiveInv, LocksInv
<1>6. \A k \in Keys : tree[k].lsn = (IF k = 1 THEN 1 ELSE 0) /\ (tree[k].exists <=> k = 1)
  BY DEF Init
<1>7. SlotInv
  BY <1>3, <1>6 DEF SlotInv
<1>8. CallsInv
  BY <1>2, IdleInv DEF CallsInv
<1>9. WroteInv
  BY <1>1, <1>2, <1>3 DEF WroteInv, Wrote
<1>10. \A t \in Txns : CommitInv(t)
  BY <1>4 DEF CommitInv
<1>11. ASSUME NEW k \in Keys PROVE VersionInv(k)
  <2>1. CommittedLNs(k) = IF k = 1 THEN {1} ELSE {}
    <3>1. \A i : i \in CommittedLNs(k) <=> IsVersion(i, k) /\ (log[i].txn = 0 \/ Commits(log[i].txn) # {})
      BY <1>0, LastIs
    <3>. QED
      BY <1>1, <1>3, <3>1
  <2>2. LastCommitted(k, Len(log)) = IF k = 1 THEN 1 ELSE 0
    <3>1. LastCommitted(k, Len(log)) \in {0} \cup CommittedLNs(k)
      BY <1>0, LastIs
    <3>2. \A i \in CommittedLNs(k) : i <= LastCommitted(k, Len(log))
      BY <1>0, LastIs
    <3>. QED
      BY <2>1, <3>1, <3>2
  <2>3. Version(k, Len(log)) = Shown(k)
    BY <1>1, <1>6, <2>2 DEF Version, Shown
  <2>. QED
    BY <1>2, <2>3 DEF VersionInv, Changed
<1>12. BeforeImageIsCommitted
  <2>1. DOMAIN log = {1}
    BY DEF Init
  <2>. QED
    BY <1>1, <2>1 DEF BeforeImageIsCommitted, IsCommitted
<1>. QED
  BY <1>5, <1>7, <1>8, <1>9, <1>10, <1>11, <1>12 DEF DataInv

\* Every step.
LEMMA NextData ==
    ASSUME OwnHandles, TypeInv, TypeInv', TxnInv, DataInv, [Next]_vars
    PROVE  DataInv'
<1>1. ASSUME NEW c \in Callers,
             StartWrite(c) \/ ReadSlot(c) \/ RecheckPut(c) \/ RecheckInsert(c) \/ RecheckDelete(c)
             \/ Lock(c) \/ WaitEnds(c) \/ FinalizeWriteLock(c) \/ ApplyTree(c)
      PROVE  DataInv'
  BY <1>1, StartWriteData, ReadData, LockData, WaitEndsData, FinalizeData, ApplyTreeData
<1>2. ASSUME NEW c \in Callers, LogLn(c) PROVE DataInv'
  <2>1. CASE io_invalid
    <3>1. Return(c) /\ call[c].pc = "log" /\ UNCHANGED <<inner, write_locks, tree, wal>>
      BY <1>2, <2>1 DEF LogLn, handle, wal
    <3>. QED
      BY <3>1, FailData
  <2>. QED
    BY <1>2, <2>1, LogLnData
<1>3. ASSUME NEW c \in Callers, StartCommit(c) \/ StartAbort(c) \/ StartPrepare(c) \/ StartResolve(c)
      PROVE  DataInv'
  BY <1>3, StartEndData, TearDownData
<1>4. ASSUME NEW c \in Callers, WriteFrame(c) \/ SyncFrame(c) \/ PrepareInner(c) \/ End(c)
      PROVE  DataInv'
  BY <1>4, WriteFrameData, SyncFrameData, PrepareInnerData, EndData
<1>5. ASSUME NEW c \in Callers,
             CommitInner(c) \/ ResolveCommitInner(c) \/ CollectUndo(c) \/ ApplyUndo(c) \/ FinishAbort(c)
      PROVE  DataInv'
  BY <1>5, CommitInnerData, CollectUndoData, ApplyUndoData, FinishAbortData
<1>6. ASSUME NEW t \in Txns, XaEndFail(t) PROVE DataInv'
  <2>1. UNCHANGED <<write_locks, tree, log, durable, call>> /\ io_invalid' = io_invalid
    BY <1>6 DEF XaEndFail, wal
  <2>2. \A u \in Txns : inner[u] # "Open" => inner'[u] # "Open"
    BY <1>6, LogIs DEF XaEndFail, SetOnlyAbortable
  <2>. QED
    BY <2>1, <2>2, StillData
<1>7. CASE LogFails
  <2>1. UNCHANGED <<write_locks, tree, log, durable, call>> /\ io_invalid' /\ inner' = inner
    BY <1>7 DEF LogFails, handle
  <2>. QED
    BY <2>1, StillData
<1>8. CASE UNCHANGED vars
  <2>1. UNCHANGED <<write_locks, tree, log, durable, call>> /\ io_invalid' = io_invalid /\ inner' = inner
    BY <1>8 DEF vars, handle, wal
  <2>. QED
    BY <2>1, StillData
<1>. QED
  BY <1>1, <1>2, <1>3, <1>4, <1>5, <1>6, <1>7, <1>8 DEF Next

\* Under the hypotheses of FactsHold the invariant of slots, locks and log holds throughout.
LEMMA DataHolds ==
    ASSUME OwnHandles, ~LateWrites
    PROVE  Spec => [](TypeInv /\ TxnInv /\ DataInv)
<1>1. Init => TypeInv /\ TxnInv /\ DataInv
  BY InitTypes, InitFacts, InitData
<1>2. TypeInv /\ TxnInv /\ DataInv /\ [Next]_vars => (TypeInv /\ TxnInv /\ DataInv)'
  BY NextTypes, NextFacts, NextData
<1>. QED
  BY <1>1, <1>2, PTL DEF Spec

-----------------------------------------------------------------------------
(* Theorems about the records *)

\* A record that no lock covers was changed by no transaction whose commit frame is still
\* to be synced: the frames that commit it survive with the part of the log up to d.
LEMMA ReadableSurvives ==
    ASSUME OwnHandles, TypeInv, TxnInv, DataInv, ~io_invalid, NEW k \in Keys,
           \A t \in Txns : \A id : ~Changed(t, k, id), NEW d \in Survivors
    PROVE  Version(k, d) = Version(k, Len(log))
<1>1. LocksInv /\ CallsInv /\ WroteInv /\ \A t \in Txns : CommitInv(t)
  BY DEF DataInv
<1>2. /\ Len(log) \in Nat /\ durable \in Nat /\ 1 <= durable /\ d \in Nat /\ durable <= d /\ d <= Len(log)
      /\ \A i \in 1 .. Len(log) : log[i] \in Entry
      /\ \A i \in d + 1 .. Len(log) : log[i].type = "TxnCommit" => log[i].sync
  BY LogIs DEF Survivors
<1>3. ASSUME NEW t \in Txns, NEW i, Wrote(t, k, i), NEW j \in Commits(t) PROVE j <= d
  <2>. SUFFICES ASSUME ~(j <= d) PROVE FALSE
    OBVIOUS
  <2>1. j \in 1 .. Len(log) /\ log[j].type = "TxnCommit"
    BY <1>3 DEF Commits, Frames
  <2>2. j \in d + 1 .. Len(log) /\ ~(j <= durable)
    BY <1>2, <2>1
  <2>3. log[j].sync
    BY <1>2, <2>1, <2>2
  <2>4. PICK c \in Callers : /\ call[c].txn = t /\ call[c].pc = "sync"
                             /\ call[c].op \in {"Commit", "ResolveCommit"}
    BY <1>1, <1>3, <2>2, <2>3 DEF CommitInv
  <2>5. t \in Handles[c] /\ t # 0
    BY <2>4, Busy
  <2>6. ~Gone(t)
    <3>1. CASE call[c].op = "Commit"
      BY <2>4, <3>1 DEF Gone
    <3>2. CASE call[c].op = "ResolveCommit"
      <4>1. Facts(t, call[c])
        BY <2>4, <2>5, OwnFacts
      <4>2. inner[t] = "Open"
        BY <2>4, <3>2, <4>1 DEF Facts, HandleInv, Late
      <4>. QED
        BY <4>2 DEF Gone
    <3>. QED
      BY <2>4, <3>1, <3>2
  <2>7. ~Finalizing(t, i)
    BY <2>4, <2>5, Unique DEF Finalizing
  <2>8. PICK id : Recorded(t, id) /\ write_locks[t][id].key = k
    BY <1>1, <1>3, <2>6, <2>7 DEF WroteInv
  <2>9. ~Undone(t, id)
    BY <1>3, <2>4, NotUndone
  <2>. QED
    BY <1>3, <2>8, <2>9 DEF Changed
<1>4. ASSUME NEW i \in CommittedLNs(k) PROVE i \in 1 .. d /\ IsCommitted(log[i].txn, d)
  <2>1. i \in 1 .. Len(log) /\ IsVersion(i, k) /\ (log[i].txn = 0 \/ Commits(log[i].txn) # {})
    BY <1>4, LastIs DEF CommittedLNs
  <2>2. CASE log[i].txn = 0
    <3>1. i = 1
      BY <1>1, <2>1, <2>2 DEF WroteInv
    <3>. QED
      BY <1>2, <2>2, <3>1 DEF IsCommitted
  <2>3. CASE log[i].txn # 0
    <3>1. PICK t \in Txns : t = log[i].txn
      BY <1>2, <2>1, <2>3 DEF Entry
    <3>2. Wrote(t, k, i)
      BY <2>1, <3>1 DEF Wrote
    <3>3. PICK j \in Commits(t) : TRUE
      BY <2>1, <2>3, <3>1
    <3>4. j <= d /\ j \in 1 .. Len(log) /\ log[j].type = "TxnCommit" /\ log[j].txn = t
      BY <1>3, <3>2, <3>3 DEF Commits, Frames
    <3>5. i < j
      <4>1. i \in LNs(t) /\ j \in Ends(t)
        BY <2>1, <3>1, <3>3 DEF LNs, Ends, Frames, IsVersion
      <4>. QED
        BY <4>1, SomeFacts DEF OrderInv
    <3>6. i \in 1 .. d /\ j \in 1 .. d
      BY <1>2, <2>1, <3>4, <3>5
    <3>7. j \in Frames(t, "TxnCommit", d)
      BY <3>4, <3>6 DEF Frames
    <3>. QED
      BY <3>1, <3>6, <3>7 DEF IsCommitted
  <2>. QED
    BY <2>2, <2>3
<1>5. ASSUME NEW t PROVE IsCommitted(t, d) => IsCommitted(t, Len(log))
  <2>1. \A i \in 1 .. d : i \in 1 .. Len(log)
    BY <1>2
  <2>. QED
    BY <2>1 DEF IsCommitted, Frames
<1>6. {i \in 1 .. d : log[i].type = "LN" /\ log[i].key = k /\ IsCommitted(log[i].txn, d)} = CommittedLNs(k)
  <2>1. \A i \in 1 .. d : i \in 1 .. Len(log)
    BY <1>2
  <2>. QED
    BY <1>4, <1>5, <2>1 DEF CommittedLNs
<1>7. LastCommitted(k, d) = LastCommitted(k, Len(log))
  <2>1. LastCommitted(k, d) = Max({0} \cup CommittedLNs(k))
    BY <1>6 DEF LastCommitted
  <2>. QED
    BY <2>1, LastIs
<1>. QED
  BY <1>7 DEF Version

\* A record that no transaction holds shows exactly the version that recovery rebuilds
\* from any part of the log that a crash may leave: a commit releases its locks after its
\* frame is synced, an abort after it has put the before-images back, and a change that
\* is not yet committed is covered by the lock of the version in its slot
\* (commit_with_durability, abort, move_write_lock_to_new_lsn).
THEOREM UnlockedRecoverable ==
    ASSUME OwnHandles, ~LateWrites
    PROVE  Spec => []UnlockedIsRecoverable
<1>1. TypeInv /\ TxnInv /\ DataInv => UnlockedIsRecoverable
  <2>. SUFFICES ASSUME TypeInv, TxnInv, DataInv, ~io_invalid, NEW k \in Keys, Readable(k), NEW d \in Survivors
                PROVE  Version(k, d) = Shown(k)
    BY DEF UnlockedIsRecoverable, Shown
  <2>1. \A t \in Txns : ~Owns(t, k)
    BY DEF Readable, Owns, Held
  <2>2. \A t \in Txns : \A id : ~Changed(t, k, id)
    BY <2>1, ChangedOwns DEF DataInv
  <2>3. Shown(k) = Version(k, Len(log))
    BY <2>2 DEF DataInv, VersionInv
  <2>. QED
    BY <2>2, <2>3, ReadableSurvives
<1>. QED
  BY <1>1, DataHolds, PTL

\* An LN that recovery may have to undo carries the committed version of its record as
\* its before-image, also after the transaction's second write of the record and after
\* other transactions wrote and aborted in between (log_ln_write, finalize_write_lock).
THEOREM BeforeImagesAreCommitted ==
    ASSUME OwnHandles, ~LateWrites
    PROVE  Spec => []BeforeImageIsCommitted
<1>1. DataInv => BeforeImageIsCommitted
  BY DEF DataInv
<1>. QED
  BY <1>1, DataHolds, PTL

\* From its second look for the record to its update of the tree an insert that must not
\* overwrite meets no live record: the lock of the slot's version, or the synthetic one,
\* keeps every other writer and every undo out (CursorImpl::put, PutMode::NoOverwrite).
THEOREM InsertsReplaceNothing ==
    ASSUME OwnHandles, ~LateWrites
    PROVE  Spec => []InsertReplacesNothing
<1>1. TypeInv /\ DataInv => InsertReplacesNothing
  <2>. SUFFICES ASSUME TypeInv, DataInv, NEW c \in Callers, call[c].op = "Insert",
                       call[c].pc \in {"log", "finalize", "apply"}
                PROVE  ~KeyExists(call[c].key)
    BY DEF InsertReplacesNothing
  <2>1. CallInv(call[c]) /\ Past(call[c])
    BY PcIsPast DEF DataInv, CallsInv
  <2>. QED
    BY <2>1 DEF CallInv, KeyExists
<1>. QED
  BY <1>1, DataHolds, PTL
=============================================================================
