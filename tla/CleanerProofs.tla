--------------------------- MODULE CleanerProofs ---------------------------
(***************************************************************************)
(* Theorems about Cleaner, for every number of records, transactions, log  *)
(* entries and entries of a file.  All of them suppose that the log has    *)
(* room for the loaded database.  DeepInv, on which the last three rest,   *)
(* holds as long as exposed = {}: the history fell into none of the four   *)
(* windows that the code leaves open (AbortRaces, WriteLaps, and at a      *)
(* crash CommitRecordLost and SettledSinceCkpt).                           *)
(*                                                                         *)
(* TypeInv says that every LSN the tree, the transactions, the             *)
(* FileSelector and the two agents hold is one of the log, and that log    *)
(* entries refer backward; a crash keeps that because recovery's result    *)
(* lies in the part of the log that is left (RecoveredSlotType, where the  *)
(* undo pass is shown to end).  SelInv adds where the file being cleaned   *)
(* and the files of pending LNs are in the FileSelector.                   *)
(*                                                                         *)
(* DeepInv is what recovery needs.  In words:                              *)
(*   CoreInv     the version before an LN was the committed one when it    *)
(*               was logged, writers of a record do not overlap, and       *)
(*               memory shows each record's committed version or the one   *)
(*               write that is open on it;                                 *)
(*   FileInv     files in hand are closed to open transactions;            *)
(*   LookInv, LiveInv   a version memory refers to, in a file that has     *)
(*               been cleaned, waits to be migrated, and the cleaner does  *)
(*               not lose it between its lookup and its lock;              *)
(*   RootInv, CkptInv   the files behind the barrier of a checkpoint hold  *)
(*               neither its start nor its image;                          *)
(*   SeedInv     an image holds every LN that counts and that was logged   *)
(*               before the checkpoint began;                              *)
(*   GoneInv, ImageInv  what was the committed version of a record at any  *)
(*               length of the log a crash may leave is not in a deleted   *)
(*               file, unless it was settled since; and what an image      *)
(*               holds in such a file is committed.                        *)
(* Recovered derives from these that redo and undo arrive at the committed *)
(* version; it serves both the theorem and the preservation of DeepInv by  *)
(* a crash, after which memory is what recovery built.                     *)
(***************************************************************************)
EXTENDS Cleaner, FiniteSetTheorems, WellFoundedInduction, TLAPS

-----------------------------------------------------------------------------
(* Types *)

Is(l, ty) == l \in 1 .. Len(log) /\ log[l].type = ty

\* Entries refer backward, to entries of the right type.
GoodEntry(i) ==
    /\ log[i].type = "LN" => log[i].abort < i
    /\ log[i].type = "BIN" => \A k \in Key : log[i].slots[k] < i
    /\ log[i].type = "CkptEnd" =>
          log[i].start < i /\ (log[i].root # None => log[i].root < i /\ Is(log[i].root, "BIN"))

LogType ==
    /\ log \in Seq(Entry) /\ Len(log) <= MaxLog /\ durable \in 1 .. Len(log) /\ gone \subseteq File
    /\ \A i \in 1 .. Len(log) : GoodEntry(i)

TreeType ==
    /\ slot \in [Key -> 0 .. Len(log)] /\ dirty \in BOOLEAN
    /\ root \in 0 .. Len(log) /\ (root # None => Is(root, "BIN"))

TxnType ==
    /\ txn \in [Txn -> {"idle", "active", "done"}]
    /\ writer \in [Key -> Txn \cup {None}]
    /\ before \in [Key -> 0 .. Len(log)] /\ unpub \in [Key -> 0 .. Len(log)]

SelType ==
    /\ being \subseteq File /\ cleaned \subseteq File /\ checkpointed \subseteq File
    /\ safe \subseteq File /\ anyPending \in BOOLEAN
    /\ pending \subseteq 1 .. Len(log) /\ (\A l \in pending : IsLN(l))
    /\ settled \in [File -> 0 .. MaxLog]

CleanerPcs == {"idle", "pending", "retry", "scan", "lns", "found", "delete"}
CkptPcs == {"idle", "pending", "retry", "start", "flush", "end", "after"}

AgentType ==
    /\ pc \in [Agent -> CleanerPcs \cup CkptPcs]
    /\ pc["cleaner"] \in CleanerPcs /\ pc["checkpointer"] \in CkptPcs
    /\ todo \in [Agent -> SUBSET (1 .. Len(log))]
    /\ at \in [Agent -> 0 .. Len(log)] /\ tree \in [Agent -> 0 .. Len(log)]
    /\ \A a \in Agent : \A l \in todo[a] : IsLN(l)
    /\ \A a \in Agent : pc[a] \in {"retry", "found"} => Is(at[a], "LN")
    /\ locked \subseteq 1 .. Len(log) /\ (\A l \in locked : IsLN(l)) /\ clamp \in File
    /\ snap \subseteq File /\ start \in 0 .. Len(log)
    /\ pc["checkpointer"] \in {"flush", "end", "after"} => Is(start, "CkptStart")

TypeInv == LogType /\ TreeType /\ TxnType /\ SelType /\ AgentType

\* The windows the code leaves open, as the history variable names them.
Windows == {"AbortRaced", "WriteLapped", "CommitLost", "DeletedEarly"}

-----------------------------------------------------------------------------
(* Numbers *)

LEMMA Least ==
    ASSUME NEW S, S \subseteq Nat, S # {}
    PROVE  \E x \in S : \A y \in S : x <= y
<1> DEFINE R == OpToRel(<, Nat)
<1>1. IsWellFoundedOn(R, Nat)
  BY NatLessThanWellFounded, Zenon
<1>2. \A x, y \in Nat : <<y, x>> \in R <=> y < x
  BY Zenon DEF OpToRel
<1>. HIDE DEF R
<1>3. PICK x \in S : \A y \in S : ~ (<<y, x>> \in R)
  BY <1>1, WFMin
<1>4. \A y \in S : y \in Nat
  OBVIOUS
<1>5. \A y \in S : ~ (y < x)
  BY <1>2, <1>3, <1>4, Zenon
<1>6. \A y \in S : x <= y
  BY <1>4, <1>5
<1>. QED
  BY <1>6

LEMMA Greatest ==
    ASSUME NEW n \in Nat, NEW S, S \subseteq 0 .. n, S # {}
    PROVE  \E x \in S : \A y \in S : x >= y
<1> DEFINE T == {n - s : s \in S}
<1>1. \A s \in S : s \in 0 .. n
  OBVIOUS
<1>2. T \subseteq Nat
  BY <1>1
<1>3. T # {}
  OBVIOUS
<1>4. PICK x \in T : \A y \in T : x <= y
  <2>. HIDE DEF T
  <2>. QED BY <1>2, <1>3, Least
<1>5. PICK s \in S : x = n - s
  BY <1>4
<1>6. \A y \in S : s >= y
  BY <1>1, <1>4, <1>5
<1>. QED
  BY <1>6

\* Max and Min of a set of numbers are what their names say.
LEMMA MaxIs ==
    ASSUME NEW n \in Nat, NEW S, S \subseteq 0 .. n, S # {}
    PROVE  Max(S) \in S /\ \A y \in S : y <= Max(S)
<1>1. \E x \in S : \A y \in S : x >= y
  BY Greatest
<1>2. Max(S) \in S /\ \A y \in S : Max(S) >= y
  BY <1>1, Zenon DEF Max
<1>. QED
  BY <1>2

LEMMA MinIs ==
    ASSUME NEW S, S \subseteq Nat, S # {}
    PROVE  Min(S) \in S /\ \A y \in S : Min(S) <= y
<1>1. \E x \in S : \A y \in S : x <= y
  BY Least
<1>. QED
  BY <1>1, Zenon DEF Min

LEMMA LatestIs ==
    ASSUME NEW n \in Nat, NEW S, S \subseteq 0 .. n
    PROVE  /\ Latest(S) \in 0 .. n /\ (\A y \in S : y <= Latest(S))
           /\ S # {} => Latest(S) \in S
<1>1. CASE S = {}
  BY <1>1 DEF Latest, None
<1>2. CASE S # {}
  BY <1>2, MaxIs DEF Latest
<1>. QED
  BY <1>1, <1>2

LEMMA FileOfType ==
    /\ \A l \in Nat \ {0} : FileOf(l) \in Nat /\ FileOf(l) <= l
    /\ \A l, m \in Nat \ {0} : l <= m => FileOf(l) <= FileOf(m)
<1>1. \A a \in Nat, b \in Nat \ {0} : a \div b \in 0 .. a
  OBVIOUS
<1>2. \A a, c \in Nat, b \in Nat \ {0} : a <= c => a \div b <= c \div b
  OBVIOUS
<1>. QED
  BY <1>1, <1>2, CleanerAssumption DEF FileOf

LEMMA LsnFile ==
    ASSUME NEW n \in Nat, n <= MaxLog, NEW l \in 1 .. n
    PROVE  FileOf(l) \in File
BY FileOfType, CleanerAssumption DEF File

-----------------------------------------------------------------------------
(* Types: lemmas *)

\* What an entry of each type holds.
LEMMA EntryIs ==
    ASSUME LogType, NEW i \in 1 .. Len(log)
    PROVE  /\ log[i].type = "LN" => /\ log[i].key \in Key /\ log[i].txn \in Txn \cup {None}
                                    /\ log[i].abort \in 0 .. i - 1 /\ log[i].val \in Lsn
           /\ log[i].type \in {"Commit", "Abort"} => log[i].txn \in Txn
           /\ log[i].type = "BIN" => log[i].slots \in [Key -> 0 .. i - 1]
           /\ log[i].type = "CkptEnd" =>
                 log[i].start \in 1 .. i - 1 /\ log[i].root \in 0 .. i - 1
<1>1. log[i] \in Entry /\ i \in Nat /\ Len(log) \in Nat /\ GoodEntry(i)
  BY DEF LogType
<1>2. CASE log[i] \in LN
  BY <1>1, <1>2 DEF LN, GoodEntry, Lsn, None
<1>3. CASE log[i] \in TxnEnd
  BY <1>3 DEF TxnEnd
<1>4. CASE log[i] \in CkptStartEntry
  BY <1>4 DEF CkptStartEntry
<1>5. CASE log[i] \in BinImage
  <2>1. log[i].type = "BIN" /\ log[i].slots \in [Key -> Lsn \cup {None}]
    BY <1>5 DEF BinImage
  <2>2. \A k \in Key : log[i].slots[k] \in 0 .. i - 1
    BY <1>1, <2>1 DEF GoodEntry, Lsn, None
  <2>3. log[i].slots \in [Key -> 0 .. i - 1]
    BY <2>1, <2>2
  <2>. QED
    BY <2>1, <2>3
<1>6. CASE log[i] \in CkptEndEntry
  BY <1>1, <1>6, CleanerAssumption DEF CkptEndEntry, GoodEntry, Lsn, None
<1>. QED
  BY <1>1, <1>2, <1>3, <1>4, <1>5, <1>6 DEF Entry

\* The log has grown or is as before.
Grown == /\ Len(log) \in Nat /\ Len(log') \in Nat /\ Len(log) <= Len(log') /\ Len(log') <= MaxLog
         /\ \A i \in 1 .. Len(log) : log'[i] = log[i]

LEMMA SameLog ==
    ASSUME LogType, log' = log
    PROVE  Grown /\ Len(log') = Len(log)
BY DEF LogType, Grown

LEMMA Appends ==
    ASSUME LogType, NEW e \in Entry, Append1(e)
    PROVE  /\ Grown /\ Len(log') = Len(log) + 1 /\ log'[Len(log) + 1] = e
           /\ log' \in Seq(Entry) /\ Len(log) + 1 \in Lsn
BY CleanerAssumption DEF LogType, Append1, Full, Grown, Lsn

LEMMA GrownIs ==
    ASSUME Grown
    PROVE  /\ \A l : IsLN(l) /\ l \in 1 .. Len(log) => IsLN(l)' /\ l \in 1 .. Len(log')
           /\ \A l, ty : Is(l, ty) => Is(l, ty)'
           /\ \A l : l \in 1 .. Len(log) => l \in 1 .. Len(log')
           /\ \A l : l \in 0 .. Len(log) => l \in 0 .. Len(log')
           /\ \A i \in 1 .. Len(log) : GoodEntry(i) => GoodEntry(i)'
<1>1. \A l : l \in 1 .. Len(log) => l \in 1 .. Len(log')
  BY DEF Grown
<1>2. \A l, ty : Is(l, ty) => Is(l, ty)'
  BY <1>1 DEF Grown, Is
<1>. QED
  BY <1>1, <1>2 DEF Grown, IsLN, GoodEntry

LEMMA LogKept ==
    ASSUME LogType, UNCHANGED log, durable' \in 1 .. Len(log), gone' \subseteq File
    PROVE  LogType'
<1>1. Grown
  BY SameLog
<1>. QED
  BY <1>1, GrownIs DEF LogType

LEMMA LogAppended ==
    ASSUME LogType, NEW e \in Entry, Append1(e), durable' \in 1 .. Len(log'), gone' \subseteq File,
           NEW n, n = Len(log) + 1, GoodEntry(n)'
    PROVE  LogType'
<1>1. /\ Grown /\ Len(log') = Len(log) + 1 /\ log'[Len(log) + 1] = e
      /\ log' \in Seq(Entry)
  BY Appends
<1>2. \A i \in 1 .. Len(log') : GoodEntry(i)'
  <2>. SUFFICES ASSUME NEW i \in 1 .. Len(log') PROVE GoodEntry(i)'
    OBVIOUS
  <2>1. CASE i = n
    BY <2>1
  <2>2. CASE i # n
    <3>1. i \in 1 .. Len(log)
      BY <1>1, <2>2 DEF Grown
    <3>. QED
      BY <1>1, <3>1, GrownIs DEF LogType
  <2>. QED
    BY <2>1, <2>2
<1>. QED
  BY <1>1, <1>2 DEF LogType, Grown

LEMMA TreeKept ==
    ASSUME TreeType, Grown, UNCHANGED treeVars
    PROVE  TreeType'
<1>1. slot' \in [Key -> 0 .. Len(log')]
  BY GrownIs DEF TreeType, treeVars
<1>. QED
  BY <1>1, GrownIs DEF TreeType, treeVars

LEMMA TxnKept ==
    ASSUME TxnType, Grown, UNCHANGED txnVars
    PROVE  TxnType'
BY GrownIs DEF TxnType, txnVars

LEMMA SelKept ==
    ASSUME SelType, Grown, UNCHANGED selVars
    PROVE  SelType'
<1>1. pending' \subseteq 1 .. Len(log') /\ \A l \in pending' : IsLN(l)'
  BY GrownIs DEF SelType, selVars
<1>. QED
  BY <1>1 DEF SelType, selVars

\* The parts of the agents' state.
QueueType ==
    /\ todo \in [Agent -> SUBSET (1 .. Len(log))]
    /\ \A a \in Agent : \A l \in todo[a] : IsLN(l)
LookType ==
    /\ at \in [Agent -> 0 .. Len(log)] /\ tree \in [Agent -> 0 .. Len(log)]
    /\ \A a \in Agent : pc[a] \in {"retry", "found"} => Is(at[a], "LN")
PcType ==
    /\ pc \in [Agent -> CleanerPcs \cup CkptPcs]
    /\ pc["cleaner"] \in CleanerPcs /\ pc["checkpointer"] \in CkptPcs
PassType == locked \subseteq 1 .. Len(log) /\ (\A l \in locked : IsLN(l)) /\ clamp \in File
CkptType ==
    /\ snap \subseteq File /\ start \in 0 .. Len(log)
    /\ pc["checkpointer"] \in {"flush", "end", "after"} => Is(start, "CkptStart")

LEMMA AgentParts == AgentType <=> QueueType /\ LookType /\ PcType /\ PassType /\ CkptType
BY DEF AgentType, QueueType, LookType, PcType, PassType, CkptType

LEMMA QueueKept ==
    ASSUME QueueType, Grown, UNCHANGED todo
    PROVE  QueueType'
<1>1. SUBSET (1 .. Len(log)) \subseteq SUBSET (1 .. Len(log'))
  BY GrownIs
<1>2. \A a \in Agent : \A l \in todo[a] : l \in 1 .. Len(log)
  BY DEF QueueType
<1>3. \A a \in Agent : \A l \in todo[a] : IsLN(l)'
  BY <1>2, GrownIs DEF QueueType
<1>. QED
  BY <1>1, <1>3 DEF QueueType

LEMMA PassKept ==
    ASSUME PassType, Grown, UNCHANGED passVars
    PROVE  PassType'
BY GrownIs DEF PassType, passVars

LEMMA CkptKept ==
    ASSUME CkptType, Grown, UNCHANGED ckptVars, pc'["checkpointer"] = pc["checkpointer"]
    PROVE  CkptType'
BY GrownIs DEF CkptType, ckptVars

-----------------------------------------------------------------------------
(* Recovery *)

\* One step of the undo pass, given the result of the steps after it.
UndoStep(f, l, n, committed) ==
    IF Survives(l, n) /\ IsLN(l) /\ log[l].txn \notin committed \cup {None}
    THEN IF Survives(log[l].abort, n) THEN f[log[l].abort] ELSE None
    ELSE l

LEMMA UndoStepIs ==
    ASSUME LogType, NEW n \in 0 .. Len(log), NEW committed, NEW l \in 0 .. n,
           NEW f, NEW g, \A i \in 0 .. l - 1 : f[i] = g[i],
           \A i \in 0 .. l - 1 : f[i] \in 0 .. n
    PROVE  /\ UndoStep(f, l, n, committed) = UndoStep(g, l, n, committed)
           /\ UndoStep(f, l, n, committed) \in 0 .. n
<1>0. Len(log) \in Nat /\ n \in Nat /\ l \in Nat /\ l <= n /\ n <= Len(log)
  BY DEF LogType
<1>1. CASE Survives(l, n) /\ IsLN(l) /\ log[l].txn \notin committed \cup {None}
  <2>1. l \in 1 .. Len(log)
    BY <1>0, <1>1 DEF Survives
  <2>2. log[l].abort \in 0 .. l - 1
    BY <1>1, <2>1, EntryIs DEF IsLN
  <2>. QED
    BY <1>0, <1>1, <2>2 DEF UndoStep, None
<1>2. CASE ~(Survives(l, n) /\ IsLN(l) /\ log[l].txn \notin committed \cup {None})
  BY <1>0, <1>2 DEF UndoStep
<1>. QED
  BY <1>1, <1>2

LEMMA UndoExists ==
    ASSUME LogType, NEW n \in 0 .. Len(log), NEW committed
    PROVE  \E f \in [0 .. n -> 0 .. n] : \A l \in 0 .. n : f[l] = UndoStep(f, l, n, committed)
<1> DEFINE P(m) == \E f \in [0 .. m -> 0 .. n] : \A l \in 0 .. m : f[l] = UndoStep(f, l, n, committed)
           Bad == {m \in 0 .. n : ~P(m)}
<1>0. n \in Nat
  BY DEF LogType
<1>1. ASSUME Bad # {} PROVE FALSE
  <2>1. PICK m \in Bad : \A y \in Bad : m <= y
    <3>1. Bad \subseteq Nat
      BY <1>0
    <3>. HIDE DEF Bad
    <3>. QED
      BY <1>1, <3>1, Least
  <2>2. m \in 0 .. n /\ ~P(m)
    BY <2>1
  <2>3. PICK g : \A i \in 0 .. m - 1 : g[i] \in 0 .. n /\ g[i] = UndoStep(g, i, n, committed)
    <3>1. CASE m = 0
      BY <1>0, <3>1
    <3>2. CASE m # 0
      <4>1. m - 1 \in 0 .. n /\ ~(m <= m - 1)
        BY <1>0, <2>2, <3>2
      <4>3. m - 1 \notin Bad
        <5>. HIDE DEF Bad
        <5>. QED BY <2>1, <4>1
      <4>2. P(m - 1)
        BY <4>1, <4>3
      <4>. QED
        BY <4>2
    <3>. QED
      BY <3>1, <3>2
  <2>. DEFINE x == UndoStep(g, m, n, committed)
              f == [i \in 0 .. m |-> IF i < m THEN g[i] ELSE x]
  <2>4. x \in 0 .. n
    <3>1. (\A i \in 0 .. m - 1 : g[i] = g[i]) /\ \A i \in 0 .. m - 1 : g[i] \in 0 .. n
      BY <2>3
    <3>. QED
      BY <2>2, <3>1, UndoStepIs
  <2>5. f \in [0 .. m -> 0 .. n]
    BY <1>0, <2>2, <2>3, <2>4
  <2>6. \A i \in 0 .. m - 1 : f[i] = g[i]
    BY <1>0, <2>2
  <2>7. f[m] = x
    BY <1>0, <2>2
  <2>. HIDE DEF f, x
  <2>8. ASSUME NEW l \in 0 .. m PROVE f[l] = UndoStep(f, l, n, committed)
    <3>1. /\ \A i \in 0 .. l - 1 : f[i] = g[i]
          /\ \A i \in 0 .. l - 1 : f[i] \in 0 .. n
          /\ l \in 0 .. n
      BY <1>0, <2>2, <2>3, <2>6
    <3>2. UndoStep(f, l, n, committed) = UndoStep(g, l, n, committed)
      BY <3>1, UndoStepIs
    <3>3. CASE l = m
      BY <2>7, <3>2, <3>3 DEF x
    <3>4. CASE l # m
      BY <1>0, <2>2, <2>3, <2>6, <3>2, <3>4
    <3>. QED
      BY <3>3, <3>4
  <2>. QED
    BY <2>2, <2>5, <2>8
<1>2. Bad = {} /\ n \in 0 .. n
  <2>. HIDE DEF Bad
  <2>. QED
    BY <1>0, <1>1
<1>3. P(n)
  <2>. HIDE DEF P
  <2>. QED
    BY <1>2
<1>. QED
  BY <1>3

\* The undo pass follows before-images; it ends at a version or at none.
LEMMA UndoneIs ==
    ASSUME LogType, NEW n \in 0 .. Len(log), NEW committed, NEW l \in 0 .. n
    PROVE  /\ Undone(l, n, committed) \in 0 .. n
           /\ Survives(l, n) /\ IsLN(l) /\ log[l].txn \notin committed \cup {None} =>
                 Undone(l, n, committed) = IF Survives(log[l].abort, n)
                                           THEN Undone(log[l].abort, n, committed) ELSE None
           /\ ~(Survives(l, n) /\ IsLN(l) /\ log[l].txn \notin committed \cup {None}) =>
                 Undone(l, n, committed) = l
<1>0. n \in Nat /\ n <= Len(log) /\ Len(log) \in Nat
  BY DEF LogType
<1> DEFINE P(f) == f = [i \in 0 .. n |-> UndoStep(f, i, n, committed)]
           u == CHOOSE f : P(f)
<1>1. \E f : P(f)
  <2>1. PICK f \in [0 .. n -> 0 .. n] : \A i \in 0 .. n : f[i] = UndoStep(f, i, n, committed)
    BY UndoExists
  <2>. QED
    BY <2>1
<1>2. P(u)
  <2>. HIDE DEF P
  <2>. QED
    BY <1>1, Zenon
<1>3. \A i \in 0 .. n : u[i] = UndoStep(u, i, n, committed)
  BY <1>2
<1>4. \A i \in 0 .. n : Undone(i, n, committed) = u[i]
  BY Zenon DEF Undone, UndoStep
<1>. HIDE DEF P, u
<1> DEFINE Bad == {i \in 0 .. n : u[i] \notin 0 .. n}
<1>5. ASSUME Bad # {} PROVE FALSE
  <2>1. PICK m \in Bad : \A y \in Bad : m <= y
    <3>1. Bad \subseteq Nat
      BY <1>0
    <3>. HIDE DEF Bad
    <3>. QED
      BY <1>5, <3>1, Least
  <2>2. m \in 0 .. n /\ u[m] \notin 0 .. n /\ \A i \in 0 .. m - 1 : u[i] \in 0 .. n
    BY <1>0, <2>1
  <2>3. UndoStep(u, m, n, committed) \in 0 .. n
    <3>1. \A i \in 0 .. m - 1 : u[i] = u[i]
      OBVIOUS
    <3>. QED
      BY <2>2, <3>1, UndoStepIs
  <2>. QED
    BY <1>3, <2>2, <2>3
<1>6. \A i \in 0 .. n : u[i] \in 0 .. n
  BY <1>5
<1>7. Survives(l, n) /\ IsLN(l) => log[l].abort \in 0 .. n
  BY <1>0, EntryIs DEF Survives, IsLN
<1>. QED
  BY <1>3, <1>4, <1>6, <1>7 DEF UndoStep

LEMMA LastCkptIs ==
    ASSUME LogType, NEW n \in 0 .. Len(log)
    PROVE  \/ /\ Surviving(n, "CkptEnd") = {} /\ LastCkpt(n) = NoCkpt
           \/ \E e \in Surviving(n, "CkptEnd") :
                 LastCkpt(n) = log[e] /\ \A d \in Surviving(n, "CkptEnd") : d <= e
<1>0. n \in Nat
  BY DEF LogType
<1>1. Surviving(n, "CkptEnd") \subseteq 0 .. n
  BY <1>0 DEF Surviving
<1>2. CASE Surviving(n, "CkptEnd") # {}
  <2>1. PICK e \in Surviving(n, "CkptEnd") : e = Max(Surviving(n, "CkptEnd"))
                                             /\ \A d \in Surviving(n, "CkptEnd") : d <= e
    BY <1>0, <1>1, <1>2, MaxIs
  <2>. QED
    BY <1>2, <2>1 DEF LastCkpt
<1>. QED
  BY <1>2 DEF LastCkpt

\* The image recovery starts from: the latest of the checkpoint's root and the images since.
LEMMA BaseImageIs ==
    ASSUME LogType, NEW n \in 0 .. Len(log)
    PROVE  LET c == LastCkpt(n)
               b == BaseImage(n, c)
               S == {l \in Surviving(n, "BIN") : l >= c.start}
           IN  /\ c.root \in 0 .. n /\ c.start \in 0 .. n /\ (c.root # None => Is(c.root, "BIN"))
               /\ b \in 0 .. n /\ (b # None => Is(b, "BIN"))
               /\ b \in {c.root} \cup S /\ c.root <= b /\ \A l \in S : l <= b
<1> DEFINE c == LastCkpt(n)
           S == {l \in Surviving(n, "BIN") : l >= c.start}
<1>0. n \in Nat /\ n <= Len(log) /\ Len(log) \in Nat
  BY DEF LogType
<1>1. c.root \in 0 .. n /\ c.start \in 0 .. n /\ (c.root # None => Is(c.root, "BIN"))
  <2>1. CASE c = NoCkpt
    BY <1>0, <2>1 DEF NoCkpt, None
  <2>2. CASE \E e \in Surviving(n, "CkptEnd") : c = log[e]
    <3>1. PICK e \in Surviving(n, "CkptEnd") : c = log[e]
      BY <2>2
    <3>2. e \in 1 .. n /\ e \in 1 .. Len(log) /\ log[e].type = "CkptEnd"
      BY <1>0, <3>1 DEF Surviving
    <3>3. log[e].start \in 1 .. e - 1 /\ log[e].root \in 0 .. e - 1
      BY <3>2, EntryIs
    <3>4. log[e].root # None => Is(log[e].root, "BIN")
      BY <3>2 DEF LogType, GoodEntry
    <3>. QED
      BY <1>0, <3>1, <3>2, <3>3, <3>4
  <2>. QED
    BY <2>1, <2>2, LastCkptIs
<1>. HIDE DEF c
<1>2. {c.root} \cup S \subseteq 0 .. n /\ {c.root} \cup S # {}
  BY <1>0, <1>1 DEF Surviving
<1>3. BaseImage(n, c) = Latest({c.root} \cup S)
  BY DEF BaseImage
<1>4. \A l \in S : Is(l, "BIN")
  BY <1>0 DEF Surviving, Is
<1>5. /\ Latest({c.root} \cup S) \in {c.root} \cup S /\ Latest({c.root} \cup S) \in 0 .. n
      /\ \A y \in {c.root} \cup S : y <= Latest({c.root} \cup S)
  <2>. HIDE DEF S
  <2>. QED
    BY <1>0, <1>2, LatestIs
<1>. QED
  BY <1>1, <1>3, <1>4, <1>5 DEF c

LEMMA RecoveredSlotType ==
    ASSUME LogType, NEW n \in 0 .. Len(log), NEW k \in Key
    PROVE  RecoveredSlot(k, n) \in 0 .. n
<1> DEFINE c == LastCkpt(n)
           b == BaseImage(n, c)
           committed == Committed(n)
           T == {IF b = None THEN None ELSE log[b].slots[k]}
                  \cup {l \in EligibleForRedo(n, committed) : l >= RedoFrom(c) /\ log[l].key = k}
<1>0. n \in Nat /\ n <= Len(log) /\ Len(log) \in Nat
  BY DEF LogType
<1>1. b \in 0 .. n /\ (b # None => Is(b, "BIN"))
  BY BaseImageIs
<1>2. (IF b = None THEN None ELSE log[b].slots[k]) \in 0 .. n
  <2>1. CASE b = None
    BY <1>0, <2>1 DEF None
  <2>2. CASE b # None
    <3>1. b \in 1 .. Len(log) /\ log[b].type = "BIN"
      BY <1>1, <2>2 DEF Is
    <3>2. log[b].slots \in [Key -> 0 .. b - 1]
      BY <3>1, EntryIs
    <3>. QED
      BY <1>0, <1>1, <2>2, <3>2
  <2>. QED
    BY <2>1, <2>2
<1>3. T \subseteq 0 .. n
  BY <1>0, <1>2 DEF EligibleForRedo, Surviving
<1>4. Redone(k, n, c, committed) = Latest(T)
  BY DEF Redone
<1>5. Latest(T) \in 0 .. n
  <2>. HIDE DEF T
  <2>. QED
    BY <1>0, <1>3, LatestIs
<1>6. RecoveredSlot(k, n) = Undone(Latest(T), n, committed)
  BY <1>4, Zenon DEF RecoveredSlot
<1>. HIDE DEF T, committed
<1>. QED
  BY <1>5, <1>6, UndoneIs

-----------------------------------------------------------------------------
(* The loaded database *)

LEMMA LoadedKeys ==
    /\ Loaded \in Nat /\ Keys \in [1 .. Loaded -> Key]
    /\ \A i, j \in 1 .. Loaded : Keys[i] = Keys[j] => i = j
    /\ \A k \in Key : InitSlots[k] \in 1 .. Loaded /\ Keys[InitSlots[k]] = k
    /\ InitSlots \in [Key -> 1 .. Loaded]
<1>1. Loaded \in Nat /\ ExistsBijection(1 .. Loaded, Key) /\ IsFiniteSet(Key)
  BY FS_CardinalityType, CleanerAssumption DEF Loaded
<1>2. PICK g : g \in Bijection(1 .. Loaded, Key)
  BY <1>1 DEF ExistsBijection
<1>3. g \in [1 .. Loaded -> Key] /\ \A i, j \in 1 .. Loaded : g[i] = g[j] => i = j
  BY <1>2 DEF Bijection, Injection, IsInjective
<1> DEFINE P(s) == \A i, j \in DOMAIN s : s[i] = s[j] => i = j
<1>4. \E s \in [1 .. Cardinality(Key) -> Key] : P(s)
  BY <1>3 DEF Loaded
<1>5. Keys \in [1 .. Cardinality(Key) -> Key] /\ P(Keys)
  <2>1. Keys = CHOOSE s \in [1 .. Cardinality(Key) -> Key] : P(s)
    BY DEF Keys
  <2>. HIDE DEF P
  <2>. QED
    BY <1>4, <2>1, Zenon
<1>6. Keys \in [1 .. Loaded -> Key] /\ \A i, j \in 1 .. Loaded : Keys[i] = Keys[j] => i = j
  BY <1>5 DEF Loaded
<1>7. Keys \in Injection(1 .. Loaded, Key)
  BY <1>6 DEF Injection, IsInjective
<1>8. Cardinality(1 .. Loaded) = Cardinality(Key)
  BY <1>1, FS_Interval DEF Loaded
<1>9. Keys \in Surjection(1 .. Loaded, Key)
  BY <1>1, <1>7, <1>8, FS_Injection
<1>10. \A k \in Key : \E i \in 1 .. Loaded : Keys[i] = k
  BY <1>9 DEF Surjection
<1>11. \A k \in Key : InitSlots[k] \in 1 .. Loaded /\ Keys[InitSlots[k]] = k
  <2>. SUFFICES ASSUME NEW k \in Key PROVE InitSlots[k] \in 1 .. Loaded /\ Keys[InitSlots[k]] = k
    OBVIOUS
  <2>1. InitSlots[k] = CHOOSE i \in 1 .. Loaded : Keys[i] = k
    BY DEF InitSlots
  <2>2. \E i \in 1 .. Loaded : Keys[i] = k
    BY <1>10
  <2>. QED
    BY <2>1, <2>2, Zenon
<1>12. InitSlots = [k \in Key |-> InitSlots[k]]
  BY DEF InitSlots
<1>13. InitSlots \in [Key -> 1 .. Loaded]
  BY <1>11, <1>12
<1>. QED
  BY <1>1, <1>6, <1>11, <1>13

\* The entries of the log of a loaded database.
LEMMA InitLogIs ==
    /\ \E U : InitLog \in Seq(U)
    /\ Len(InitLog) = Loaded + 3 /\ DOMAIN InitLog = 1 .. Loaded + 3
    /\ \A i \in 1 .. Loaded : InitLog[i] = [type |-> "LN", key |-> Keys[i], txn |-> None,
                                            abort |-> None, val |-> i]
    /\ InitLog[Loaded + 1] = [type |-> "CkptStart"]
    /\ InitLog[Loaded + 2] = [type |-> "BIN", slots |-> InitSlots]
    /\ InitLog[Loaded + 3] = [type |-> "CkptEnd", start |-> Loaded + 1, root |-> Loaded + 2]
<1> DEFINE s == [i \in 1 .. Loaded |-> [type |-> "LN", key |-> Keys[i], txn |-> None,
                                        abort |-> None, val |-> i]]
           R == {s[i] : i \in 1 .. Loaded}
           e1 == [type |-> "CkptStart"]
           e2 == [type |-> "BIN", slots |-> InitSlots]
           e3 == [type |-> "CkptEnd", start |-> Loaded + 1, root |-> Loaded + 2]
           U == R \cup {e1, e2, e3}
<1>1. Loaded \in Nat
  BY LoadedKeys
<1>2. s \in Seq(U) /\ Len(s) = Loaded
  BY <1>1
<1>3. \A i \in 1 .. Loaded : s[i] = [type |-> "LN", key |-> Keys[i], txn |-> None,
                                     abort |-> None, val |-> i]
  OBVIOUS
<1>4. InitLog = s \o <<e1, e2, e3>>
  BY DEF InitLog
<1>5. e1 \in U /\ e2 \in U /\ e3 \in U
  OBVIOUS
<1>. HIDE DEF s, U, e1, e2, e3
<1>6. <<e1, e2, e3>> \in Seq(U) /\ Len(<<e1, e2, e3>>) = 3
  BY <1>5
<1>7. InitLog \in Seq(U) /\ Len(InitLog) = Loaded + 3
  BY <1>1, <1>2, <1>4, <1>6
<1>8. /\ \A i \in 1 .. Loaded : InitLog[i] = s[i]
      /\ InitLog[Loaded + 1] = e1 /\ InitLog[Loaded + 2] = e2 /\ InitLog[Loaded + 3] = e3
  BY <1>1, <1>2, <1>4, <1>6
<1>9. DOMAIN InitLog = 1 .. Loaded + 3
  BY <1>7
<1>10. \E V : InitLog \in Seq(V)
  BY <1>7
<1>. QED
  BY <1>3, <1>7, <1>8, <1>9, <1>10 DEF e1, e2, e3

LEMMA InitTypes ==
    ASSUME Loaded + 3 <= MaxLog, Init
    PROVE  TypeInv
<1>0. Loaded \in Nat /\ InitSlots \in [Key -> 1 .. Loaded] /\ Keys \in [1 .. Loaded -> Key]
  BY LoadedKeys
<1> DEFINE n == Loaded + 3
<1>1. log = InitLog /\ Len(log) = n
  BY InitLogIs DEF Init
<1>2. /\ \A i \in 1 .. Loaded : log[i] = [type |-> "LN", key |-> Keys[i], txn |-> None,
                                          abort |-> None, val |-> i]
      /\ log[Loaded + 1] = [type |-> "CkptStart"]
      /\ log[Loaded + 2] = [type |-> "BIN", slots |-> InitSlots]
      /\ log[Loaded + 3] = [type |-> "CkptEnd", start |-> Loaded + 1, root |-> Loaded + 2]
  BY <1>1, InitLogIs
<1>3. \A i \in 1 .. n : log[i] \in Entry
  <2>1. \A i \in 1 .. Loaded : log[i] \in LN
    <3>. SUFFICES ASSUME NEW i \in 1 .. Loaded PROVE log[i] \in LN
      OBVIOUS
    <3>1. log[i] = [type |-> "LN", key |-> Keys[i], txn |-> None, abort |-> None, val |-> i]
      BY <1>2
    <3>2. Keys[i] \in Key /\ i \in Lsn
      BY <1>0, CleanerAssumption DEF Lsn
    <3>. QED
      BY <3>1, <3>2 DEF LN
  <2>2. log[Loaded + 1] \in CkptStartEntry
    BY <1>2 DEF CkptStartEntry
  <2>3. log[Loaded + 2] \in BinImage
    <3>1. InitSlots \in [Key -> Lsn \cup {None}]
      BY <1>0, CleanerAssumption DEF Lsn
    <3>. QED
      BY <1>2, <3>1 DEF BinImage
  <2>4. log[Loaded + 3] \in CkptEndEntry
    BY <1>0, <1>2, CleanerAssumption DEF CkptEndEntry, Lsn
  <2>5. \A i \in 1 .. n : i \in 1 .. Loaded \/ i \in {Loaded + 1, Loaded + 2, Loaded + 3}
    BY <1>0
  <2>. QED
    BY <2>1, <2>2, <2>3, <2>4, <2>5 DEF Entry
<1>4. log \in Seq(Entry)
  <2>1. log = [i \in 1 .. n |-> log[i]]
    <3>1. \E S : log \in Seq(S)
      BY <1>1, InitLogIs
    <3>. QED
      BY <1>1, <3>1
  <2>. QED
    <3>1. n \in Nat
      BY <1>0
    <3>. HIDE DEF n
    <3>. QED
      BY <1>3, <2>1, <3>1
<1>5. \A i \in 1 .. n : GoodEntry(i)
  <2>. SUFFICES ASSUME NEW i \in 1 .. n PROVE GoodEntry(i)
    OBVIOUS
  <2>1. CASE i \in 1 .. Loaded
    <3>0. log[i] = [type |-> "LN", key |-> Keys[i], txn |-> None, abort |-> None, val |-> i]
      BY <1>2, <2>1
    <3>1. log[i].type = "LN" /\ log[i].abort = 0
      BY <3>0 DEF None
    <3>. QED
      BY <1>0, <3>1 DEF GoodEntry
  <2>2. CASE i = Loaded + 1
    BY <1>2, <2>2 DEF GoodEntry
  <2>3. CASE i = Loaded + 2
    BY <1>0, <1>2, <2>3 DEF GoodEntry
  <2>4. CASE i = Loaded + 3
    BY <1>0, <1>1, <1>2, <2>4 DEF GoodEntry, Is
  <2>. QED
    BY <1>0, <2>1, <2>2, <2>3, <2>4
<1>6. LogType
  BY <1>0, <1>1, <1>4, <1>5 DEF LogType, Init
<1>7. TreeType
  <2>1. slot = InitSlots /\ root = Loaded + 2 /\ (dirty = FALSE)
    BY DEF Init
  <2>2. slot \in [Key -> 0 .. n] /\ root \in 1 .. n
    BY <1>0, <2>1
  <2>3. log[root].type = "BIN"
    BY <1>2, <2>1
  <2>4. n \in Nat
    BY <1>0
  <2>5. dirty \in BOOLEAN
    BY <2>1
  <2>. HIDE DEF n
  <2>6. slot \in [Key -> 0 .. Len(log)] /\ root \in 0 .. Len(log) /\ Is(root, "BIN")
    BY <1>1, <2>2, <2>3, <2>4 DEF Is
  <2>. QED
    BY <2>5, <2>6 DEF TreeType
<1>8. TxnType
  BY <1>0, <1>1 DEF TxnType, Init, None
<1>9. SelType
  <2>1. settled \in [File -> 0 .. MaxLog]
    BY CleanerAssumption DEF Init, None
  <2>. QED
    BY <2>1 DEF SelType, Init
<1>10. AgentType
  <2>1. /\ todo \in [Agent -> SUBSET (1 .. Len(log))] /\ pc \in [Agent -> {"idle"}]
        /\ at \in [Agent -> 0 .. Len(log)] /\ tree \in [Agent -> 0 .. Len(log)]
    BY <1>0, <1>1 DEF Init, None
  <2>2. (\A a \in Agent : pc[a] = "idle" /\ todo[a] = {}) /\ "cleaner" \in Agent /\ "checkpointer" \in Agent
    BY DEF Init, Agent
  <2>3. clamp \in File /\ start \in 0 .. Len(log) /\ snap = {} /\ locked = {}
    BY <1>0, <1>1, CleanerAssumption DEF Init, None, File
  <2>. QED
    BY <2>1, <2>2, <2>3 DEF AgentType, CleanerPcs, CkptPcs
<1>. QED
  BY <1>6, <1>7, <1>8, <1>9, <1>10 DEF TypeInv

-----------------------------------------------------------------------------
(* Types: the steps *)

LEMMA Parts == TypeInv <=> /\ LogType /\ TreeType /\ TxnType /\ SelType
                           /\ QueueType /\ LookType /\ PcType /\ PassType /\ CkptType
BY AgentParts DEF TypeInv

LEMMA PartsNext ==
    ASSUME LogType', TreeType', TxnType', SelType',
           QueueType', LookType', PcType', PassType', CkptType'
    PROVE  TypeInv'
BY DEF TypeInv, AgentType, QueueType, LookType, PcType, PassType, CkptType

LEMMA AgentsAre == "cleaner" \in Agent /\ "checkpointer" \in Agent /\ "cleaner" # "checkpointer"
BY DEF Agent

\* One agent takes a step.
LEMMA PcStep ==
    ASSUME PcType, NEW a \in Agent, NEW p, pc' = [pc EXCEPT ![a] = p],
           p \in IF a = "cleaner" THEN CleanerPcs ELSE CkptPcs
    PROVE  PcType' /\ pc'[a] = p /\ \A b \in Agent : b # a => pc'[b] = pc[b]
<1>1. Agent = {"cleaner", "checkpointer"}
  BY DEF Agent
<1>2. pc'[a] = p /\ \A b \in Agent : b # a => pc'[b] = pc[b]
  BY DEF PcType
<1>3. p \in CleanerPcs \cup CkptPcs
  OBVIOUS
<1>4. pc' \in [Agent -> CleanerPcs \cup CkptPcs]
  BY <1>3 DEF PcType
<1>5. CASE a = "cleaner"
  BY <1>1, <1>2, <1>4, <1>5 DEF PcType
<1>6. CASE a # "cleaner"
  BY <1>1, <1>2, <1>4, <1>6 DEF PcType
<1>. QED
  BY <1>2, <1>5, <1>6

LEMMA LookKept ==
    ASSUME LookType, Grown, UNCHANGED <<at, tree>>,
           \A a \in Agent : pc'[a] \in {"retry", "found"} => pc[a] \in {"retry", "found"}
    PROVE  LookType'
BY GrownIs DEF LookType

LEMMA QuietAgents ==
    ASSUME QueueType, LookType, PcType, PassType, CkptType, Grown,
           pc' = pc, UNCHANGED lookVars, UNCHANGED passVars, UNCHANGED ckptVars
    PROVE  QueueType' /\ LookType' /\ PcType' /\ PassType' /\ CkptType'
<1>1. UNCHANGED <<pc, todo, at, tree, passVars, ckptVars>>
  BY DEF lookVars
<1>2. PcType'
  BY <1>1 DEF PcType
<1>3. \A a \in Agent : pc'[a] \in {"retry", "found"} => pc[a] \in {"retry", "found"}
  BY <1>1
<1>4. pc'["checkpointer"] = pc["checkpointer"]
  BY <1>1
<1>. QED
  BY <1>1, <1>2, <1>3, <1>4, QueueKept, LookKept, PassKept, CkptKept

\* The transactions' steps.
LEMMA WriteTypes ==
    ASSUME TypeInv, NEW t \in Txn, NEW k \in Key, Write(t, k)
    PROVE  TypeInv'
<1>0. /\ LogType /\ TreeType /\ TxnType /\ SelType
      /\ QueueType /\ LookType /\ PcType /\ PassType /\ CkptType
  BY Parts
<1> DEFINE n == Len(log) + 1
           e == [type |-> "LN", key |-> k, txn |-> t, abort |-> AbortLsn(t, k), val |-> End]
<1>1. Append1(e) /\ UNCHANGED <<durable, gone, treeVars, selVars, pc, lookVars, passVars, ckptVars>>
  BY DEF Write
<1>2. n \in Lsn /\ AbortLsn(t, k) \in 0 .. Len(log) /\ Len(log) \in Nat
  BY <1>0, <1>1, CleanerAssumption DEF Append1, Full, LogType, TreeType, TxnType, Lsn, AbortLsn
<1>3. e \in Entry
  <2>1. e \in LN
    BY <1>0, <1>2, CleanerAssumption DEF LN, End, Lsn, None, LogType
  <2>. QED
    BY <2>1 DEF Entry
<1>4. Grown /\ Len(log') = n /\ log'[n] = e
  BY <1>0, <1>1, <1>3, Appends
<1>5. PICK m : m = n
  OBVIOUS
<1>6. log'[m].type = "LN" /\ log'[m].abort < m
  BY <1>2, <1>4, <1>5
<1>7. GoodEntry(m)'
  BY <1>6 DEF GoodEntry
<1>8. durable' \in 1 .. Len(log') /\ gone' \subseteq File
  BY <1>0, <1>1, <1>4 DEF LogType, Grown
<1>. HIDE DEF e
<1>9. LogType'
  BY <1>0, <1>1, <1>3, <1>5, <1>7, <1>8, LogAppended
<1>10. TxnType'
  <2>1. before' = [before EXCEPT ![k] = AbortLsn(t, k)] /\ unpub' = [unpub EXCEPT ![k] = n]
        /\ txn' = [txn EXCEPT ![t] = "active"] /\ writer' = [writer EXCEPT ![k] = t]
    BY DEF Write, End
  <2>2. before \in [Key -> 0 .. Len(log')] /\ unpub \in [Key -> 0 .. Len(log')]
    BY <1>0, <1>4, GrownIs DEF TxnType
  <2>3. AbortLsn(t, k) \in 0 .. Len(log') /\ n \in 0 .. Len(log')
    BY <1>2, <1>4
  <2>. HIDE DEF n
  <2>. QED
    BY <1>0, <2>1, <2>2, <2>3 DEF TxnType
<1>11. TreeType' /\ SelType'
  BY <1>0, <1>1, <1>4, TreeKept, SelKept
<1>12. QueueType' /\ LookType' /\ PcType' /\ PassType' /\ CkptType'
  <2>1. pc' = pc /\ UNCHANGED lookVars /\ UNCHANGED passVars /\ UNCHANGED ckptVars
    BY <1>1
  <2>. QED
    BY <1>0, <1>4, <2>1, QuietAgents
<1>. QED
  BY <1>9, <1>10, <1>11, <1>12, PartsNext

LEMMA PublishTypes ==
    ASSUME TypeInv, NEW k \in Key, Publish(k)
    PROVE  TypeInv'
<1>0. /\ LogType /\ TreeType /\ TxnType /\ SelType
      /\ QueueType /\ LookType /\ PcType /\ PassType /\ CkptType
  BY Parts
<1>1. /\ UNCHANGED <<logVars, root, txn, writer, before, selVars, pc, lookVars, passVars, ckptVars>>
      /\ slot' = [slot EXCEPT ![k] = unpub[k]] /\ unpub' = [unpub EXCEPT ![k] = None]
      /\ (dirty' = TRUE)
  BY DEF Publish
<1>2. Grown
  BY <1>0, <1>1, SameLog DEF logVars
<1>3. LogType'
  BY <1>0, <1>1, LogKept DEF logVars, LogType
<1>4. slot' \in [Key -> 0 .. Len(log)] /\ unpub' \in [Key -> 0 .. Len(log)]
  BY <1>0, <1>1 DEF TreeType, TxnType, None, LogType
<1>5. TreeType'
  <2>1. dirty' \in BOOLEAN
    BY <1>1
  <2>2. slot' \in [Key -> 0 .. Len(log')] /\ root' \in 0 .. Len(log') /\ (root' # None => Is(root, "BIN")')
    BY <1>0, <1>1, <1>4 DEF TreeType, logVars, Is
  <2>. QED
    BY <2>1, <2>2 DEF TreeType
<1>6. TxnType'
  BY <1>0, <1>1, <1>4 DEF TxnType, logVars
<1>11. SelType'
  BY <1>0, <1>1, <1>2, SelKept
<1>12. QueueType' /\ LookType' /\ PcType' /\ PassType' /\ CkptType'
  <2>1. pc' = pc /\ UNCHANGED lookVars /\ UNCHANGED passVars /\ UNCHANGED ckptVars
    BY <1>1
  <2>. QED
    BY <1>0, <1>2, <2>1, QuietAgents
<1>. QED
  BY <1>3, <1>5, <1>6, <1>11, <1>12, PartsNext

LEMMA CommitTypes ==
    ASSUME TypeInv, NEW t \in Txn, NEW sync \in BOOLEAN, Commit(t, sync)
    PROVE  TypeInv'
<1>0. /\ LogType /\ TreeType /\ TxnType /\ SelType
      /\ QueueType /\ LookType /\ PcType /\ PassType /\ CkptType
  BY Parts
<1> DEFINE e == [type |-> "Commit", txn |-> t]
<1>1. Append1(e) /\ UNCHANGED <<gone, treeVars, selVars, pc, lookVars, passVars, ckptVars>>
  BY DEF Commit
<1>3. e \in Entry
  BY DEF Entry, TxnEnd
<1>4. Grown /\ Len(log') = Len(log) + 1 /\ log'[Len(log) + 1] = e
  BY <1>0, <1>1, <1>3, Appends
<1>5. PICK m : m = Len(log) + 1
  OBVIOUS
<1>6. log'[m].type = "Commit"
  BY <1>4, <1>5
<1>7. GoodEntry(m)'
  BY <1>6 DEF GoodEntry
<1>8. durable' \in 1 .. Len(log') /\ gone' \subseteq File
  <2>1. durable' = Len(log') \/ durable' = durable
    BY DEF Commit
  <2>. QED
    BY <1>0, <1>1, <1>4, <2>1 DEF LogType, Grown
<1>. HIDE DEF e
<1>9. LogType'
  BY <1>0, <1>1, <1>3, <1>5, <1>7, <1>8, LogAppended
<1>10. TxnType'
  <2>1. Released(t)
    BY DEF Commit
  <2>2. before \in [Key -> 0 .. Len(log')] /\ unpub \in [Key -> 0 .. Len(log')] /\ 0 \in 0 .. Len(log')
    BY <1>0, <1>4, GrownIs DEF TxnType, Grown
  <2>. QED
    BY <1>0, <2>1, <2>2 DEF TxnType, Released, None
<1>11. TreeType' /\ SelType'
  BY <1>0, <1>1, <1>4, TreeKept, SelKept
<1>12. QueueType' /\ LookType' /\ PcType' /\ PassType' /\ CkptType'
  <2>1. pc' = pc /\ UNCHANGED lookVars /\ UNCHANGED passVars /\ UNCHANGED ckptVars
    BY <1>1
  <2>. QED
    BY <1>0, <1>4, <2>1, QuietAgents
<1>. QED
  BY <1>9, <1>10, <1>11, <1>12, PartsNext

LEMMA AbortTypes ==
    ASSUME TypeInv, NEW t \in Txn, Abort(t)
    PROVE  TypeInv'
<1>0. /\ LogType /\ TreeType /\ TxnType /\ SelType
      /\ QueueType /\ LookType /\ PcType /\ PassType /\ CkptType
  BY Parts
<1> DEFINE e == [type |-> "Abort", txn |-> t]
<1>1. /\ Append1(e) /\ UNCHANGED <<durable, gone, root, selVars, pc, lookVars, passVars, ckptVars>>
      /\ slot' = [k \in Key |-> IF writer[k] = t THEN before[k] ELSE slot[k]] /\ (dirty' = TRUE)
  BY DEF Abort
<1>3. e \in Entry
  BY DEF Entry, TxnEnd
<1>4. Grown /\ Len(log') = Len(log) + 1 /\ log'[Len(log) + 1] = e
  BY <1>0, <1>1, <1>3, Appends
<1>5. PICK m : m = Len(log) + 1
  OBVIOUS
<1>6. log'[m].type = "Abort"
  BY <1>4, <1>5
<1>7. GoodEntry(m)'
  BY <1>6 DEF GoodEntry
<1>8. durable' \in 1 .. Len(log') /\ gone' \subseteq File
  BY <1>0, <1>1, <1>4 DEF LogType, Grown
<1>. HIDE DEF e
<1>9. LogType'
  BY <1>0, <1>1, <1>3, <1>5, <1>7, <1>8, LogAppended
<1>2. before \in [Key -> 0 .. Len(log')] /\ unpub \in [Key -> 0 .. Len(log')] /\ 0 \in 0 .. Len(log')
      /\ slot \in [Key -> 0 .. Len(log')]
  BY <1>0, <1>4, GrownIs DEF TxnType, Grown, TreeType
<1>10. TxnType'
  <2>1. Released(t)
    BY DEF Abort
  <2>. QED
    BY <1>0, <1>2, <2>1 DEF TxnType, Released, None
<1>13. TreeType'
  <2>1. dirty' \in BOOLEAN
    BY <1>1
  <2>2. slot' \in [Key -> 0 .. Len(log')]
    BY <1>1, <1>2
  <2>3. root' \in 0 .. Len(log') /\ (root' # None => Is(root, "BIN")')
    BY <1>0, <1>1, <1>4, GrownIs DEF TreeType
  <2>. QED
    BY <2>1, <2>2, <2>3 DEF TreeType
<1>11. SelType'
  BY <1>0, <1>1, <1>4, SelKept
<1>12. QueueType' /\ LookType' /\ PcType' /\ PassType' /\ CkptType'
  <2>1. pc' = pc /\ UNCHANGED lookVars /\ UNCHANGED passVars /\ UNCHANGED ckptVars
    BY <1>1
  <2>. QED
    BY <1>0, <1>4, <2>1, QuietAgents
<1>. QED
  BY <1>9, <1>10, <1>11, <1>12, <1>13, PartsNext

\* The lookup of an LN, by either agent.
LEMMA LookedTypes ==
    ASSUME LogType, TreeType, QueueType, LookType, PcType, NEW a \in Agent, NEW l \in todo[a],
           Looked(a, l), \A b \in Agent : b # a => pc'[b] = pc[b],
           pc'[a] \in {"retry", "found"}, UNCHANGED log
    PROVE  QueueType' /\ LookType' /\ Is(l, "LN")
<1>1. l \in 1 .. Len(log) /\ IsLN(l) /\ log[l].key \in Key
  BY EntryIs DEF QueueType, IsLN
<1>2. slot[KeyOf(l)] \in 0 .. Len(log)
  BY <1>1 DEF TreeType, KeyOf
<1>3. l \in 0 .. Len(log) /\ Len(log) \in Nat
  BY <1>1 DEF LogType
<1>4. at' \in [Agent -> 0 .. Len(log)] /\ tree' \in [Agent -> 0 .. Len(log)] /\ at'[a] = l
      /\ \A b \in Agent : b # a => at'[b] = at[b]
  BY <1>2, <1>3 DEF Looked, LookType
<1>5. todo' \in [Agent -> SUBSET (1 .. Len(log))] /\ \A b \in Agent : todo'[b] \subseteq todo[b]
  BY DEF Looked, QueueType
<1>7. QueueType'
  <2>1. \A b \in Agent : \A i \in todo'[b] : IsLN(i)'
    BY <1>5 DEF QueueType, IsLN
  <2>. QED
    BY <1>5, <2>1 DEF QueueType
<1>8. LookType'
  <2>1. \A b \in Agent : pc'[b] \in {"retry", "found"} => Is(at[b], "LN")'
    <3>. SUFFICES ASSUME NEW b \in Agent, pc'[b] \in {"retry", "found"} PROVE Is(at[b], "LN")'
      OBVIOUS
    <3>1. CASE b = a
      BY <1>1, <1>4, <3>1 DEF Is, IsLN
    <3>2. CASE b # a
      BY <1>4, <3>2 DEF LookType, Is
    <3>. QED
      BY <3>1, <3>2
  <2>. QED
    BY <1>4, <2>1 DEF LookType
<1>. QED
  BY <1>1, <1>7, <1>8 DEF Is, IsLN

\* Migrating an LN.
LEMMA MigratedTypes ==
    ASSUME LogType, TreeType, NEW l, Is(l, "LN"), NEW outcome, Migrated(l, outcome),
           UNCHANGED <<durable, gone>>
    PROVE  LogType' /\ TreeType' /\ Grown
<1>1. CASE UNCHANGED <<log, treeVars>>
  <2>1. log' = log /\ UNCHANGED treeVars
    BY <1>1
  <2>2. Grown
    BY <2>1, SameLog
  <2>3. durable' \in 1 .. Len(log) /\ gone' \subseteq File
    BY DEF LogType
  <2>. QED
    BY <2>1, <2>2, <2>3, LogKept, TreeKept
<1>2. CASE Migrate(l)
  <2>1. l \in 1 .. Len(log) /\ log[l].key \in Key /\ log[l].val \in Lsn
    BY EntryIs DEF Is
  <2> DEFINE n == Len(log) + 1
             e == [type |-> "LN", key |-> KeyOf(l), txn |-> None, abort |-> l, val |-> log[l].val]
  <2>2. Append1(e) /\ slot' = [slot EXCEPT ![KeyOf(l)] = n] /\ (dirty' = TRUE) /\ root' = root
    BY <1>2 DEF Migrate, End
  <2>3. n \in Lsn /\ Len(log) \in Nat
    BY <2>2, CleanerAssumption DEF Append1, Full, LogType, Lsn
  <2>4. e \in Entry
    <3>1. e \in LN
      BY <2>1, <2>3, CleanerAssumption DEF LN, Lsn, None, KeyOf
    <3>. QED
      BY <3>1 DEF Entry
  <2>5. Grown /\ Len(log') = n /\ log'[n] = e
    BY <2>2, <2>4, Appends
  <2>6. PICK m : m = n
    OBVIOUS
  <2>7. log'[m].type = "LN" /\ log'[m].abort < m
    BY <2>1, <2>3, <2>5, <2>6
  <2>8. GoodEntry(m)'
    BY <2>7 DEF GoodEntry
  <2>9. durable' \in 1 .. Len(log') /\ gone' \subseteq File
    BY <2>5 DEF LogType, Grown
  <2>. HIDE DEF e
  <2>10. LogType'
    BY <2>2, <2>4, <2>6, <2>8, <2>9, LogAppended
  <2>11. slot \in [Key -> 0 .. Len(log')] /\ n \in 0 .. Len(log')
    BY <2>3, <2>5, GrownIs DEF TreeType
  <2>12. slot' \in [Key -> 0 .. Len(log')]
    BY <2>2, <2>11
  <2>13. dirty' \in BOOLEAN
    BY <2>2
  <2>14. root' \in 0 .. Len(log') /\ (root' # None => Is(root, "BIN")')
    BY <2>2, <2>5, GrownIs DEF TreeType
  <2>15. TreeType'
    BY <2>12, <2>13, <2>14 DEF TreeType
  <2>. QED
    BY <2>5, <2>10, <2>15
<1>. QED
  BY <1>1, <1>2 DEF Migrated

LEMMA LookupDoneTypes ==
    ASSUME LookType, Grown, NEW a \in Agent, LookupDone(a),
           \A b \in Agent : b # a => pc'[b] = pc[b], pc'[a] \notin {"retry", "found"}
    PROVE  LookType'
<1>1. at \in [Agent -> 0 .. Len(log')] /\ tree \in [Agent -> 0 .. Len(log')] /\ 0 \in 0 .. Len(log')
  BY GrownIs DEF LookType, Grown
<1>2. at' \in [Agent -> 0 .. Len(log')] /\ tree' \in [Agent -> 0 .. Len(log')]
      /\ \A b \in Agent : b # a => at'[b] = at[b]
  BY <1>1 DEF LookupDone, None
<1>3. \A b \in Agent : pc'[b] \in {"retry", "found"} => Is(at[b], "LN")'
  <2>. SUFFICES ASSUME NEW b \in Agent, pc'[b] \in {"retry", "found"} PROVE Is(at[b], "LN")'
    OBVIOUS
  <2>1. b # a /\ Is(at[b], "LN") /\ at'[b] = at[b]
    BY <1>2 DEF LookType
  <2>2. PICK x : x = at[b]
    OBVIOUS
  <2>3. Is(x, "LN")'
    BY <2>1, <2>2, GrownIs
  <2>. QED
    BY <2>1, <2>2, <2>3 DEF Is
<1>. QED
  BY <1>2, <1>3 DEF LookType

LEMMA PendingLookupTypes ==
    ASSUME TypeInv, NEW a \in Agent, NEW l, PendingLookup(a, l)
    PROVE  TypeInv'
<1>0. /\ LogType /\ TreeType /\ TxnType /\ SelType
      /\ QueueType /\ LookType /\ PcType /\ PassType /\ CkptType
  BY Parts
<1>1. /\ pc[a] = "pending" /\ l \in todo[a] /\ Looked(a, l) /\ pc' = [pc EXCEPT ![a] = "retry"]
      /\ UNCHANGED logVars /\ UNCHANGED treeVars /\ UNCHANGED txnVars /\ UNCHANGED selVars
      /\ UNCHANGED passVars /\ UNCHANGED ckptVars
  BY DEF PendingLookup
<1>2. Grown /\ LogType' /\ log' = log
  BY <1>0, <1>1, SameLog, LogKept DEF logVars, LogType
<1>3. TreeType' /\ TxnType' /\ SelType' /\ PassType'
  BY <1>0, <1>1, <1>2, TreeKept, TxnKept, SelKept, PassKept
<1>4. PcType' /\ pc'[a] = "retry" /\ \A b \in Agent : b # a => pc'[b] = pc[b]
  BY <1>0, <1>1, PcStep DEF CleanerPcs, CkptPcs
<1>5. QueueType' /\ LookType'
  BY <1>0, <1>1, <1>2, <1>4, LookedTypes
<1>6. CkptType'
  <2>1. pc'["checkpointer"] \in {"flush", "end", "after"} => pc["checkpointer"] = pc'["checkpointer"]
    BY <1>4 DEF Agent
  <2>. QED
    BY <1>0, <1>1, <1>2, <2>1 DEF CkptType, ckptVars, Is
<1>. QED
  BY <1>2, <1>3, <1>4, <1>5, <1>6, PartsNext

LEMMA RemoveTypes ==
    ASSUME SelType, Grown, NEW l, RemovePendingLn(l)
    PROVE  SelType'
<1>1. pending' \subseteq pending /\ pending \subseteq 1 .. Len(log) /\ \A i \in pending : IsLN(i)
  BY DEF RemovePendingLn, SelType
<1>2. pending' \subseteq 1 .. Len(log') /\ \A i \in pending' : IsLN(i)'
  BY <1>1, GrownIs
<1>3. Len(log') \in 0 .. MaxLog
  BY CleanerAssumption DEF Grown
<1>4. settled' \in [File -> 0 .. MaxLog]
  BY <1>3 DEF RemovePendingLn, SelType
<1>5. being' = being /\ cleaned' = cleaned /\ anyPending' = anyPending
  BY DEF RemovePendingLn
<1>6. checkpointed' \subseteq checkpointed /\ safe' \subseteq safe \cup checkpointed
  BY DEF RemovePendingLn, ProcessedFiles
<1>7. being' \subseteq File /\ cleaned' \subseteq File /\ checkpointed' \subseteq File /\ safe' \subseteq File
  BY <1>5, <1>6 DEF SelType
<1>8. anyPending' \in BOOLEAN
  BY <1>5 DEF SelType
<1>. QED
  BY <1>2, <1>4, <1>7, <1>8 DEF SelType

LEMMA PendingRetryTypes ==
    ASSUME TypeInv, NEW a \in Agent, PendingRetry(a)
    PROVE  TypeInv'
<1>0. /\ LogType /\ TreeType /\ TxnType /\ SelType
      /\ QueueType /\ LookType /\ PcType /\ PassType /\ CkptType
  BY Parts
<1>1. PICK l, o : /\ l = at[a] /\ o = Outcome(l, tree[a]) /\ Migrated(l, o)
                  /\ UNCHANGED selVars \/ RemovePendingLn(l)
  BY DEF PendingRetry
<1>2. /\ pc[a] = "retry" /\ LookupDone(a) /\ pc' = [pc EXCEPT ![a] = "pending"]
      /\ UNCHANGED <<durable, gone>> /\ UNCHANGED txnVars /\ todo' = todo
      /\ UNCHANGED passVars /\ UNCHANGED ckptVars
  BY DEF PendingRetry
<1>3. Is(l, "LN")
  BY <1>0, <1>1, <1>2 DEF LookType
<1>4. LogType' /\ TreeType' /\ Grown
  BY <1>0, <1>1, <1>2, <1>3, MigratedTypes
<1>5. PcType' /\ pc'[a] = "pending" /\ \A b \in Agent : b # a => pc'[b] = pc[b]
  BY <1>0, <1>2, PcStep DEF CleanerPcs, CkptPcs
<1>6. TxnType' /\ QueueType' /\ PassType'
  BY <1>0, <1>2, <1>4, TxnKept, QueueKept, PassKept
<1>7. LookType'
  <2>1. pc'[a] \notin {"retry", "found"}
    BY <1>5
  <2>. QED
    BY <1>0, <1>2, <1>4, <1>5, <2>1, LookupDoneTypes
<1>8. SelType'
  BY <1>0, <1>1, <1>4, SelKept, RemoveTypes
<1>9. CkptType'
  <2>1. pc'["checkpointer"] \in {"flush", "end", "after"} => pc["checkpointer"] = pc'["checkpointer"]
    BY <1>5 DEF Agent
  <2>. QED
    BY <1>0, <1>2, <1>4, <2>1, GrownIs DEF CkptType, ckptVars
<1>. QED
  BY <1>4, <1>5, <1>6, <1>7, <1>8, <1>9, PartsNext

\* The cleaner's steps.
LEMMA CleanerStepTypes ==
    ASSUME TypeInv, NEW p \in CleanerPcs \ {"retry", "found"},
           pc' = [pc EXCEPT !["cleaner"] = p] \/ pc' = pc,
           UNCHANGED <<log, durable>>, gone' \subseteq File,
           UNCHANGED txnVars, UNCHANGED <<at, tree>>, UNCHANGED ckptVars
    PROVE  Grown /\ LogType' /\ TxnType' /\ LookType' /\ PcType' /\ CkptType'
<1>0. LogType /\ TxnType /\ LookType /\ PcType /\ CkptType
  BY Parts
<1>1. LogType' /\ Grown
  BY <1>0, LogKept, SameLog DEF LogType
<1>2. PcType' /\ pc'["checkpointer"] = pc["checkpointer"]
      /\ \A b \in Agent : pc'[b] \in {"retry", "found"} => pc[b] \in {"retry", "found"}
  <2>1. CASE pc' = [pc EXCEPT !["cleaner"] = p]
    <3>1. PcType' /\ pc'["cleaner"] = p /\ \A b \in Agent : b # "cleaner" => pc'[b] = pc[b]
      BY <1>0, <2>1, AgentsAre, PcStep
    <3>. QED
      BY <3>1, AgentsAre
  <2>2. CASE pc' = pc
    BY <1>0, <2>2 DEF PcType
  <2>. QED
    BY <2>1, <2>2
<1>3. TxnType' /\ LookType' /\ CkptType'
  BY <1>0, <1>1, <1>2, TxnKept, LookKept, CkptKept
<1>. QED
  BY <1>1, <1>2, <1>3

LEMMA FirstActiveFileIs == ASSUME LogType PROVE FirstActiveFile \in File
<1> DEFINE open == {l \in 1 .. Len(log) : IsLN(l) /\ log[l].txn # None /\ txn[log[l].txn] = "active"}
<1>1. open \subseteq 1 .. Len(log) /\ Len(log) \in Nat /\ Len(log) <= MaxLog
  BY DEF LogType
<1>2. FirstActiveFile = IF open = {} THEN MaxLog ELSE FileOf(Min(open))
  BY DEF FirstActiveFile
<1>. HIDE DEF open
<1>3. CASE open = {}
  BY <1>2, <1>3, CleanerAssumption DEF File
<1>4. CASE open # {}
  <2>0. open \subseteq Nat
    BY <1>1
  <2>1. Min(open) \in open
    BY <1>4, <2>0, MinIs
  <2>2. Min(open) \in 1 .. Len(log)
    BY <1>1, <2>1
  <2>3. FileOf(Min(open)) \in File
    BY <1>1, <2>2, LsnFile
  <2>. QED
    BY <1>2, <1>4, <2>3
<1>. QED
  BY <1>3, <1>4

LEMMA CleanStartTypes ==
    ASSUME TypeInv, CleanStart
    PROVE  TypeInv'
<1>0. /\ LogType /\ TreeType /\ TxnType /\ SelType
      /\ QueueType /\ LookType /\ PcType /\ PassType /\ CkptType
  BY Parts
<1>1. /\ pc' = [pc EXCEPT !["cleaner"] = "pending"] /\ todo' = [todo EXCEPT !["cleaner"] = pending]
      /\ UNCHANGED logVars /\ UNCHANGED treeVars /\ UNCHANGED txnVars /\ UNCHANGED selVars
      /\ UNCHANGED <<at, tree>> /\ UNCHANGED ckptVars
      /\ clamp' = Min({Newest, FirstActiveFile}) /\ locked' = locked
  BY DEF CleanStart
<1>2. UNCHANGED <<log, durable>> /\ gone' \subseteq File
  BY <1>0, <1>1 DEF logVars, LogType
<1>3. "pending" \in CleanerPcs \ {"retry", "found"}
  BY DEF CleanerPcs
<1>4. Grown /\ LogType' /\ TxnType' /\ LookType' /\ PcType' /\ CkptType'
  BY <1>1, <1>2, <1>3, CleanerStepTypes
<1>5. TreeType' /\ SelType'
  BY <1>0, <1>1, <1>4, TreeKept, SelKept
<1>6. QueueType'
  <2>1. todo' \in [Agent -> SUBSET (1 .. Len(log))]
    BY <1>0, <1>1 DEF QueueType, SelType
  <2>2. \A a \in Agent : \A l \in todo'[a] : IsLN(l)
    BY <1>0, <1>1, AgentsAre DEF QueueType, SelType
  <2>. QED
    BY <1>2, <2>1, <2>2 DEF QueueType, IsLN
<1>7. PassType'
  <2>1. Len(log) \in 1 .. Len(log) /\ Len(log) \in Nat /\ Len(log) <= MaxLog
    BY <1>0 DEF LogType
  <2>2. Newest \in File /\ FirstActiveFile \in File
    BY <1>0, <2>1, FirstActiveFileIs, LsnFile DEF Newest
  <2>3. Min({Newest, FirstActiveFile}) \in {Newest, FirstActiveFile}
    <3>1. {Newest, FirstActiveFile} \subseteq Nat /\ {Newest, FirstActiveFile} # {}
      BY <2>2, CleanerAssumption DEF File
    <3>. QED
      BY <3>1, MinIs
  <2>4. clamp' \in File
    <3>1. clamp' = Newest \/ clamp' = FirstActiveFile
      BY <1>1, <2>3
    <3>. QED
      BY <2>2, <3>1
  <2>. QED
    BY <1>0, <1>1, <1>2, <2>4 DEF PassType, IsLN
<1>. QED
  BY <1>4, <1>5, <1>6, <1>7, PartsNext

LEMMA CleanSelectTypes ==
    ASSUME TypeInv, NEW f \in File, CleanSelect(f)
    PROVE  TypeInv'
<1>0. /\ LogType /\ TreeType /\ TxnType /\ SelType
      /\ QueueType /\ LookType /\ PcType /\ PassType /\ CkptType
  BY Parts
<1>1. /\ pc' = [pc EXCEPT !["cleaner"] = "scan"] /\ being' = {f} /\ clamp' = None
      /\ UNCHANGED logVars /\ UNCHANGED treeVars /\ UNCHANGED txnVars
      /\ UNCHANGED <<cleaned, checkpointed, safe, pending, anyPending, settled>>
      /\ UNCHANGED <<at, tree>> /\ todo' = todo /\ UNCHANGED ckptVars /\ locked' = locked
  BY DEF CleanSelect, lookVars
<1>2. UNCHANGED <<log, durable>> /\ gone' \subseteq File
  BY <1>0, <1>1 DEF logVars, LogType
<1>3. "scan" \in CleanerPcs \ {"retry", "found"}
  BY DEF CleanerPcs
<1>4. Grown /\ LogType' /\ TxnType' /\ LookType' /\ PcType' /\ CkptType'
  BY <1>1, <1>2, <1>3, CleanerStepTypes
<1>5. TreeType' /\ QueueType'
  BY <1>0, <1>1, <1>4, TreeKept, QueueKept
<1>6. SelType'
  <2>1. anyPending' \in BOOLEAN
    BY <1>0, <1>1 DEF SelType
  <2>. QED
    BY <1>0, <1>1, <1>2, <2>1 DEF SelType, IsLN
<1>7. PassType'
  BY <1>0, <1>1, <1>2, CleanerAssumption DEF PassType, IsLN, None, File
<1>. QED
  BY <1>4, <1>5, <1>6, <1>7, PartsNext

LEMMA CleanNothingTypes ==
    ASSUME TypeInv, CleanNothing
    PROVE  TypeInv'
<1>0. /\ LogType /\ TreeType /\ TxnType /\ SelType
      /\ QueueType /\ LookType /\ PcType /\ PassType /\ CkptType
  BY Parts
<1>1. /\ pc' = [pc EXCEPT !["cleaner"] = "delete"] /\ clamp' = None
      /\ UNCHANGED logVars /\ UNCHANGED treeVars /\ UNCHANGED txnVars /\ UNCHANGED selVars
      /\ UNCHANGED <<at, tree>> /\ todo' = todo /\ UNCHANGED ckptVars /\ locked' = locked
  BY DEF CleanNothing, lookVars
<1>2. UNCHANGED <<log, durable>> /\ gone' \subseteq File
  BY <1>0, <1>1 DEF logVars, LogType
<1>3. "delete" \in CleanerPcs \ {"retry", "found"}
  BY DEF CleanerPcs
<1>4. Grown /\ LogType' /\ TxnType' /\ LookType' /\ PcType' /\ CkptType'
  BY <1>1, <1>2, <1>3, CleanerStepTypes
<1>5. TreeType' /\ SelType' /\ QueueType'
  BY <1>0, <1>1, <1>4, TreeKept, SelKept, QueueKept
<1>7. PassType'
  BY <1>0, <1>1, <1>2, CleanerAssumption DEF PassType, IsLN, None, File
<1>. QED
  BY <1>4, <1>5, <1>7, PartsNext

LEMMA CleanScanTypes ==
    ASSUME TypeInv, CleanScan
    PROVE  TypeInv'
<1>0. /\ LogType /\ TreeType /\ TxnType /\ SelType
      /\ QueueType /\ LookType /\ PcType /\ PassType /\ CkptType
  BY Parts
<1>1. PICK f : /\ dirty' = (dirty \/ KeepsImage(f))
               /\ todo' = [todo EXCEPT !["cleaner"] = {l \in EntriesOf(f) : IsLN(l)}]
  BY DEF CleanScan
<1>8. /\ pc' = [pc EXCEPT !["cleaner"] = "lns"]
      /\ UNCHANGED logVars /\ UNCHANGED <<slot, root>> /\ UNCHANGED txnVars /\ UNCHANGED selVars
      /\ UNCHANGED <<at, tree>> /\ UNCHANGED ckptVars /\ UNCHANGED passVars
  BY DEF CleanScan
<1>2. UNCHANGED <<log, durable>> /\ gone' \subseteq File
  BY <1>0, <1>8 DEF logVars, LogType
<1>3. "lns" \in CleanerPcs \ {"retry", "found"}
  BY DEF CleanerPcs
<1>4. Grown /\ LogType' /\ TxnType' /\ LookType' /\ PcType' /\ CkptType'
  BY <1>2, <1>3, <1>8, CleanerStepTypes
<1>5. SelType' /\ PassType'
  BY <1>0, <1>4, <1>8, SelKept, PassKept
<1>6. TreeType'
  <2>1. dirty' \in BOOLEAN
    BY <1>1
  <2>. QED
    BY <1>0, <1>2, <1>8, <2>1 DEF TreeType, Is
<1>7. QueueType'
  <2>1. {l \in EntriesOf(f) : IsLN(l)} \in SUBSET (1 .. Len(log))
    BY DEF EntriesOf
  <2>2. todo' \in [Agent -> SUBSET (1 .. Len(log))]
    BY <1>0, <1>1, <2>1 DEF QueueType
  <2>3. \A a \in Agent : \A l \in todo'[a] : IsLN(l)
    BY <1>0, <1>1 DEF QueueType
  <2>. QED
    BY <1>2, <2>2, <2>3 DEF QueueType, IsLN
<1>. QED
  BY <1>4, <1>5, <1>6, <1>7, PartsNext

LEMMA CleanLookupTypes ==
    ASSUME TypeInv, CleanLookup
    PROVE  TypeInv'
<1>0. /\ LogType /\ TreeType /\ TxnType /\ SelType
      /\ QueueType /\ LookType /\ PcType /\ PassType /\ CkptType
  BY Parts
<1>1. PICK l : l = Min(todo["cleaner"]) /\ Looked("cleaner", l)
  BY DEF CleanLookup
<1>2. /\ pc' = [pc EXCEPT !["cleaner"] = "found"] /\ todo["cleaner"] # {}
      /\ UNCHANGED logVars /\ UNCHANGED treeVars /\ UNCHANGED txnVars /\ UNCHANGED selVars
      /\ UNCHANGED ckptVars /\ UNCHANGED passVars
  BY DEF CleanLookup
<1>3. l \in todo["cleaner"]
  <2>1. todo["cleaner"] \subseteq Nat
    BY <1>0, AgentsAre DEF QueueType
  <2>. QED
    BY <1>1, <1>2, <2>1, MinIs
<1>4. Grown /\ LogType' /\ log' = log
  BY <1>0, <1>2, SameLog, LogKept DEF logVars, LogType
<1>5. TreeType' /\ TxnType' /\ SelType' /\ PassType'
  BY <1>0, <1>2, <1>4, TreeKept, TxnKept, SelKept, PassKept
<1>6. PcType' /\ pc'["cleaner"] = "found" /\ \A b \in Agent : b # "cleaner" => pc'[b] = pc[b]
  BY <1>0, <1>2, PcStep, AgentsAre DEF CleanerPcs
<1>7. QueueType' /\ LookType'
  BY <1>0, <1>1, <1>3, <1>4, <1>6, AgentsAre, LookedTypes
<1>8. CkptType'
  BY <1>0, <1>2, <1>4, <1>6, AgentsAre, CkptKept
<1>. QED
  BY <1>4, <1>5, <1>6, <1>7, <1>8, PartsNext

LEMMA CleanLnTypes ==
    ASSUME TypeInv, CleanLn
    PROVE  TypeInv'
<1>0. /\ LogType /\ TreeType /\ TxnType /\ SelType
      /\ QueueType /\ LookType /\ PcType /\ PassType /\ CkptType
  BY Parts
<1>1. PICK l, o : /\ l = at["cleaner"] /\ o = Outcome(l, tree["cleaner"]) /\ Migrated(l, o)
                  /\ locked' = IF o = "Locked" THEN locked \cup {l} ELSE locked
  BY DEF CleanLn
<1>2. /\ pc["cleaner"] = "found" /\ LookupDone("cleaner") /\ pc' = [pc EXCEPT !["cleaner"] = "lns"]
      /\ UNCHANGED <<durable, gone>> /\ UNCHANGED txnVars /\ UNCHANGED selVars /\ todo' = todo
      /\ clamp' = clamp /\ UNCHANGED ckptVars
  BY DEF CleanLn
<1>3. Is(l, "LN")
  BY <1>0, <1>1, <1>2, AgentsAre DEF LookType
<1>4. LogType' /\ TreeType' /\ Grown
  BY <1>0, <1>1, <1>2, <1>3, MigratedTypes
<1>5. PcType' /\ pc'["cleaner"] = "lns" /\ \A b \in Agent : b # "cleaner" => pc'[b] = pc[b]
  BY <1>0, <1>2, PcStep, AgentsAre DEF CleanerPcs
<1>6. TxnType' /\ QueueType' /\ SelType'
  BY <1>0, <1>2, <1>4, TxnKept, QueueKept, SelKept
<1>7. LookType'
  <2>1. pc'["cleaner"] \notin {"retry", "found"}
    BY <1>5
  <2>. QED
    BY <1>0, <1>2, <1>4, <1>5, <2>1, AgentsAre, LookupDoneTypes
<1>8. PassType'
  <2>1. locked' \subseteq locked \cup {l}
    BY <1>1
  <2>2. \A i \in locked \cup {l} : Is(i, "LN")
    BY <1>0, <1>3 DEF PassType, Is, IsLN
  <2>3. \A i \in locked' : Is(i, "LN")'
    BY <1>4, <2>1, <2>2, GrownIs
  <2>. QED
    BY <1>0, <1>2, <2>3 DEF PassType, Is, IsLN
<1>9. CkptType'
  BY <1>0, <1>2, <1>4, <1>5, AgentsAre, CkptKept
<1>. QED
  BY <1>4, <1>5, <1>6, <1>7, <1>8, <1>9, PartsNext

LEMMA CleanEndTypes ==
    ASSUME TypeInv, CleanEnd
    PROVE  TypeInv'
<1>0. /\ LogType /\ TreeType /\ TxnType /\ SelType
      /\ QueueType /\ LookType /\ PcType /\ PassType /\ CkptType
  BY Parts
<1>1. /\ pc' = [pc EXCEPT !["cleaner"] = "delete"] /\ pending' = pending \cup locked
      /\ cleaned' = cleaned \cup being /\ being' = {} /\ locked' = {} /\ clamp' = clamp
      /\ UNCHANGED logVars /\ UNCHANGED treeVars /\ UNCHANGED txnVars
      /\ UNCHANGED <<checkpointed, safe, settled>>
      /\ UNCHANGED <<at, tree>> /\ todo' = todo /\ UNCHANGED ckptVars
  BY DEF CleanEnd, lookVars
<1>2. UNCHANGED <<log, durable>> /\ gone' \subseteq File
  BY <1>0, <1>1 DEF logVars, LogType
<1>3. "delete" \in CleanerPcs \ {"retry", "found"}
  BY DEF CleanerPcs
<1>4. Grown /\ LogType' /\ TxnType' /\ LookType' /\ PcType' /\ CkptType'
  BY <1>1, <1>2, <1>3, CleanerStepTypes
<1>5. TreeType' /\ QueueType'
  BY <1>0, <1>1, <1>4, TreeKept, QueueKept
<1>6. SelType'
  <2>1. anyPending' \in BOOLEAN
    BY DEF CleanEnd
  <2>2. pending' \subseteq 1 .. Len(log) /\ \A l \in pending' : IsLN(l)
    BY <1>0, <1>1 DEF SelType, PassType
  <2>. QED
    BY <1>0, <1>1, <1>2, <2>1, <2>2 DEF SelType, IsLN
<1>7. PassType'
  BY <1>0, <1>1, <1>2 DEF PassType
<1>. QED
  BY <1>4, <1>5, <1>6, <1>7, PartsNext

LEMMA DeleteSafeTypes ==
    ASSUME TypeInv, DeleteSafe
    PROVE  TypeInv'
<1>0. /\ LogType /\ TreeType /\ TxnType /\ SelType
      /\ QueueType /\ LookType /\ PcType /\ PassType /\ CkptType
  BY Parts
<1>1. /\ safe' = safe \ {Min(safe)} /\ gone' = gone \cup ({Min(safe)} \cap 0 .. Newest - 1)
      /\ safe # {}
      /\ UNCHANGED <<log, durable>> /\ UNCHANGED treeVars /\ UNCHANGED txnVars
      /\ UNCHANGED <<being, cleaned, checkpointed, pending, anyPending, settled>>
      /\ pc' = pc /\ todo' = todo /\ UNCHANGED <<at, tree>> /\ UNCHANGED passVars /\ UNCHANGED ckptVars
  BY DEF DeleteSafe, lookVars
<1>2. gone' \subseteq File
  <2>1. safe \subseteq File /\ safe \subseteq Nat
    BY <1>0, CleanerAssumption DEF SelType, File
  <2>2. Min(safe) \in File
    BY <1>1, <2>1, MinIs
  <2>. QED
    BY <1>0, <1>1, <2>2 DEF LogType
<1>3. "idle" \in CleanerPcs \ {"retry", "found"}
  BY DEF CleanerPcs
<1>4. Grown /\ LogType' /\ TxnType' /\ LookType' /\ PcType' /\ CkptType'
  BY <1>1, <1>2, <1>3, CleanerStepTypes
<1>5. TreeType' /\ QueueType' /\ PassType'
  BY <1>0, <1>1, <1>4, TreeKept, QueueKept, PassKept
<1>6. SelType'
  <2>1. anyPending' \in BOOLEAN
    BY <1>0, <1>1 DEF SelType
  <2>. QED
    BY <1>0, <1>1, <2>1 DEF SelType, IsLN
<1>. QED
  BY <1>4, <1>5, <1>6, PartsNext

LEMMA CleanDoneTypes ==
    ASSUME TypeInv, CleanDone
    PROVE  TypeInv'
<1>0. /\ LogType /\ TreeType /\ TxnType /\ SelType
      /\ QueueType /\ LookType /\ PcType /\ PassType /\ CkptType
  BY Parts
<1>1. /\ pc' = [pc EXCEPT !["cleaner"] = "idle"]
      /\ UNCHANGED logVars /\ UNCHANGED treeVars /\ UNCHANGED txnVars /\ UNCHANGED selVars
      /\ UNCHANGED <<at, tree>> /\ todo' = todo /\ UNCHANGED ckptVars /\ UNCHANGED passVars
  BY DEF CleanDone, lookVars
<1>2. UNCHANGED <<log, durable>> /\ gone' \subseteq File
  BY <1>0, <1>1 DEF logVars, LogType
<1>3. "idle" \in CleanerPcs \ {"retry", "found"}
  BY DEF CleanerPcs
<1>4. Grown /\ LogType' /\ TxnType' /\ LookType' /\ PcType' /\ CkptType'
  BY <1>1, <1>2, <1>3, CleanerStepTypes
<1>5. TreeType' /\ SelType' /\ QueueType' /\ PassType'
  BY <1>0, <1>1, <1>4, TreeKept, SelKept, QueueKept, PassKept
<1>. QED
  BY <1>4, <1>5, PartsNext

\* The checkpoint's steps.
LEMMA CkptBeginTypes ==
    ASSUME TypeInv, CkptBegin
    PROVE  TypeInv'
<1>0. /\ LogType /\ TreeType /\ TxnType /\ SelType
      /\ QueueType /\ LookType /\ PcType /\ PassType /\ CkptType
  BY Parts
<1>1. /\ pc' = [pc EXCEPT !["checkpointer"] = "pending"]
      /\ todo' = [todo EXCEPT !["checkpointer"] = pending]
      /\ UNCHANGED logVars /\ UNCHANGED treeVars /\ UNCHANGED txnVars /\ UNCHANGED selVars
      /\ UNCHANGED <<at, tree>> /\ UNCHANGED passVars /\ UNCHANGED ckptVars
  BY DEF CkptBegin
<1>2. Grown /\ LogType' /\ log' = log
  BY <1>0, <1>1, SameLog, LogKept DEF logVars, LogType
<1>3. TreeType' /\ TxnType' /\ SelType' /\ PassType'
  BY <1>0, <1>1, <1>2, TreeKept, TxnKept, SelKept, PassKept
<1>4. /\ PcType' /\ pc'["checkpointer"] = "pending"
      /\ \A b \in Agent : b # "checkpointer" => pc'[b] = pc[b]
  BY <1>0, <1>1, PcStep, AgentsAre DEF CkptPcs
<1>5. LookType'
  <2>1. \A b \in Agent : pc'[b] \in {"retry", "found"} => pc[b] \in {"retry", "found"}
    BY <1>4
  <2>. QED
    BY <1>0, <1>1, <1>2, <2>1, LookKept
<1>6. QueueType'
  <2>1. todo' \in [Agent -> SUBSET (1 .. Len(log))]
    BY <1>0, <1>1 DEF QueueType, SelType
  <2>2. \A a \in Agent : \A l \in todo'[a] : IsLN(l)
    BY <1>0, <1>1, AgentsAre DEF QueueType, SelType
  <2>. QED
    BY <1>2, <2>1, <2>2 DEF QueueType, IsLN
<1>7. CkptType'
  BY <1>0, <1>1, <1>2, <1>4 DEF CkptType, ckptVars
<1>. QED
  BY <1>2, <1>3, <1>4, <1>5, <1>6, <1>7, PartsNext

\* Steps of a checkpoint that look at no LN.
LEMMA CkptStepTypes ==
    ASSUME TypeInv, Grown, NEW p \in CkptPcs \ {"retry"}, pc' = [pc EXCEPT !["checkpointer"] = p],
           UNCHANGED txnVars, UNCHANGED lookVars, UNCHANGED passVars
    PROVE  TxnType' /\ QueueType' /\ LookType' /\ PcType' /\ PassType' /\ pc'["checkpointer"] = p
<1>0. TxnType /\ QueueType /\ LookType /\ PcType /\ PassType
  BY Parts
<1>1. PcType' /\ pc'["checkpointer"] = p /\ \A b \in Agent : b # "checkpointer" => pc'[b] = pc[b]
  BY <1>0, PcStep, AgentsAre
<1>2. \A b \in Agent : pc'[b] \in {"retry", "found"} => pc[b] \in {"retry", "found"}
  BY <1>1 DEF CkptPcs
<1>3. todo' = todo /\ UNCHANGED <<at, tree>>
  BY DEF lookVars
<1>. QED
  BY <1>0, <1>1, <1>2, <1>3, TxnKept, QueueKept, LookKept, PassKept

LEMMA CkptSnapshotTypes ==
    ASSUME TypeInv, CkptSnapshot
    PROVE  TypeInv'
<1>0. LogType /\ TreeType /\ SelType /\ CkptType
  BY Parts
<1>1. /\ pc' = [pc EXCEPT !["checkpointer"] = "start"] /\ snap' = cleaned /\ start' = start
      /\ UNCHANGED logVars /\ UNCHANGED treeVars /\ UNCHANGED txnVars
      /\ UNCHANGED <<being, cleaned, checkpointed, safe, pending, settled>>
      /\ UNCHANGED lookVars /\ UNCHANGED passVars
  BY DEF CkptSnapshot
<1>2. Grown /\ LogType' /\ log' = log
  BY <1>0, <1>1, SameLog, LogKept DEF logVars, LogType
<1>3. "start" \in CkptPcs \ {"retry"}
  BY DEF CkptPcs
<1>4. TxnType' /\ QueueType' /\ LookType' /\ PcType' /\ PassType' /\ pc'["checkpointer"] = "start"
  BY <1>1, <1>2, <1>3, CkptStepTypes
<1>5. TreeType'
  BY <1>0, <1>1, <1>2, TreeKept
<1>6. SelType'
  <2>1. anyPending' \in BOOLEAN
    BY DEF CkptSnapshot
  <2>. QED
    BY <1>0, <1>1, <1>2, <2>1 DEF SelType, IsLN
<1>7. CkptType'
  BY <1>0, <1>1, <1>2, <1>4 DEF CkptType, SelType
<1>. QED
  BY <1>2, <1>4, <1>5, <1>6, <1>7, PartsNext

LEMMA CkptStartTypes ==
    ASSUME TypeInv, CkptStart
    PROVE  TypeInv'
<1>0. LogType /\ TreeType /\ SelType /\ CkptType
  BY Parts
<1> DEFINE e == [type |-> "CkptStart"]
           n == Len(log) + 1
<1>1. /\ Append1(e) /\ start' = n /\ pc' = [pc EXCEPT !["checkpointer"] = "flush"] /\ snap' = snap
      /\ UNCHANGED <<durable, gone>> /\ UNCHANGED treeVars /\ UNCHANGED txnVars
      /\ UNCHANGED selVars /\ UNCHANGED lookVars /\ UNCHANGED passVars
  BY DEF CkptStart, End
<1>2. e \in Entry
  BY DEF Entry, CkptStartEntry
<1>3. Grown /\ Len(log') = n /\ log'[n] = e
  BY <1>0, <1>1, <1>2, Appends
<1>4. PICK m : m = n
  OBVIOUS
<1>5. log'[m].type = "CkptStart"
  BY <1>3, <1>4
<1>6. GoodEntry(m)'
  BY <1>5 DEF GoodEntry
<1>7. durable' \in 1 .. Len(log') /\ gone' \subseteq File
  BY <1>0, <1>1, <1>3 DEF LogType, Grown
<1>8. start' = m /\ m \in 1 .. Len(log')
  BY <1>1, <1>3, <1>4 DEF Grown
<1>. HIDE DEF e
<1>9. LogType'
  BY <1>0, <1>1, <1>2, <1>4, <1>6, <1>7, LogAppended
<1>10. "flush" \in CkptPcs \ {"retry"}
  BY DEF CkptPcs
<1>11. TxnType' /\ QueueType' /\ LookType' /\ PcType' /\ PassType' /\ pc'["checkpointer"] = "flush"
  BY <1>1, <1>3, <1>10, CkptStepTypes
<1>12. TreeType' /\ SelType'
  BY <1>0, <1>1, <1>3, TreeKept, SelKept
<1>13. CkptType'
  BY <1>0, <1>1, <1>5, <1>8 DEF CkptType, Is
<1>. QED
  BY <1>9, <1>11, <1>12, <1>13, PartsNext

LEMMA CkptFlushTypes ==
    ASSUME TypeInv, CkptFlush
    PROVE  TypeInv'
<1>0. LogType /\ TreeType /\ SelType /\ CkptType
  BY Parts
<1>1. /\ pc["checkpointer"] = "flush" /\ pc' = [pc EXCEPT !["checkpointer"] = "end"]
      /\ UNCHANGED <<durable, gone>> /\ slot' = slot /\ UNCHANGED txnVars
      /\ UNCHANGED selVars /\ UNCHANGED lookVars /\ UNCHANGED passVars /\ UNCHANGED ckptVars
  BY DEF CkptFlush
<1>2. LogType' /\ TreeType' /\ Grown
  <2>1. CASE UNCHANGED <<log, root, dirty>>
    <3>1. UNCHANGED treeVars /\ log' = log
      BY <1>1, <2>1 DEF treeVars
    <3>2. durable' \in 1 .. Len(log) /\ gone' \subseteq File
      BY <1>0, <1>1 DEF LogType
    <3>3. Grown
      BY <1>0, <3>1, SameLog
    <3>. QED
      BY <1>0, <3>1, <3>2, <3>3, LogKept, TreeKept
  <2>2. CASE /\ Append1([type |-> "BIN", slots |-> slot]) /\ root' = End /\ (dirty' = FALSE)
    <3> DEFINE n == Len(log) + 1
               e == [type |-> "BIN", slots |-> slot]
    <3>1. e \in Entry
      <4>1. slot \in [Key -> Lsn \cup {None}]
        BY <1>0, CleanerAssumption DEF TreeType, LogType, Lsn, None
      <4>. QED
        BY <4>1 DEF Entry, BinImage
    <3>2. Grown /\ Len(log') = n /\ log'[n] = e
      BY <1>0, <2>2, <3>1, Appends
    <3>3. PICK m : m = n
      OBVIOUS
    <3>4. log'[m].type = "BIN" /\ log'[m].slots = slot
      BY <3>2, <3>3
    <3>5. \A k \in Key : slot[k] < m
      BY <1>0, <3>3 DEF TreeType, LogType
    <3>6. GoodEntry(m)'
      BY <3>4, <3>5 DEF GoodEntry
    <3>7. durable' \in 1 .. Len(log') /\ gone' \subseteq File
      BY <1>0, <1>1, <3>2 DEF LogType, Grown
    <3>. HIDE DEF e
    <3>8. LogType'
      BY <1>0, <2>2, <3>1, <3>3, <3>6, <3>7, LogAppended DEF e
    <3>9. root' = m /\ m \in 1 .. Len(log')
      BY <2>2, <3>2, <3>3 DEF Grown, End
    <3>10. slot' \in [Key -> 0 .. Len(log')]
      BY <1>0, <1>1, <3>2, GrownIs DEF TreeType
    <3>11. dirty' \in BOOLEAN
      BY <2>2
    <3>12. root' \in 0 .. Len(log') /\ Is(root, "BIN")'
      BY <3>4, <3>9 DEF Is
    <3>. QED
      BY <3>2, <3>8, <3>10, <3>11, <3>12 DEF TreeType
  <2>. QED
    BY <2>1, <2>2 DEF CkptFlush
<1>3. "end" \in CkptPcs \ {"retry"}
  BY DEF CkptPcs
<1>4. TxnType' /\ QueueType' /\ LookType' /\ PcType' /\ PassType' /\ pc'["checkpointer"] = "end"
  BY <1>1, <1>2, <1>3, CkptStepTypes
<1>5. SelType'
  BY <1>0, <1>1, <1>2, SelKept
<1>6. CkptType'
  BY <1>0, <1>1, <1>2, GrownIs DEF CkptType, ckptVars
<1>. QED
  BY <1>2, <1>4, <1>5, <1>6, PartsNext

LEMMA CkptEndTypes ==
    ASSUME TypeInv, CkptEnd
    PROVE  TypeInv'
<1>0. LogType /\ TreeType /\ SelType /\ CkptType
  BY Parts
<1> DEFINE e == [type |-> "CkptEnd", start |-> start, root |-> root]
           n == Len(log) + 1
<1>1. /\ Append1(e) /\ durable' = n /\ pc["checkpointer"] = "end"
      /\ pc' = [pc EXCEPT !["checkpointer"] = "after"]
      /\ gone' = gone /\ UNCHANGED treeVars /\ UNCHANGED txnVars
      /\ UNCHANGED selVars /\ UNCHANGED lookVars /\ UNCHANGED passVars /\ UNCHANGED ckptVars
  BY DEF CkptEnd, End
<1>2. Is(start, "CkptStart") /\ root \in 0 .. Len(log) /\ (root # None => Is(root, "BIN"))
      /\ Len(log) \in Nat /\ Len(log) <= MaxLog
  BY <1>0, <1>1 DEF CkptType, TreeType, LogType
<1>3. e \in Entry
  <2>1. start \in Lsn /\ root \in Lsn \cup {None}
    BY <1>2, CleanerAssumption DEF Is, Lsn, None
  <2>. QED
    BY <2>1 DEF Entry, CkptEndEntry
<1>4. Grown /\ Len(log') = n /\ log'[n] = e
  BY <1>0, <1>1, <1>3, Appends
<1>5. PICK m, s, r : m = n /\ s = start /\ r = root
  OBVIOUS
<1>6. log'[m].type = "CkptEnd" /\ log'[m].start = s /\ log'[m].root = r
  BY <1>4, <1>5
<1>7. s < m /\ (r # None => r < m /\ Is(r, "BIN"))
  BY <1>2, <1>5 DEF Is
<1>8. GoodEntry(m)'
  <2>1. r # None => Is(r, "BIN")'
    BY <1>4, <1>7, GrownIs
  <2>2. Is(log[m].root, "BIN")' <=> Is(r, "BIN")'
    BY <1>6 DEF Is
  <2>. QED
    BY <1>6, <1>7, <2>1, <2>2 DEF GoodEntry
<1>9. durable' \in 1 .. Len(log') /\ gone' \subseteq File
  BY <1>0, <1>1, <1>4 DEF LogType, Grown
<1>. HIDE DEF e
<1>10. LogType'
  BY <1>0, <1>1, <1>3, <1>5, <1>8, <1>9, LogAppended
<1>11. "after" \in CkptPcs \ {"retry"}
  BY DEF CkptPcs
<1>12. TxnType' /\ QueueType' /\ LookType' /\ PcType' /\ PassType' /\ pc'["checkpointer"] = "after"
  BY <1>1, <1>4, <1>11, CkptStepTypes
<1>13. TreeType' /\ SelType'
  BY <1>0, <1>1, <1>4, TreeKept, SelKept
<1>14. CkptType'
  BY <1>0, <1>1, <1>4, GrownIs DEF CkptType, ckptVars
<1>. QED
  BY <1>10, <1>12, <1>13, <1>14, PartsNext

LEMMA CkptAfterTypes ==
    ASSUME TypeInv, CkptAfter
    PROVE  TypeInv'
<1>0. LogType /\ TreeType /\ SelType /\ CkptType
  BY Parts
<1>1. /\ pc' = [pc EXCEPT !["checkpointer"] = "idle"] /\ snap' = {} /\ start' = None
      /\ UNCHANGED logVars /\ UNCHANGED treeVars /\ UNCHANGED txnVars
      /\ UNCHANGED <<being, pending, anyPending, settled>>
      /\ UNCHANGED lookVars /\ UNCHANGED passVars /\ cleaned' = cleaned \ snap
  BY DEF CkptAfter
<1>2. safe' \subseteq File /\ checkpointed' \subseteq File
  <2>1. /\ safe' \subseteq safe \cup checkpointed \cup cleaned
        /\ checkpointed' \subseteq checkpointed \cup cleaned
    BY DEF CkptAfter, ProcessedFiles
  <2>. QED
    BY <1>0, <2>1 DEF SelType
<1>3. Grown /\ LogType' /\ log' = log
  BY <1>0, <1>1, SameLog, LogKept DEF logVars, LogType
<1>4. "idle" \in CkptPcs \ {"retry"}
  BY DEF CkptPcs
<1>5. TxnType' /\ QueueType' /\ LookType' /\ PcType' /\ PassType' /\ pc'["checkpointer"] = "idle"
  BY <1>1, <1>3, <1>4, CkptStepTypes
<1>6. TreeType'
  BY <1>0, <1>1, <1>3, TreeKept
<1>7. SelType'
  <2>1. anyPending' \in BOOLEAN
    BY <1>0, <1>1 DEF SelType
  <2>. QED
    BY <1>0, <1>1, <1>2, <1>3, <2>1 DEF SelType, IsLN
<1>8. CkptType'
  BY <1>0, <1>1, <1>3, <1>5 DEF CkptType, LogType, None
<1>. QED
  BY <1>3, <1>5, <1>6, <1>7, <1>8, PartsNext

LEMMA CkptFailsTypes ==
    ASSUME TypeInv, CkptFails
    PROVE  TypeInv'
<1>0. LogType /\ TreeType /\ SelType /\ CkptType
  BY Parts
<1>1. /\ pc' = [pc EXCEPT !["checkpointer"] = "idle"] /\ snap' = {} /\ start' = None
      /\ UNCHANGED logVars /\ UNCHANGED treeVars /\ UNCHANGED txnVars
      /\ UNCHANGED selVars /\ UNCHANGED lookVars /\ UNCHANGED passVars
  BY DEF CkptFails
<1>3. Grown /\ LogType' /\ log' = log
  BY <1>0, <1>1, SameLog, LogKept DEF logVars, LogType
<1>4. "idle" \in CkptPcs \ {"retry"}
  BY DEF CkptPcs
<1>5. TxnType' /\ QueueType' /\ LookType' /\ PcType' /\ PassType' /\ pc'["checkpointer"] = "idle"
  BY <1>1, <1>3, <1>4, CkptStepTypes
<1>6. TreeType' /\ SelType'
  BY <1>0, <1>1, <1>3, TreeKept, SelKept
<1>8. CkptType'
  BY <1>0, <1>1, <1>3, <1>5 DEF CkptType, LogType, None
<1>. QED
  BY <1>3, <1>5, <1>6, <1>8, PartsNext

\* What is left of the log after a crash is a log.
LEMMA Truncated ==
    ASSUME LogType, NEW n \in durable .. Len(log), log' = SubSeq(log, 1, n)
    PROVE  /\ log' \in Seq(Entry) /\ Len(log') = n /\ n \in Nat /\ n <= Len(log) /\ n <= MaxLog /\ n >= 1
           /\ \A i \in 1 .. n : log'[i] = log[i]
           /\ \A i \in 1 .. n : \A ty : Is(i, ty) => Is(i, ty)'
           /\ \A i \in 1 .. n : GoodEntry(i)'
<1>1. Len(log) \in Nat /\ n \in 1 .. Len(log) /\ log \in Seq(Entry) /\ Len(log) <= MaxLog
  BY DEF LogType
<1>2. log' \in Seq(Entry) /\ Len(log') = n /\ \A i \in 1 .. n : log'[i] = log[i]
  BY <1>1
<1>3. \A i \in 1 .. n : \A ty : Is(i, ty) => Is(i, ty)'
  BY <1>1, <1>2 DEF Is
<1>4. ASSUME NEW i \in 1 .. n PROVE GoodEntry(i)'
  <2>1. GoodEntry(i) /\ i \in 1 .. Len(log) /\ log'[i] = log[i]
    BY <1>1, <1>2 DEF LogType
  <2>2. ASSUME log[i].type = "CkptEnd", log[i].root # None
        PROVE  log[i].root < i /\ Is(log[i].root, "BIN")'
    <3>1. PICK r : r = log[i].root
      OBVIOUS
    <3>2. r < i /\ Is(r, "BIN")
      BY <2>1, <2>2, <3>1 DEF GoodEntry
    <3>3. r \in 1 .. n
      BY <1>1, <3>2 DEF Is
    <3>4. Is(r, "BIN")'
      BY <1>3, <3>2, <3>3
    <3>. QED
      BY <2>1, <3>1, <3>2, <3>4 DEF Is
  <2>. QED
    BY <2>1, <2>2 DEF GoodEntry
<1>5. n \in Nat /\ n <= Len(log) /\ n <= MaxLog /\ n >= 1
  BY <1>1, CleanerAssumption
<1>6. \A i \in 1 .. n : GoodEntry(i)'
  BY <1>4
<1>. QED
  BY <1>2, <1>3, <1>5, <1>6

LEMMA CrashTypes ==
    ASSUME TypeInv, NEW n \in durable .. Len(log), Crash(n)
    PROVE  TypeInv'
<1>0. LogType /\ TxnType /\ PcType
  BY Parts
<1>1. log' = SubSeq(log, 1, n) /\ durable' = n /\ gone' = gone
  BY DEF Crash
<1>2. /\ log' \in Seq(Entry) /\ Len(log') = n /\ n \in Nat /\ n <= Len(log) /\ n <= MaxLog /\ n >= 1
      /\ \A i \in 1 .. n : \A ty : Is(i, ty) => Is(i, ty)'
      /\ \A i \in 1 .. n : GoodEntry(i)'
  BY <1>0, <1>1, Truncated
<1>3. LogType'
  BY <1>0, <1>1, <1>2 DEF LogType
<1>4. n \in 0 .. Len(log)
  BY <1>0, <1>2 DEF LogType
<1>5. TreeType'
  <2>1. slot' = [k \in Key |-> RecoveredSlot(k, n)] /\ root' = BaseImage(n, LastCkpt(n)) /\ (dirty' = TRUE)
    BY DEF Crash
  <2>2. \A k \in Key : RecoveredSlot(k, n) \in 0 .. n
    BY <1>0, <1>4, RecoveredSlotType
  <2>3. BaseImage(n, LastCkpt(n)) \in 0 .. n
        /\ (BaseImage(n, LastCkpt(n)) # None => Is(BaseImage(n, LastCkpt(n)), "BIN"))
    BY <1>0, <1>4, BaseImageIs
  <2>4. slot' \in [Key -> 0 .. Len(log')]
    BY <1>2, <2>1, <2>2
  <2>5. dirty' \in BOOLEAN
    BY <2>1
  <2>6. PICK r : r = BaseImage(n, LastCkpt(n))
    OBVIOUS
  <2>7. r \in 0 .. n /\ (r # None => Is(r, "BIN")') /\ root' = r
    BY <1>2, <2>1, <2>3, <2>6 DEF None
  <2>8. root' \in 0 .. Len(log') /\ (root' # None => Is(root, "BIN")')
    BY <1>2, <2>7 DEF Is
  <2>. QED
    BY <2>4, <2>5, <2>8 DEF TreeType
<1>6. 0 \in 0 .. Len(log') /\ 0 \in 0 .. MaxLog
  BY <1>2, CleanerAssumption
<1>7. TxnType'
  <2>1. /\ txn' = [t \in Txn |-> IF txn[t] = "idle" THEN "idle" ELSE "done"]
        /\ writer' = [k \in Key |-> 0] /\ before' = [k \in Key |-> 0] /\ unpub' = [k \in Key |-> 0]
    BY DEF Crash, None
  <2>. QED
    BY <1>6, <2>1 DEF TxnType, None
<1>8. SelType'
  <2>1. /\ being' = {} /\ cleaned' = {} /\ checkpointed' = {} /\ safe' = {} /\ pending' = {}
        /\ (anyPending' = FALSE) /\ settled' = [f \in File |-> 0]
    BY DEF Crash, None
  <2>2. anyPending' \in BOOLEAN
    BY <2>1
  <2>. QED
    BY <1>6, <2>1, <2>2 DEF SelType
<1>9. QueueType' /\ LookType' /\ PcType' /\ PassType' /\ CkptType'
  <2>1. /\ pc' = [a \in Agent |-> "idle"] /\ todo' = [a \in Agent |-> {}]
        /\ at' = [a \in Agent |-> 0] /\ tree' = [a \in Agent |-> 0]
        /\ locked' = {} /\ clamp' = 0 /\ snap' = {} /\ start' = 0
    BY DEF Crash, None
  <2>2. PcType'
    BY <2>1, AgentsAre DEF PcType, CleanerPcs, CkptPcs
  <2>3. QueueType' /\ LookType'
    BY <1>6, <2>1 DEF QueueType, LookType
  <2>4. PassType' /\ CkptType'
    BY <1>6, <2>1, AgentsAre DEF PassType, CkptType, File
  <2>. QED
    BY <2>2, <2>3, <2>4
<1>. QED
  BY <1>3, <1>5, <1>7, <1>8, <1>9, PartsNext

LEMMA SameTypes ==
    ASSUME TypeInv, UNCHANGED vars
    PROVE  TypeInv'
<1>0. /\ LogType /\ TreeType /\ TxnType /\ SelType
      /\ QueueType /\ LookType /\ PcType /\ PassType /\ CkptType
  BY Parts
<1>1. /\ UNCHANGED logVars /\ UNCHANGED treeVars /\ UNCHANGED txnVars /\ UNCHANGED selVars
      /\ pc' = pc /\ UNCHANGED lookVars /\ UNCHANGED passVars /\ UNCHANGED ckptVars
  BY DEF vars
<1>2. Grown /\ LogType'
  BY <1>0, <1>1, SameLog, LogKept DEF logVars, LogType
<1>. QED
  BY <1>0, <1>1, <1>2, TreeKept, TxnKept, SelKept, QuietAgents, PartsNext

LEMMA NextTypes ==
    ASSUME TypeInv, [Next]_vars
    PROVE  TypeInv'
<1>1. CASE Next
  BY <1>1, WriteTypes, PublishTypes, CommitTypes, AbortTypes, PendingLookupTypes, PendingRetryTypes,
     CleanStartTypes, CleanSelectTypes, CleanNothingTypes, CleanScanTypes, CleanLookupTypes,
     CleanLnTypes, CleanEndTypes, DeleteSafeTypes, CleanDoneTypes, CkptBeginTypes,
     CkptSnapshotTypes, CkptStartTypes, CkptFlushTypes, CkptEndTypes, CkptAfterTypes,
     CkptFailsTypes, CrashTypes DEF Next
<1>. QED
  BY <1>1, SameTypes

\* A window that was met stays on record.
LEMMA ExposedSteps ==
    ASSUME [Next]_vars
    PROVE  exposed \subseteq exposed' /\ exposed' \subseteq exposed \cup Windows
<1>1. ASSUME NEW t \in Txn, Abort(t) PROVE exposed \subseteq exposed' /\ exposed' \subseteq exposed \cup Windows
  BY <1>1 DEF Abort, Windows
<1>2. CASE CkptFlush
  BY <1>2 DEF CkptFlush, Windows
<1>3. ASSUME NEW n, Crash(n) PROVE exposed \subseteq exposed' /\ exposed' \subseteq exposed \cup Windows
  BY <1>3 DEF Crash, Windows
<1>4. CASE exposed' = exposed
  BY <1>4
<1>5. /\ \A a \in Agent : PendingRetry(a) => exposed' = exposed
      /\ \A a \in Agent : \A l \in todo[a] : PendingLookup(a, l) => exposed' = exposed
  BY DEF PendingRetry, PendingLookup
<1>6. /\ \A t \in Txn, k \in Key : Write(t, k) => exposed' = exposed
      /\ \A k \in Key : Publish(k) => exposed' = exposed
      /\ \A t \in Txn, sync \in BOOLEAN : Commit(t, sync) => exposed' = exposed
  BY DEF Write, Publish, Commit
<1>7. CleanStart \/ (\E f \in File : CleanSelect(f)) \/ CleanNothing \/ CleanScan \/ CleanLookup
        \/ CleanLn \/ CleanEnd \/ DeleteSafe \/ CleanDone => exposed' = exposed
  BY DEF CleanStart, CleanSelect, CleanNothing, CleanScan, CleanLookup, CleanLn, CleanEnd, DeleteSafe, CleanDone
<1>8. CkptBegin \/ CkptSnapshot \/ CkptStart \/ CkptEnd \/ CkptAfter \/ CkptFails => exposed' = exposed
  BY DEF CkptBegin, CkptSnapshot, CkptStart, CkptEnd, CkptAfter, CkptFails
<1>9. UNCHANGED vars => exposed' = exposed
  BY DEF vars
<1>10. CASE Next
  <2>1. \/ exposed' = exposed \/ (\E t \in Txn : Abort(t)) \/ CkptFlush \/ \E n : Crash(n)
    <3>1. CASE (\E t \in Txn, k \in Key : Write(t, k)) \/ (\E k \in Key : Publish(k))
               \/ (\E t \in Txn : \E sync \in BOOLEAN : Commit(t, sync))
      BY <1>6, <3>1
    <3>2. CASE \E a \in Agent : PendingRetry(a) \/ \E l \in todo[a] : PendingLookup(a, l)
      BY <1>5, <3>2
    <3>. QED
      BY <1>7, <1>8, <1>10, <3>1, <3>2 DEF Next
  <2>. QED
    BY <1>1, <1>2, <1>3, <1>4, <2>1
<1>. QED
  BY <1>4, <1>9, <1>10

LEMMA TypesOK == ASSUME TypeInv, exposed \subseteq Windows PROVE TypeOK
<1>1. Len(log) \in Nat /\ Len(log) <= MaxLog /\ MaxLog \in Nat
  BY CleanerAssumption DEF TypeInv, LogType
<1>2. /\ \A l : l \in 0 .. Len(log) => l \in Lsn \cup {None}
      /\ \A l : l \in 1 .. Len(log) => l \in Lsn
      /\ \A l : l \in 0 .. MaxLog => l \in Lsn \cup {None}
  BY <1>1 DEF Lsn, None
<1>3. log \in Seq(Entry) /\ Len(log) <= MaxLog /\ durable \in 0 .. Len(log) /\ gone \subseteq File
  BY DEF TypeInv, LogType
<1>4. slot \in [Key -> Lsn \cup {None}] /\ root \in Lsn \cup {None}
  BY <1>2 DEF TypeInv, TreeType
<1>5. dirty \in BOOLEAN
  BY DEF TypeInv, TreeType
<1>6. /\ txn \in [Txn -> {"idle", "active", "done"}] /\ writer \in [Key -> Txn \cup {None}]
      /\ before \in [Key -> Lsn \cup {None}] /\ unpub \in [Key -> Lsn \cup {None}]
  BY <1>2 DEF TypeInv, TxnType
<1>7. {being, cleaned, checkpointed, safe, snap} \subseteq SUBSET File /\ pending \subseteq Lsn
  BY <1>2 DEF TypeInv, SelType, AgentType
<1>8. anyPending \in BOOLEAN
  BY DEF TypeInv, SelType
<1>9. settled \in [File -> Lsn \cup {None}]
  BY <1>2 DEF TypeInv, SelType
<1>10. pc \in [Agent -> {"idle", "pending", "retry", "scan", "lns", "found", "delete",
                         "start", "flush", "end", "after"}]
  <2>1. CleanerPcs \cup CkptPcs = {"idle", "pending", "retry", "scan", "lns", "found", "delete",
                                   "start", "flush", "end", "after"}
    BY DEF CleanerPcs, CkptPcs
  <2>2. pc \in [Agent -> CleanerPcs \cup CkptPcs]
    BY DEF TypeInv, AgentType
  <2>. QED
    BY <2>1, <2>2
<1>11. todo \in [Agent -> SUBSET Lsn]
  <2>1. SUBSET (1 .. Len(log)) \subseteq SUBSET Lsn
    BY <1>2
  <2>2. todo \in [Agent -> SUBSET (1 .. Len(log))]
    BY DEF TypeInv, AgentType
  <2>. QED
    BY <2>1, <2>2
<1>12. at \in [Agent -> Lsn \cup {None}] /\ tree \in [Agent -> Lsn \cup {None}]
  BY <1>2 DEF TypeInv, AgentType
<1>13. locked \subseteq Lsn /\ clamp \in File /\ start \in Lsn \cup {None}
  BY <1>2 DEF TypeInv, AgentType
<1>. QED
  BY <1>3, <1>4, <1>5, <1>6, <1>7, <1>8, <1>9, <1>10, <1>11, <1>12, <1>13 DEF TypeOK, Windows

\* The type invariant, for a log that has room for the loaded database: every LSN
\* that the tree, the transactions, the FileSelector and the two agents hold is one
\* of the log, whatever part of it a crash leaves.
THEOREM TypeCorrect ==
    ASSUME Loaded + 3 <= MaxLog
    PROVE  Spec => []TypeOK
<1>1. Init => TypeInv /\ exposed \subseteq Windows
  BY InitTypes DEF Init
<1>2. TypeInv /\ exposed \subseteq Windows /\ [Next]_vars => (TypeInv /\ exposed \subseteq Windows)'
  BY NextTypes, ExposedSteps DEF Windows
<1>3. TypeInv /\ exposed \subseteq Windows => TypeOK
  BY TypesOK
<1>. QED
  BY <1>1, <1>2, <1>3, PTL DEF Spec

-----------------------------------------------------------------------------
(* The files in hand *)

Processed == cleaned \cup checkpointed \cup safe \cup gone
Cleaning == pc["cleaner"] \in {"scan", "lns", "found"}
Scanning == pc["cleaner"] \in {"lns", "found"}

\* The file being cleaned is in no other state; the LNs queued, looked at and found
\* locked are its own.
BeingInv ==
    /\ being \cap Processed = {}
    /\ ~Cleaning => being = {} /\ locked = {}
    /\ Cleaning => \E f \in File : being = {f}
    /\ pc["cleaner"] = "scan" => locked = {}
    /\ \A l \in locked : FileOf(l) \in being
    /\ Scanning => \A l \in todo["cleaner"] : FileOf(l) \in being
    /\ pc["cleaner"] = "found" => FileOf(at["cleaner"]) \in being

\* A pending LN is of a file that is cleaned or checkpointed, and not yet safe to
\* delete; the flag says so at least until the next checkpoint.
PendingInv ==
    /\ \A l \in pending : FileOf(l) \in (cleaned \cup checkpointed) \ (safe \cup gone)
    /\ anyPending \/ pending = {}

SelInv == BeingInv /\ PendingInv

LEMMA BeingKept ==
    ASSUME BeingInv, UNCHANGED <<being, cleaned, checkpointed, safe, gone, locked>>,
           pc'["cleaner"] = pc["cleaner"], todo'["cleaner"] = todo["cleaner"],
           pc["cleaner"] = "found" => at'["cleaner"] = at["cleaner"]
    PROVE  BeingInv'
BY DEF BeingInv, Processed, Cleaning, Scanning, FileOf

LEMMA PendingSame ==
    ASSUME PendingInv, UNCHANGED <<cleaned, checkpointed, safe, pending, anyPending>>, gone' = gone
    PROVE  PendingInv'
BY DEF PendingInv, FileOf

\* Steps that leave the FileSelector and the cleaner alone.
LEMMA SelSame ==
    ASSUME SelInv, gone' = gone, UNCHANGED selVars, UNCHANGED pc, UNCHANGED lookVars, UNCHANGED passVars
    PROVE  SelInv'
<1>1. UNCHANGED <<being, cleaned, checkpointed, safe, pending, anyPending>> /\ UNCHANGED <<todo, at>>
      /\ locked' = locked
  BY DEF selVars, lookVars, passVars
<1>. QED
  BY <1>1, BeingKept, PendingSame DEF SelInv

LEMMA RemoveSel ==
    ASSUME SelInv, NEW l, RemovePendingLn(l), gone' = gone
    PROVE  PendingInv' /\ being' = being /\ Processed' = Processed
<1>1. pending' = pending \ {l} /\ UNCHANGED <<being, cleaned, anyPending>>
  BY DEF RemovePendingLn
<1>2. CASE pending \ {l} = {}
  <2>1. checkpointed' = {} /\ safe' = safe \cup checkpointed
    BY <1>2 DEF RemovePendingLn, ProcessedFiles
  <2>. QED
    BY <1>1, <1>2, <2>1 DEF SelInv, PendingInv, Processed
<1>3. CASE pending \ {l} # {}
  <2>1. checkpointed' = checkpointed /\ safe' = safe
    BY <1>3 DEF RemovePendingLn, ProcessedFiles
  <2>. QED
    BY <1>1, <1>3, <2>1 DEF SelInv, PendingInv, Processed, FileOf
<1>. QED
  BY <1>2, <1>3

LEMMA PendingRetrySel ==
    ASSUME TypeInv, SelInv, NEW a \in Agent, PendingRetry(a)
    PROVE  SelInv'
<1>0. PcType /\ LookType
  BY Parts
<1>1. UNCHANGED selVars \/ \E l : RemovePendingLn(l)
  BY DEF PendingRetry
<1>2. /\ pc[a] = "retry" /\ LookupDone(a) /\ pc' = [pc EXCEPT ![a] = "pending"]
      /\ gone' = gone /\ todo' = todo /\ locked' = locked
  BY DEF PendingRetry, passVars
<1>3. PendingInv' /\ being' = being /\ Processed' = Processed
  <2>1. CASE UNCHANGED selVars
    <3>1. UNCHANGED <<being, cleaned, checkpointed, safe, pending, anyPending>>
      BY <2>1 DEF selVars
    <3>. QED
      BY <1>2, <3>1, PendingSame DEF SelInv, Processed
  <2>. QED
    BY <1>1, <1>2, <2>1, RemoveSel
<1>4. BeingInv'
  <2>1. CASE a = "cleaner"
    <3>1. pc'["cleaner"] = "pending" /\ pc["cleaner"] = "retry"
      BY <1>0, <1>2, <2>1 DEF PcType
    <3>. QED
      BY <1>2, <1>3, <3>1 DEF SelInv, BeingInv, Cleaning, Scanning
  <2>2. CASE a # "cleaner"
    <3>1. pc'["cleaner"] = pc["cleaner"] /\ at'["cleaner"] = at["cleaner"]
      BY <1>0, <1>2, <2>2, AgentsAre DEF PcType, LookType, LookupDone
    <3>. QED
      BY <1>2, <1>3, <3>1 DEF SelInv, BeingInv, Cleaning, Scanning, FileOf
  <2>. QED
    BY <2>1, <2>2
<1>. QED
  BY <1>3, <1>4 DEF SelInv

LEMMA PendingLookupSel ==
    ASSUME TypeInv, SelInv, NEW a \in Agent, NEW l, PendingLookup(a, l)
    PROVE  SelInv'
<1>0. PcType /\ LookType /\ QueueType
  BY Parts
<1>1. /\ pc[a] = "pending" /\ Looked(a, l) /\ pc' = [pc EXCEPT ![a] = "retry"] /\ gone' = gone
      /\ UNCHANGED <<being, cleaned, checkpointed, safe, pending, anyPending>> /\ locked' = locked
  BY DEF PendingLookup, selVars, passVars, logVars
<1>2. CASE a = "cleaner"
  <2>1. pc'["cleaner"] = "retry" /\ pc["cleaner"] = "pending"
    BY <1>0, <1>1, <1>2 DEF PcType
  <2>2. BeingInv'
    BY <1>1, <2>1 DEF SelInv, BeingInv, Cleaning, Scanning, Processed
  <2>. QED
    BY <1>1, <2>2, PendingSame DEF SelInv
<1>3. CASE a # "cleaner"
  <2>1. pc'["cleaner"] = pc["cleaner"] /\ at'["cleaner"] = at["cleaner"] /\ todo'["cleaner"] = todo["cleaner"]
    BY <1>0, <1>1, <1>3, AgentsAre DEF PcType, LookType, QueueType, Looked
  <2>. QED
    BY <1>1, <2>1, BeingKept, PendingSame DEF SelInv
<1>. QED
  BY <1>2, <1>3

\* The steps of a cleaning pass.
LEMMA CleanerSel ==
    ASSUME TypeInv, SelInv,
           \/ CleanStart \/ CleanNothing \/ CleanScan \/ CleanLookup \/ CleanLn \/ CleanDone
    PROVE  SelInv'
<1>0. PcType /\ LookType /\ QueueType /\ LogType
  BY Parts
<1>1. gone' = gone /\ UNCHANGED <<being, cleaned, checkpointed, safe, pending, anyPending>>
  BY DEF CleanStart, CleanNothing, CleanScan, CleanLookup, CleanLn, CleanDone, logVars, selVars
<1>2. PendingInv' /\ Processed' = Processed
  BY <1>1, PendingSame DEF SelInv, Processed
<1>3. CASE CleanStart \/ CleanNothing \/ CleanDone
  <2>1. /\ pc["cleaner"] \in {"idle", "pending", "delete"} /\ locked' = locked
        /\ pc'["cleaner"] \in {"idle", "pending", "delete"}
    BY <1>0, <1>3, AgentsAre DEF CleanStart, CleanNothing, CleanDone, PcType, passVars
  <2>. QED
    BY <1>1, <1>2, <2>1 DEF SelInv, BeingInv, Cleaning, Scanning
<1>4. CASE CleanScan
  <2>1. PICK f \in File : being = {f}
    BY <1>4 DEF SelInv, BeingInv, CleanScan, Cleaning
  <2>2. (CHOOSE g \in being : TRUE) = f
    BY <2>1
  <2>3. todo' = [todo EXCEPT !["cleaner"] = {l \in EntriesOf(f) : IsLN(l)}]
    BY <1>4, <2>2 DEF CleanScan
  <2>4. pc["cleaner"] = "scan" /\ pc'["cleaner"] = "lns" /\ locked' = locked
    BY <1>0, <1>4, AgentsAre DEF CleanScan, PcType, passVars
  <2>5. \A l \in todo'["cleaner"] : FileOf(l) = f
    BY <1>0, <2>3, AgentsAre DEF QueueType, EntriesOf
  <2>. QED
    BY <1>1, <1>2, <2>1, <2>4, <2>5 DEF SelInv, BeingInv, Cleaning, Scanning, FileOf
<1>5. CASE CleanLookup
  <2>1. /\ pc["cleaner"] = "lns" /\ pc'["cleaner"] = "found" /\ locked' = locked /\ todo["cleaner"] # {}
        /\ at'["cleaner"] = Min(todo["cleaner"]) /\ todo'["cleaner"] \subseteq todo["cleaner"]
    BY <1>0, <1>5, AgentsAre DEF CleanLookup, PcType, passVars, Looked, LookType, QueueType
  <2>2. Min(todo["cleaner"]) \in todo["cleaner"]
    <3>1. todo["cleaner"] \subseteq Nat
      BY <1>0, AgentsAre DEF QueueType
    <3>. QED
      BY <2>1, <3>1, MinIs
  <2>3. at'["cleaner"] \in todo["cleaner"]
    BY <2>1, <2>2
  <2>. QED
    BY <1>1, <1>2, <2>1, <2>3 DEF SelInv, BeingInv, Cleaning, Scanning, FileOf
<1>6. CASE CleanLn
  <2>1. /\ pc["cleaner"] = "found" /\ pc'["cleaner"] = "lns" /\ todo' = todo
        /\ locked' \subseteq locked \cup {at["cleaner"]}
    BY <1>0, <1>6, AgentsAre DEF CleanLn, PcType
  <2>2. \A l \in locked' : FileOf(l) \in being
    BY <2>1 DEF SelInv, BeingInv
  <2>. QED
    BY <1>1, <1>2, <2>1, <2>2 DEF SelInv, BeingInv, Cleaning, Scanning, FileOf
<1>. QED
  BY <1>2, <1>3, <1>4, <1>5, <1>6 DEF SelInv

LEMMA CleanSelectSel ==
    ASSUME TypeInv, SelInv, NEW f \in File, CleanSelect(f)
    PROVE  SelInv'
<1>0. PcType
  BY Parts
<1>1. /\ gone' = gone /\ UNCHANGED <<cleaned, checkpointed, safe, pending, anyPending>> /\ being' = {f}
      /\ locked' = locked /\ f \notin gone \cup being \cup cleaned \cup checkpointed \cup safe
  BY DEF CleanSelect, logVars, Eligible, InProgress
<1>2. pc["cleaner"] = "pending" /\ pc'["cleaner"] = "scan"
  BY <1>0, AgentsAre DEF CleanSelect, PcType
<1>3. BeingInv'
  BY <1>1, <1>2 DEF SelInv, BeingInv, Cleaning, Scanning, Processed
<1>. QED
  BY <1>1, <1>3, PendingSame DEF SelInv

LEMMA CleanEndSel ==
    ASSUME TypeInv, SelInv, CleanEnd
    PROVE  SelInv'
<1>0. PcType
  BY Parts
<1>1. /\ gone' = gone /\ UNCHANGED <<checkpointed, safe>> /\ being' = {} /\ locked' = {}
      /\ cleaned' = cleaned \cup being /\ pending' = pending \cup locked
      /\ anyPending' = (anyPending \/ locked # {})
  BY DEF CleanEnd, logVars
<1>2. pc'["cleaner"] = "delete"
  BY <1>0, AgentsAre DEF CleanEnd, PcType
<1>3. BeingInv'
  BY <1>1, <1>2 DEF BeingInv, Cleaning, Scanning
<1>4. \A l \in locked : FileOf(l) \in being /\ FileOf(l) \notin safe \cup gone
  BY DEF SelInv, BeingInv, Processed
<1>5. \A l \in pending' : FileOf(l) \in (cleaned' \cup checkpointed') \ (safe' \cup gone')
  BY <1>1, <1>4 DEF SelInv, PendingInv
<1>6. anyPending' \/ pending' = {}
  BY <1>1, Zenon DEF SelInv, PendingInv
<1>. QED
  BY <1>3, <1>5, <1>6 DEF SelInv, PendingInv, FileOf

LEMMA DeleteSafeSel ==
    ASSUME TypeInv, SelInv, DeleteSafe
    PROVE  SelInv'
<1>1. /\ UNCHANGED <<being, cleaned, checkpointed, pending, anyPending>> /\ locked' = locked
      /\ pc' = pc /\ todo' = todo /\ at' = at
      /\ safe' = safe \ {Min(safe)} /\ gone' \subseteq gone \cup {Min(safe)} /\ safe # {}
  BY DEF DeleteSafe, lookVars, passVars
<1>2. Min(safe) \in safe
  <2>1. safe \subseteq Nat
    BY CleanerAssumption DEF TypeInv, SelType, File
  <2>. QED
    BY <1>1, <2>1, MinIs
<1>3. safe' \cup gone' \subseteq safe \cup gone /\ Processed' \subseteq Processed
  BY <1>1, <1>2 DEF Processed
<1>4. PendingInv'
  BY <1>1, <1>3 DEF SelInv, PendingInv, FileOf
<1>5. BeingInv'
  BY <1>1, <1>3 DEF SelInv, BeingInv, Cleaning, Scanning, FileOf
<1>. QED
  BY <1>4, <1>5 DEF SelInv

\* The steps of a checkpoint.
LEMMA CkptSel ==
    ASSUME TypeInv, SelInv,
           CkptBegin \/ CkptStart \/ CkptFlush \/ CkptEnd \/ CkptFails \/ CkptSnapshot
    PROVE  SelInv'
<1>0. PcType /\ QueueType
  BY Parts
<1>1. /\ gone' = gone /\ UNCHANGED <<being, cleaned, checkpointed, safe, pending>>
      /\ locked' = locked /\ at' = at
  BY DEF CkptBegin, CkptStart, CkptFlush, CkptEnd, CkptFails, CkptSnapshot, logVars, selVars,
         lookVars, passVars
<1>2. \E p : pc' = [pc EXCEPT !["checkpointer"] = p]
  BY DEF CkptBegin, CkptStart, CkptFlush, CkptEnd, CkptFails, CkptSnapshot
<1>3. pc'["cleaner"] = pc["cleaner"]
  BY <1>0, <1>2, AgentsAre DEF PcType
<1>4. todo'["cleaner"] = todo["cleaner"]
  BY <1>0, AgentsAre DEF CkptBegin, CkptStart, CkptFlush, CkptEnd, CkptFails, CkptSnapshot, lookVars,
         QueueType
<1>5. BeingInv'
  BY <1>1, <1>3, <1>4, BeingKept DEF SelInv
<1>6. PendingInv'
  <2>1. CASE anyPending' = anyPending
    BY <1>1, <2>1, PendingSame DEF SelInv
  <2>2. CASE anyPending' = (pending # {})
    <3>1. anyPending' \/ pending' = {}
      BY <1>1, <2>2, Zenon
    <3>. QED
      BY <1>1, <3>1 DEF SelInv, PendingInv, FileOf
  <2>. QED
    BY <2>1, <2>2 DEF CkptBegin, CkptStart, CkptFlush, CkptEnd, CkptFails, CkptSnapshot, selVars
<1>. QED
  BY <1>5, <1>6 DEF SelInv

\* process_checkpoint_end: a file goes on only when nothing is pending.
LEMMA CkptAfterSel ==
    ASSUME TypeInv, SelInv, CkptAfter
    PROVE  SelInv'
<1>0. PcType
  BY Parts
<1>1. /\ gone' = gone /\ UNCHANGED <<being, pending, anyPending>> /\ locked' = locked /\ at' = at
      /\ todo' = todo /\ pc' = [pc EXCEPT !["checkpointer"] = "idle"] /\ cleaned' = cleaned \ snap
  BY DEF CkptAfter, logVars, lookVars, passVars
<1>2. pc'["cleaner"] = pc["cleaner"]
  BY <1>0, <1>1, AgentsAre DEF PcType
<1>3. Processed' \subseteq Processed
  BY <1>1 DEF CkptAfter, ProcessedFiles, Processed
<1>4. BeingInv'
  BY <1>1, <1>2, <1>3 DEF SelInv, BeingInv, Cleaning, Scanning, FileOf
<1>5. PendingInv'
  <2>1. CASE pending = {}
    BY <1>1, <2>1 DEF PendingInv
  <2>2. CASE pending # {}
    <3>1. anyPending
      BY <2>2 DEF SelInv, PendingInv
    <3>2. safe' = safe /\ checkpointed' = checkpointed \cup (snap \cap cleaned)
      BY <2>2, <3>1 DEF CkptAfter, ProcessedFiles
    <3>3. anyPending'
      BY <1>1, <3>1
    <3>4. \A l \in pending' : FileOf(l) \in (cleaned' \cup checkpointed') \ (safe' \cup gone')
      BY <1>1, <3>2 DEF SelInv, PendingInv
    <3>. QED
      BY <3>3, <3>4 DEF PendingInv, FileOf
  <2>. QED
    BY <2>1, <2>2
<1>. QED
  BY <1>4, <1>5 DEF SelInv

LEMMA CrashSel ==
    ASSUME NEW n, Crash(n)
    PROVE  SelInv'
<1>1. /\ being' = {} /\ locked' = {} /\ pending' = {} /\ pc' = [a \in Agent |-> "idle"]
  BY DEF Crash
<1>2. pc'["cleaner"] = "idle"
  BY <1>1, AgentsAre
<1>. QED
  BY <1>1, <1>2 DEF SelInv, BeingInv, PendingInv, Cleaning, Scanning

LEMMA NextSel ==
    ASSUME TypeInv, SelInv, [Next]_vars
    PROVE  SelInv'
<1>1. ASSUME NEW t \in Txn, NEW k \in Key, Write(t, k) PROVE SelInv'
  <2>1. gone' = gone /\ UNCHANGED selVars /\ UNCHANGED pc /\ UNCHANGED lookVars /\ UNCHANGED passVars
    BY <1>1 DEF Write
  <2>. QED
    BY <2>1, SelSame
<1>2. ASSUME NEW k \in Key, Publish(k) PROVE SelInv'
  <2>1. gone' = gone /\ UNCHANGED selVars /\ UNCHANGED pc /\ UNCHANGED lookVars /\ UNCHANGED passVars
    BY <1>2 DEF Publish, logVars
  <2>. QED
    BY <2>1, SelSame
<1>3. ASSUME NEW t \in Txn, Abort(t) \/ \E sync \in BOOLEAN : Commit(t, sync) PROVE SelInv'
  <2>1. gone' = gone /\ UNCHANGED selVars /\ UNCHANGED pc /\ UNCHANGED lookVars /\ UNCHANGED passVars
    BY <1>3 DEF Abort, Commit
  <2>. QED
    BY <2>1, SelSame
<1>4. CASE UNCHANGED vars
  <2>1. gone' = gone /\ UNCHANGED selVars /\ UNCHANGED pc /\ UNCHANGED lookVars /\ UNCHANGED passVars
    BY <1>4 DEF vars, logVars
  <2>. QED
    BY <2>1, SelSame
<1>5. CASE Next
  BY <1>1, <1>2, <1>3, <1>5, PendingLookupSel, PendingRetrySel, CleanerSel, CleanSelectSel,
     CleanEndSel, DeleteSafeSel, CkptSel, CkptAfterSel, CrashSel DEF Next
<1>. QED
  BY <1>4, <1>5

\* PendingKept, for every number of records, transactions and log entries: whatever
\* the order in which the cleaner, a checkpoint and the two runs of process_pending
\* add, settle and remove pending LNs, no file that holds one is deleted.
THEOREM PendingIsKept ==
    ASSUME Loaded + 3 <= MaxLog
    PROVE  Spec => []PendingKept
<1>1. Init => TypeInv /\ SelInv
  <2>1. ASSUME Init PROVE SelInv
    <3>1. /\ being = {} /\ locked = {} /\ pending = {} /\ pc = [a \in Agent |-> "idle"]
      BY <2>1 DEF Init
    <3>2. pc["cleaner"] = "idle"
      BY <3>1, AgentsAre
    <3>. QED
      BY <3>1, <3>2 DEF SelInv, BeingInv, PendingInv, Cleaning, Scanning
  <2>. QED
    BY <2>1, InitTypes
<1>2. TypeInv /\ SelInv /\ [Next]_vars => TypeInv' /\ SelInv'
  BY NextTypes, NextSel
<1>3. SelInv => PendingKept
  BY DEF SelInv, PendingInv, PendingKept
<1>. QED
  BY <1>1, <1>2, <1>3, PTL DEF Spec

-----------------------------------------------------------------------------
(* The log and the committed versions *)

\* The transaction had committed, or there was none, when the log had n entries.
EndedBy(t, n) == t = None \/ \E c \in 1 .. n : log[c].type = "Commit" /\ log[c].txn = t

\* The committed versions of a record in the first n entries, and the last of them.
Vers(k, n) == {l \in 1 .. n : IsLN(l) /\ log[l].key = k /\ EndedBy(log[l].txn, n)}
IsCur(l, k, n) == l \in Vers(k, n) /\ \A x \in Vers(k, n) : x <= l

\* LNs of open transactions, and those together with the committed ones.
Active(l) == Is(l, "LN") /\ log[l].txn # None /\ txn[log[l].txn] = "active"
Alive(l) == Is(l, "LN") /\ (EndedBy(log[l].txn, Len(log)) \/ Active(l))

\* An LN of the record k.
IsVersion(l, k) == Is(l, "LN") /\ log[l].key = k

\* What an image or a CkptEnd refers to is there, and every record has a version on disk.
EntryOk(i) ==
    /\ log[i].type = "BIN" => \A k \in Key : IsVersion(log[i].slots[k], k)
    /\ log[i].type = "CkptEnd" => Is(log[i].start, "CkptStart") /\ log[i].root # None

EntriesInv ==
    /\ \A i \in 1 .. Len(log) : EntryOk(i)
    /\ \A k \in Key : \E l \in 1 .. durable : IsLN(l) /\ log[l].key = k /\ log[l].txn = None
    /\ \A f \in File : settled[f] <= Len(log)

SlotsInv == root # None /\ \A k \in Key : IsVersion(slot[k], k)

-----------------------------------------------------------------------------
(* Files *)

Kept == checkpointed \cup safe \cup gone     \* behind the barrier of a checkpoint

OldInv ==
    /\ \A f \in being \cup Processed : f < Newest
    /\ snap \subseteq cleaned

QueueInv ==
    \A a \in Agent :
        /\ pc[a] \in {"pending", "retry"} => \A l \in todo[a] : FileOf(l) \in Processed
        /\ pc[a] = "retry" => FileOf(at[a]) \in Processed

ClampInv == pc["cleaner"] \in {"pending", "retry"} =>
    clamp <= Newest /\ \A l \in 1 .. Len(log) : Active(l) => clamp <= FileOf(l)

ClosedInv == \A l \in 1 .. Len(log) : Active(l) => FileOf(l) \notin being \cup Processed

-----------------------------------------------------------------------------
(* Transactions and memory *)

\* The LN of the transaction that has the record locked.
Last(k) == IF unpub[k] # None THEN unpub[k] ELSE slot[k]

\* The version before an LN was the committed one when the LN was logged.
AbortInv == \A i \in 1 .. Len(log) : IsLN(i) =>
    /\ log[i].abort = None => Vers(log[i].key, i - 1) = {}
    /\ log[i].abort # None => IsCur(log[i].abort, log[i].key, i - 1)

\* A record's writers have ended, if they ever commit, before another logs the record.
OrderInv == \A i \in 1 .. Len(log) : IsLN(i) => \A x \in 1 .. i - 1 :
    IsVersion(x, log[i].key) /\ EndedBy(log[x].txn, Len(log)) =>
        EndedBy(log[x].txn, i - 1) \/ log[x].txn = log[i].txn

\* An open transaction has the records it wrote locked: no other has logged them since.
OwnerInv == \A i \in 1 .. Len(log) : IsLN(i) /\ log[i].txn # None =>
    /\ txn[log[i].txn] # "idle"
    /\ txn[log[i].txn] = "active" =>
          /\ writer[log[i].key] = log[i].txn
          /\ \A y \in i .. Len(log) : IsVersion(y, log[i].key) => log[y].txn = log[i].txn

DoneInv == \A c \in 1 .. Len(log) : log[c].type = "Commit" => txn[log[c].txn] = "done"

\* A record no transaction has written shows its committed version; one that a
\* transaction has written shows its last write, once it is in the slot, and until
\* then the write before that.
MemAt(k) ==
    /\ writer[k] = None => IsCur(slot[k], k, Len(log)) /\ before[k] = None /\ unpub[k] = None
    /\ writer[k] # None =>
          /\ txn[writer[k]] = "active" /\ IsCur(before[k], k, Len(log))
          /\ IsVersion(Last(k), k) /\ log[Last(k)].txn = writer[k]
          /\ \A y \in 1 .. Len(log) : IsVersion(y, k) => y <= Last(k)
          /\ unpub[k] # None =>
                /\ slot[k] = before[k] \/ log[slot[k]].txn = writer[k]
                /\ \A y \in 1 .. Len(log) :
                      IsVersion(y, k) /\ log[y].txn = writer[k] => y <= slot[k] \/ y = unpub[k]

MemInv == \A k \in Key : MemAt(k)

CoreInv == AbortInv /\ OrderInv /\ OwnerInv /\ DoneInv /\ MemInv /\ SlotsInv

Live(k, l) == l = slot[k] \/ (l = before[k] /\ l # None)

LiveInv == \A k \in Key, l \in 1 .. Len(log) : Live(k, l) =>
    /\ FileOf(l) \in Processed => l \in pending
    /\ Scanning /\ FileOf(l) \in being =>
          l \in todo["cleaner"] \cup locked \/ (pc["cleaner"] = "found" /\ l = at["cleaner"])

TreeInv == \A a \in Agent : pc[a] \in {"retry", "found"} => tree[a] # None

LookInv == \A a \in Agent : pc[a] \in {"retry", "found"} =>
    \A k \in Key : KeyOf(at[a]) = k /\ Live(k, at[a]) /\ tree[a] # at[a] => WriteLocked(k, tree[a])

-----------------------------------------------------------------------------
(* Checkpoints *)

Ckpting == pc["checkpointer"] \in {"flush", "end", "after"}

\* A checkpoint that a crash now may have recovery start from.
Usable(e) == Is(e, "CkptEnd") /\ \A d \in 1 .. durable : log[d].type = "CkptEnd" => d <= e

\* An image that such a recovery may start from.
BaseOf(b, e) == b = log[e].root \/ (Is(b, "BIN") /\ b > log[e].start)

RootInv ==
    /\ ~dirty => \A k \in Key : log[root].slots[k] = slot[k]
    /\ FileOf(root) \in cleaned => dirty
    /\ Scanning /\ FileOf(root) \in being => dirty
    /\ FileOf(root) \notin Kept
    /\ pc["checkpointer"] \in {"end", "after"} => FileOf(root) \notin snap

CkptInv ==
    /\ \E e \in 1 .. durable : log[e].type = "CkptEnd"
    /\ \A e \in 1 .. Len(log), f \in Kept : Usable(e) => f < FileOf(log[e].start) /\ FileOf(log[e].root) # f
    /\ Ckpting => \A f \in snap \cup Kept : f < FileOf(start)
    /\ pc["checkpointer"] \in {"flush", "end"} => \A e \in 1 .. Len(log) : log[e].type = "CkptEnd" => e < start
    /\ pc["checkpointer"] = "flush" => \A b \in 1 .. Len(log) : log[b].type = "BIN" => b < start
    /\ pc["checkpointer"] \in {"end", "after"} => \A b \in 1 .. Len(log) : log[b].type = "BIN" => b < start \/ b = root
    /\ pc["checkpointer"] = "after" =>
          \E e \in 1 .. durable : /\ log[e].type = "CkptEnd" /\ log[e].start = start /\ log[e].root = root
                                  /\ \A d \in 1 .. Len(log) : log[d].type = "CkptEnd" => d <= e

SeedInv ==
    /\ \A c \in 1 .. Len(log) : Alive(c) =>
          /\ \A b \in c + 1 .. Len(log) : log[b].type = "BIN" =>
                \/ c <= log[b].slots[KeyOf(c)]
                \/ \A s \in 1 .. b : log[s].type = "CkptStart" => s < c
          /\ \A e \in 1 .. Len(log) : log[e].type = "CkptEnd" /\ c < log[e].start => c <= log[log[e].root].slots[KeyOf(c)]
          /\ pc["checkpointer"] = "end" /\ c < start => c <= log[root].slots[KeyOf(c)]
    /\ pc["checkpointer"] = "flush" => \A s \in 1 .. Len(log) : log[s].type = "CkptStart" => s <= start

\* A committed version in a file behind the barrier still waits, or waited then.
GoneInv == \A k \in Key, l \in 1 .. Len(log) :
    /\ \A n \in durable .. Len(log) :
          IsCur(l, k, n) /\ FileOf(l) \in Kept => l \in pending \/ n < settled[FileOf(l)]
    /\ Ckpting => \A n \in start .. Len(log) :
          IsCur(l, k, n) /\ FileOf(l) \in snap => l \in pending \/ n < settled[FileOf(l)]

\* What an image holds in such a file is committed.
ImageInv == \A k \in Key :
    /\ \A e, b \in 1 .. Len(log), n \in durable .. Len(log) :
          Usable(e) /\ BaseOf(b, e) /\ e <= n /\ b <= n /\ FileOf(log[b].slots[k]) \in Kept
             => log[b].slots[k] \in Vers(k, n)
    /\ pc["checkpointer"] = "end" /\ FileOf(log[root].slots[k]) \in snap \cup Kept
          => log[root].slots[k] \in Vers(k, Len(log))
    /\ pc["checkpointer"] = "after" /\ FileOf(log[root].slots[k]) \in snap
          => log[root].slots[k] \in Vers(k, durable)

-----------------------------------------------------------------------------
(* The versions of a record as the log grows *)

LEMMA LenIs ==
    ASSUME LogType
    PROVE  Len(log) \in Nat /\ Len(log) <= MaxLog /\ durable \in Nat /\ 1 <= durable /\ durable <= Len(log)
BY DEF LogType

LEMMA VersMono ==
    ASSUME LogType, NEW n \in 0 .. Len(log), NEW m \in n .. Len(log)
    PROVE  /\ \A t : EndedBy(t, n) => EndedBy(t, m)
           /\ \A k : Vers(k, n) \subseteq Vers(k, m)
<1>1. \A c \in 1 .. n : c \in 1 .. m
  BY LenIs
<1>. QED
  BY <1>1 DEF EndedBy, Vers

LEMMA CurUnique ==
    ASSUME LogType, NEW n \in 0 .. Len(log), NEW k, NEW l, NEW m, IsCur(l, k, n), IsCur(m, k, n)
    PROVE  l = m
<1>1. l \in 1 .. n /\ m \in 1 .. n /\ l <= m /\ m <= l
  BY DEF IsCur, Vers
<1>. QED
  BY <1>1, LenIs

LEMMA VersGrown ==
    ASSUME Grown, NEW n \in 0 .. Len(log)
    PROVE  /\ \A t : EndedBy(t, n)' <=> EndedBy(t, n)
           /\ \A k : Vers(k, n)' = Vers(k, n)
           /\ \A l, k : IsCur(l, k, n)' <=> IsCur(l, k, n)
<1>1. \A c \in 1 .. n : c \in 1 .. Len(log) /\ log'[c] = log[c]
  BY DEF Grown
<1>2. \A t : EndedBy(t, n)' <=> EndedBy(t, n)
  BY <1>1 DEF EndedBy
<1>3. ASSUME NEW k PROVE Vers(k, n)' = Vers(k, n)
  <2>1. ASSUME NEW l \in 1 .. n
        PROVE  (IsLN(l) /\ log[l].key = k /\ EndedBy(log[l].txn, n))'
                  <=> (IsLN(l) /\ log[l].key = k /\ EndedBy(log[l].txn, n))
    BY <1>1, <1>2 DEF IsLN, EndedBy
  <2>. QED
    BY <2>1 DEF Vers
<1>. QED
  BY <1>2, <1>3 DEF IsCur

\* An entry that is not a Commit ends no transaction.
LEMMA VersAppended ==
    ASSUME LogType, Grown, NEW i, i = Len(log) + 1, Len(log') = i, log'[i].type # "Commit"
    PROVE  /\ \A t : EndedBy(t, i)' <=> EndedBy(t, Len(log))
           /\ \A k : Vers(k, i)' = Vers(k, Len(log)) \cup
                        {l \in {i} : log'[i].type = "LN" /\ log'[i].key = k /\ EndedBy(log'[i].txn, Len(log))}
<1>1. \A c \in 1 .. Len(log) : log'[c] = log[c] /\ c \in 1 .. i
  BY LenIs DEF Grown
<1>0. \A c \in 1 .. i : c \in 1 .. Len(log) \/ c = i
  BY LenIs
<1>2. ASSUME NEW t PROVE EndedBy(t, i)' <=> EndedBy(t, Len(log))
  BY <1>0, <1>1 DEF EndedBy
<1>3. ASSUME NEW k
      PROVE  Vers(k, i)' = Vers(k, Len(log)) \cup
                {l \in {i} : log'[i].type = "LN" /\ log'[i].key = k /\ EndedBy(log'[i].txn, Len(log))}
  <2>1. ASSUME NEW l \in 1 .. Len(log)
        PROVE  (IsLN(l) /\ log[l].key = k /\ EndedBy(log[l].txn, i))'
                  <=> (IsLN(l) /\ log[l].key = k /\ EndedBy(log[l].txn, Len(log)))
    BY <1>1, <1>2 DEF IsLN, EndedBy
  <2>2. i \in 1 .. i /\ i \notin 1 .. Len(log)
    BY LenIs
  <2>3. (IsLN(i) /\ log[i].key = k /\ EndedBy(log[i].txn, i))'
           <=> (log'[i].type = "LN" /\ log'[i].key = k /\ EndedBy(log'[i].txn, Len(log)))
    BY <1>2 DEF IsLN, EndedBy
  <2>. QED
    BY <1>0, <1>1, <2>1, <2>2, <2>3 DEF Vers
<1>. QED
  BY <1>2, <1>3

\* Commit records end their transaction.
LEMMA VersCommitted ==
    ASSUME LogType, Grown, NEW i, i = Len(log) + 1, Len(log') = i, NEW t, log'[i] = [type |-> "Commit", txn |-> t]
    PROVE  /\ \A u : EndedBy(u, i)' <=> EndedBy(u, Len(log)) \/ u = t
           /\ \A k : Vers(k, i)' = Vers(k, Len(log)) \cup
                        {l \in 1 .. Len(log) : IsLN(l) /\ log[l].key = k /\ log[l].txn = t}
<1>1. \A c \in 1 .. Len(log) : log'[c] = log[c] /\ c \in 1 .. i
  BY LenIs DEF Grown
<1>0. (\A c \in 1 .. i : c \in 1 .. Len(log) \/ c = i) /\ i \in 1 .. i
  BY LenIs
<1>2. ASSUME NEW u PROVE EndedBy(u, i)' <=> EndedBy(u, Len(log)) \/ u = t
  BY <1>0, <1>1 DEF EndedBy
<1>3. ASSUME NEW k
      PROVE  Vers(k, i)' = Vers(k, Len(log)) \cup
                        {l \in 1 .. Len(log) : IsLN(l) /\ log[l].key = k /\ log[l].txn = t}
  <2>1. ASSUME NEW l \in 1 .. Len(log)
        PROVE  (IsLN(l) /\ log[l].key = k /\ EndedBy(log[l].txn, i))'
                  <=> (IsLN(l) /\ log[l].key = k /\ (EndedBy(log[l].txn, Len(log)) \/ log[l].txn = t))
    BY <1>1, <1>2 DEF IsLN, EndedBy
  <2>2. ~IsLN(i)'
    BY DEF IsLN
  <2>. QED
    BY <1>0, <1>1, <2>1, <2>2 DEF Vers
<1>. QED
  BY <1>2, <1>3

\* What a crash leaves has the versions it had.
LEMMA VersTruncated ==
    ASSUME LogType, NEW n \in durable .. Len(log), log' = SubSeq(log, 1, n), NEW m \in 0 .. n
    PROVE  /\ \A t : EndedBy(t, m)' <=> EndedBy(t, m)
           /\ \A k : Vers(k, m)' = Vers(k, m)
           /\ \A l, k : IsCur(l, k, m)' <=> IsCur(l, k, m)
<1>0. n \in Nat /\ \A i \in 1 .. n : log'[i] = log[i]
  BY Truncated
<1>1. \A c \in 1 .. m : log'[c] = log[c]
  BY <1>0
<1>2. \A t : EndedBy(t, m)' <=> EndedBy(t, m)
  BY <1>1 DEF EndedBy
<1>3. ASSUME NEW k PROVE Vers(k, m)' = Vers(k, m)
  <2>1. ASSUME NEW l \in 1 .. m
        PROVE  (IsLN(l) /\ log[l].key = k /\ EndedBy(log[l].txn, m))'
                  <=> (IsLN(l) /\ log[l].key = k /\ EndedBy(log[l].txn, m))
    BY <1>1, <1>2 DEF IsLN, EndedBy
  <2>. QED
    BY <2>1 DEF Vers
<1>. QED
  BY <1>2, <1>3 DEF IsCur

LEMMA AtEnd ==
    ASSUME NEW i, Len(log') = i
    PROVE  /\ \A t : EndedBy(t, Len(log))' <=> EndedBy(t, i)'
           /\ \A k : Vers(k, Len(log))' = Vers(k, i)'
           /\ \A l, k : IsCur(l, k, Len(log))' <=> IsCur(l, k, i)'
<1>1. \A t : EndedBy(t, Len(log))' <=> EndedBy(t, i)'
  BY DEF EndedBy
<1>2. ASSUME NEW k PROVE Vers(k, Len(log))' = Vers(k, i)'
  <2>1. ASSUME NEW l PROVE EndedBy(log[l].txn, Len(log))' <=> EndedBy(log[l].txn, i)'
    BY DEF EndedBy
  <2>. QED
    BY <2>1 DEF Vers
<1>. QED
  BY <1>1, <1>2 DEF IsCur

-----------------------------------------------------------------------------
(* What the steps do to the log, to the tree and to the transactions *)

Adds(e) == Grown /\ Len(log') = Len(log) + 1 /\ log'[Len(log) + 1] = e

LEMMA Adding ==
    ASSUME LogType, NEW e, Append1(e)
    PROVE  Adds(e)
<1>1. log \in Seq(Entry \cup {e}) /\ e \in Entry \cup {e} /\ log' = Append(log, e) /\ Len(log) < MaxLog
  BY CleanerAssumption DEF LogType, Append1, Full
<1>2. Len(log') = Len(log) + 1 /\ log'[Len(log) + 1] = e /\ \A i \in 1 .. Len(log) : log'[i] = log[i]
  BY <1>1
<1>. QED
  BY <1>1, <1>2, CleanerAssumption DEF Adds, Grown, LogType

\* The LSN in the slot of a record that a transaction has written is locked.
LEMMA SlotLocked ==
    ASSUME CoreInv, NEW k \in Key, writer[k] # None
    PROVE  WriteLocked(k, slot[k])
<1>1. MemAt(k) /\ IsVersion(slot[k], k)
  BY DEF CoreInv, MemInv, SlotsInv
<1>2. slot[k] = before[k] \/ log[slot[k]].txn = writer[k]
  BY <1>1 DEF MemAt, Last
<1>3. log[slot[k]].txn = writer[k] => slot[k] \in OwnLns(k)
  BY <1>1 DEF IsVersion, Is, OwnLns, IsLN, KeyOf
<1>. QED
  BY <1>2, <1>3 DEF WriteLocked

\* A writer keeps its locks.
LEMMA LocksKept ==
    ASSUME Grown, NEW k, writer'[k] = writer[k], before'[k] = before[k], NEW l, WriteLocked(k, l)
    PROVE  WriteLocked(k, l)'
<1>1. ASSUME l \in OwnLns(k) PROVE (l \in OwnLns(k))'
  <2>1. l \in 1 .. Len(log) /\ IsLN(l) /\ KeyOf(l) = k /\ log[l].txn = writer[k]
    BY <1>1 DEF OwnLns
  <2>2. l \in 1 .. Len(log') /\ log'[l] = log[l]
    BY <2>1 DEF Grown
  <2>. QED
    BY <2>1, <2>2 DEF OwnLns, IsLN, KeyOf
<1>. QED
  BY <1>1 DEF WriteLocked

\* migrate_ln_slot: what each outcome tells.
LEMMA OutcomeIs ==
    ASSUME CoreInv, NEW l, NEW tl, KeyOf(l) \in Key
    PROVE  LET k == KeyOf(l)
           IN  /\ Outcome(l, tl) \in {"Locked", "Dead", "Migrated"}
               /\ Outcome(l, tl) = "Dead" => ~WriteLocked(k, tl) /\ (slot[k] # tl \/ tl # l)
               /\ Outcome(l, tl) = "Migrated" => slot[k] = l /\ tl = l /\ writer[k] = None
<1>1. Outcome(l, tl) = "Dead" => ~WriteLocked(KeyOf(l), tl) /\ (slot[KeyOf(l)] # tl \/ tl # l)
  BY Zenon DEF Outcome
<1>2. Outcome(l, tl) = "Migrated" =>
         ~WriteLocked(KeyOf(l), tl) /\ slot[KeyOf(l)] = tl /\ tl = l
  BY DEF Outcome
<1>3. Outcome(l, tl) \in {"Locked", "Dead", "Migrated"}
  BY DEF Outcome
<1>. QED
  BY <1>1, <1>2, <1>3, SlotLocked

\* The LN in the slot of a record that no transaction has written is moved.
Moved(l) ==
    /\ Is(l, "LN") /\ KeyOf(l) \in Key /\ slot[KeyOf(l)] = l /\ writer[KeyOf(l)] = None
    /\ Adds([type |-> "LN", key |-> KeyOf(l), txn |-> None, abort |-> l, val |-> log[l].val])
    /\ slot' = [slot EXCEPT ![KeyOf(l)] = Len(log) + 1]
    /\ (dirty' = TRUE) /\ root' = root /\ durable' = durable /\ gone' = gone

\* The agents' steps that try to move an LN.
LEMMA MigratedIs ==
    ASSUME TypeInv, CoreInv, NEW l, Is(l, "LN"), NEW tl, Migrated(l, Outcome(l, tl)),
           durable' = durable, gone' = gone
    PROVE  LET k == KeyOf(l)
           IN  /\ k \in Key
               /\ Outcome(l, tl) \in {"Locked", "Dead"} =>
                     log' = log /\ slot' = slot /\ dirty' = dirty /\ root' = root
               /\ Outcome(l, tl) \notin {"Locked", "Dead"} => Moved(l)
<1>0. LogType
  BY Parts
<1>1. KeyOf(l) \in Key
  BY <1>0, EntryIs DEF Is, KeyOf
<1>2. Outcome(l, tl) \in {"Locked", "Dead"} => UNCHANGED <<log, treeVars>>
  BY DEF Migrated
<1>3. ASSUME Outcome(l, tl) \notin {"Locked", "Dead"} PROVE Moved(l)
  <2>1. Outcome(l, tl) = "Migrated"
    BY <1>1, <1>3, OutcomeIs
  <2>2. slot[KeyOf(l)] = l /\ writer[KeyOf(l)] = None
    BY <1>1, <2>1, OutcomeIs
  <2>3. Migrate(l)
    BY <2>1 DEF Migrated
  <2>4. Adds([type |-> "LN", key |-> KeyOf(l), txn |-> None, abort |-> l, val |-> log[l].val])
    BY <1>0, <2>3, Adding DEF Migrate
  <2>. QED
    BY <1>1, <2>2, <2>3, <2>4 DEF Moved, Migrate, End
<1>. QED
  BY <1>1, <1>2, <1>3 DEF treeVars

\* Steps that move no version and end no transaction.
QuietLog == \/ log' = log
            \/ \E e : Adds(e) /\ e.type \in {"CkptStart", "BIN", "CkptEnd"}
Quiet == UNCHANGED <<slot, txn, writer, before, unpub>> /\ QuietLog

LEMMA MemSteps ==
    ASSUME TypeInv, CoreInv, Next
    PROVE  \/ \E t \in Txn, k \in Key : Write(t, k)
           \/ \E k \in Key : Publish(k)
           \/ \E t \in Txn : Abort(t) \/ \E sync \in BOOLEAN : Commit(t, sync)
           \/ \E l : Moved(l) /\ UNCHANGED txnVars
           \/ Quiet
           \/ \E n \in durable .. Len(log) : Crash(n)
<1>0. LogType /\ LookType
  BY Parts
<1>1. ASSUME NEW a \in Agent, PendingRetry(a)
      PROVE  Quiet \/ \E l : Moved(l) /\ UNCHANGED txnVars
  <2>1. /\ Is(at[a], "LN") /\ Migrated(at[a], Outcome(at[a], tree[a]))
        /\ durable' = durable /\ gone' = gone /\ UNCHANGED txnVars
    BY <1>0, <1>1 DEF PendingRetry, LookType
  <2>2. (log' = log /\ slot' = slot) \/ Moved(at[a])
    BY <2>1, MigratedIs
  <2>. QED
    BY <2>1, <2>2 DEF Quiet, QuietLog, txnVars
<1>2. ASSUME CleanLn
      PROVE  Quiet \/ \E l : Moved(l) /\ UNCHANGED txnVars
  <2>1. /\ Is(at["cleaner"], "LN") /\ Migrated(at["cleaner"], Outcome(at["cleaner"], tree["cleaner"]))
        /\ durable' = durable /\ gone' = gone /\ UNCHANGED txnVars
    BY <1>0, <1>2, AgentsAre DEF CleanLn, LookType
  <2>2. (log' = log /\ slot' = slot) \/ Moved(at["cleaner"])
    BY <2>1, MigratedIs
  <2>. QED
    BY <2>1, <2>2 DEF Quiet, QuietLog, txnVars
<1>3. ASSUME NEW a \in Agent, NEW l, PendingLookup(a, l) PROVE Quiet
  BY <1>3 DEF PendingLookup, Quiet, QuietLog, logVars, treeVars, txnVars
<1>4. ASSUME \/ CleanStart \/ (\E f \in File : CleanSelect(f)) \/ CleanNothing \/ CleanScan
             \/ CleanLookup \/ CleanEnd \/ DeleteSafe \/ CleanDone
             \/ CkptBegin \/ CkptSnapshot \/ CkptAfter \/ CkptFails
      PROVE  Quiet
  BY <1>4 DEF CleanStart, CleanSelect, CleanNothing, CleanScan, CleanLookup, CleanEnd, DeleteSafe,
     CleanDone, CkptBegin, CkptSnapshot, CkptAfter, CkptFails, Quiet, QuietLog, logVars, treeVars, txnVars
<1>5. CASE CkptStart
  <2>1. Adds([type |-> "CkptStart"]) /\ UNCHANGED treeVars /\ UNCHANGED txnVars
    BY <1>0, <1>5, Adding DEF CkptStart
  <2>. QED
    BY <2>1 DEF Quiet, QuietLog, treeVars, txnVars
<1>6. CASE CkptFlush
  <2>1. log' = log \/ Adds([type |-> "BIN", slots |-> slot])
    BY <1>0, <1>6, Adding DEF CkptFlush
  <2>2. slot' = slot /\ UNCHANGED txnVars
    BY <1>6 DEF CkptFlush
  <2>. QED
    BY <2>1, <2>2 DEF Quiet, QuietLog, txnVars
<1>7. CASE CkptEnd
  <2>1. Adds([type |-> "CkptEnd", start |-> start, root |-> root]) /\ UNCHANGED treeVars /\ UNCHANGED txnVars
    BY <1>0, <1>7, Adding DEF CkptEnd
  <2>. QED
    BY <2>1 DEF Quiet, QuietLog, treeVars, txnVars
<1>. QED
  BY <1>1, <1>2, <1>3, <1>4, <1>5, <1>6, <1>7 DEF Next

-----------------------------------------------------------------------------
(* Versions and their writers *)

LEMMA NewIs ==
    ASSUME LogType, NEW e, Adds(e), NEW i, i = Len(log) + 1
    PROVE  /\ Grown /\ Len(log') = i /\ log'[i] = e /\ i \in Nat \ {0} /\ i \notin 1 .. Len(log)
           /\ \A j \in 1 .. i : j = i \/ j \in 1 .. Len(log)
           /\ \A j \in 1 .. Len(log) : j \in 1 .. i /\ log'[j] = log[j] /\ (IsLN(j)' <=> IsLN(j))
                                       /\ j - 1 \in 0 .. Len(log)
BY LenIs DEF Adds, Grown, IsLN

LEMMA AbortKept ==
    ASSUME LogType, AbortInv, NEW e, Adds(e),
           e.type = "LN" => e.abort # None /\ IsCur(e.abort, e.key, Len(log))
    PROVE  AbortInv'
<1>1. PICK i : i = Len(log) + 1
  OBVIOUS
<1>2. /\ Grown /\ Len(log') = i /\ log'[i] = e /\ i \in Nat \ {0}
      /\ \A j \in 1 .. i : j = i \/ j \in 1 .. Len(log)
      /\ \A j \in 1 .. Len(log) : log'[j] = log[j] /\ (IsLN(j)' <=> IsLN(j)) /\ j - 1 \in 0 .. Len(log)
  BY <1>1, NewIs
<1>3. ASSUME NEW j \in 1 .. i, IsLN(j)'
      PROVE  /\ log'[j].abort = None => Vers(log[j].key, j - 1)' = {}
             /\ log'[j].abort # None => IsCur(log[j].abort, log[j].key, j - 1)'
  <2>1. CASE j \in 1 .. Len(log)
    <3>1. PICK k, l, n : k = log[j].key /\ l = log[j].abort /\ n = j - 1
      OBVIOUS
    <3>2. n \in 0 .. Len(log) /\ (l = None => Vers(k, n) = {}) /\ (l # None => IsCur(l, k, n))
      BY <1>2, <1>3, <2>1, <3>1 DEF AbortInv
    <3>3. Vers(k, n)' = Vers(k, n) /\ (IsCur(l, k, n)' <=> IsCur(l, k, n))
      BY <1>2, <3>2, VersGrown
    <3>4. (l = None => Vers(k, n)' = {}) /\ (l # None => IsCur(l, k, n)')
      BY <3>2, <3>3
    <3>5. log'[j] = log[j]
      BY <1>2, <2>1
    <3>. QED
      BY <3>1, <3>4, <3>5
  <2>2. CASE j = i
    <3>1. PICK k, l, n : k = e.key /\ l = e.abort /\ n = Len(log)
      OBVIOUS
    <3>2. l # None /\ IsCur(l, k, n) /\ n \in 0 .. Len(log) /\ n = i - 1
      BY <1>1, <1>2, <1>3, <2>2, <3>1, LenIs DEF IsLN
    <3>3. IsCur(l, k, n)'
      BY <1>2, <3>2, VersGrown
    <3>. QED
      BY <1>2, <2>2, <3>1, <3>2, <3>3
  <2>. QED
    BY <1>2, <2>1, <2>2
<1>. QED
  BY <1>2, <1>3 DEF AbortInv

LEMMA AbortSame ==
    ASSUME LogType, AbortInv, log' = log
    PROVE  AbortInv'
<1>1. Grown /\ Len(log') = Len(log)
  BY SameLog
<1>2. ASSUME NEW j \in 1 .. Len(log), IsLN(j)'
      PROVE  /\ log'[j].abort = None => Vers(log[j].key, j - 1)' = {}
             /\ log'[j].abort # None => IsCur(log[j].abort, log[j].key, j - 1)'
  <2>1. PICK k, l, n : k = log[j].key /\ l = log[j].abort /\ n = j - 1
    OBVIOUS
  <2>2. n \in 0 .. Len(log) /\ IsLN(j)
    BY <1>2, <2>1, LenIs DEF IsLN
  <2>3. (l = None => Vers(k, n) = {}) /\ (l # None => IsCur(l, k, n))
    BY <2>1, <2>2 DEF AbortInv
  <2>4. (l = None => Vers(k, n)' = {}) /\ (l # None => IsCur(l, k, n)')
    BY <1>1, <2>2, <2>3, VersGrown
  <2>. QED
    BY <2>1, <2>4
<1>. QED
  BY <1>1, <1>2 DEF AbortInv

LEMMA OrderKept ==
    ASSUME LogType, OrderInv, NEW e, Adds(e), e.type # "Commit"
    PROVE  OrderInv'
<1>1. PICK i : i = Len(log) + 1
  OBVIOUS
<1>2. /\ Grown /\ Len(log') = i /\ log'[i] = e /\ i \in Nat \ {0}
      /\ \A j \in 1 .. i : j = i \/ j \in 1 .. Len(log)
      /\ \A j \in 1 .. Len(log) : log'[j] = log[j] /\ (IsLN(j)' <=> IsLN(j)) /\ j - 1 \in 0 .. Len(log)
  BY <1>1, NewIs
<1>3. \A t : EndedBy(t, i)' <=> EndedBy(t, Len(log))
  BY <1>1, <1>2, VersAppended
<1>4. ASSUME NEW j \in 1 .. i, IsLN(j)', NEW x \in 1 .. j - 1,
             IsVersion(x, log[j].key)', EndedBy(log[x].txn, i)', log'[x].txn # log'[j].txn
      PROVE  EndedBy(log[x].txn, j - 1)'
  <2>0. x \in 1 .. Len(log) /\ log'[x] = log[x]
    BY <1>1, <1>2, LenIs
  <2>1. PICK t, n : t = log[x].txn /\ n = j - 1
    OBVIOUS
  <2>2. EndedBy(t, i)'
    BY <1>4, <2>0, <2>1 DEF EndedBy
  <2>3. EndedBy(t, Len(log)) /\ n \in 0 .. Len(log)
    BY <1>1, <1>2, <1>3, <2>1, <2>2, LenIs
  <2>4. EndedBy(t, n)
    <3>1. CASE j \in 1 .. Len(log)
      <4>1. IsVersion(x, log[j].key) /\ IsLN(j) /\ t # log[j].txn
        BY <1>2, <1>4, <2>0, <2>1, <3>1 DEF IsVersion, Is, IsLN
      <4>. QED
        BY <2>0, <2>1, <2>3, <3>1, <4>1 DEF OrderInv
    <3>2. CASE j = i
      <4>1. n = Len(log)
        BY <1>1, <2>1, <3>2, LenIs
      <4>. QED
        BY <2>3, <4>1
    <3>. QED
      BY <1>2, <3>1, <3>2
  <2>5. EndedBy(t, n)'
    BY <1>2, <2>3, <2>4, VersGrown
  <2>. QED
    BY <2>0, <2>1, <2>5 DEF EndedBy
<1>. QED
  BY <1>2, <1>4 DEF OrderInv

LEMMA OrderSame ==
    ASSUME LogType, OrderInv, log' = log
    PROVE  OrderInv'
<1>1. \A j : IsLN(j)' <=> IsLN(j)
  BY DEF IsLN
<1>2. \A x, k : IsVersion(x, k)' <=> IsVersion(x, k)
  BY <1>1 DEF IsVersion, Is, IsLN
<1>3. \A t, n : EndedBy(t, n)' <=> EndedBy(t, n)
  BY DEF EndedBy
<1>. QED
  BY <1>1, <1>2, <1>3 DEF OrderInv

\* A record that a step does not touch.
LEMMA MemAtKept ==
    ASSUME LogType, Grown, NEW k \in Key, MemAt(k), IsVersion(slot[k], k),
           slot'[k] = slot[k], writer'[k] = writer[k], before'[k] = before[k], unpub'[k] = unpub[k],
           Vers(k, Len(log))' = Vers(k, Len(log)),
           \A y \in 1 .. Len(log') : y \in 1 .. Len(log) \/ ~(log'[y].type = "LN" /\ log'[y].key = k),
           writer[k] # None => txn'[writer[k]] = "active"
    PROVE  MemAt(k)'
<1>1. \A x : IsCur(x, k, Len(log))' <=> IsCur(x, k, Len(log))
  BY DEF IsCur
<1>2. PICK s, b, m : s = slot[k] /\ b = before[k] /\ m = Last(k)
  OBVIOUS
<1>3. slot'[k] = s /\ before'[k] = b /\ Last(k)' = m
  BY <1>2 DEF Last
<1>4. CASE writer[k] = None
  BY <1>1, <1>2, <1>3, <1>4 DEF MemAt, IsCur
<1>5. CASE writer[k] # None
  <2>1. /\ IsCur(b, k, Len(log)) /\ IsVersion(m, k) /\ log[m].txn = writer[k]
        /\ \A y \in 1 .. Len(log) : IsVersion(y, k) => y <= m
        /\ unpub[k] # None => s = b \/ log[s].txn = writer[k]
        /\ unpub[k] # None => \A y \in 1 .. Len(log) :
              IsVersion(y, k) /\ log[y].txn = writer[k] => y <= s \/ y = unpub[k]
    BY <1>2, <1>5 DEF MemAt
  <2>2. IsCur(b, k, Len(log))'
    BY <1>1, <2>1
  <2>3. m \in 1 .. Len(log) /\ log'[m] = log[m] /\ m \in 1 .. Len(log')
    BY <2>1 DEF IsVersion, Is, Grown
  <2>4. IsVersion(m, k)' /\ log'[m].txn = writer'[k]
    BY <2>1, <2>3 DEF IsVersion, Is
  <2>5. \A y \in 1 .. Len(log') : IsVersion(y, k)' => y <= m /\ y \in 1 .. Len(log) /\ IsVersion(y, k) /\ log'[y] = log[y]
    BY <2>1 DEF IsVersion, Is, Grown
  <2>6. unpub[k] # None => s = b \/ log'[s].txn = writer[k]
    BY <1>2, <2>1 DEF IsVersion, Is, Grown
  <2>7. unpub[k] # None => \A y \in 1 .. Len(log') : IsVersion(y, k)' /\ log'[y].txn = writer[k] => y <= s \/ y = unpub[k]
    BY <2>1, <2>5
  <2>. QED
    BY <1>3, <1>5, <2>1, <2>2, <2>4, <2>5, <2>6, <2>7 DEF MemAt, IsCur, IsVersion, Is
<1>. QED
  BY <1>4, <1>5

LEMMA SlotsKept ==
    ASSUME Grown, SlotsInv, root' # None,
           \A k \in Key : slot'[k] = slot[k] \/ \E l : slot'[k] = l /\ IsVersion(l, k)'
    PROVE  SlotsInv'
<1>1. ASSUME NEW k \in Key PROVE IsVersion(slot[k], k)'
  <2>1. CASE slot'[k] = slot[k]
    BY <2>1 DEF SlotsInv, IsVersion, Is, Grown
  <2>2. CASE slot'[k] # slot[k]
    BY <2>2 DEF IsVersion, Is
  <2>. QED
    BY <2>1, <2>2
<1>. QED
  BY <1>1 DEF SlotsInv

LEMMA NotEnded ==
    ASSUME DoneInv, NEW t \in Txn, txn[t] # "done"
    PROVE  ~EndedBy(t, Len(log))
BY CleanerAssumption DEF DoneInv, EndedBy, None

\* No entry that a step adds comes between an open transaction and its records.
LEMMA OwnerKept ==
    ASSUME LogType, OwnerInv, Grown, NEW j \in 1 .. Len(log), IsLN(j), log[j].txn # None,
           txn[log[j].txn] = "active",
           \A y \in 1 .. Len(log') : \/ y \in 1 .. Len(log) \/ log'[y].txn = log[j].txn
                                     \/ ~(log'[y].type = "LN" /\ log'[y].key = log[j].key)
    PROVE  /\ writer[log[j].key] = log[j].txn
           /\ \A y \in j .. Len(log') : IsVersion(y, log[j].key)' => log'[y].txn = log'[j].txn
<1>1. Len(log) \in Nat /\ Len(log') \in Nat /\ log'[j] = log[j]
  BY DEF Grown
<1>2. /\ writer[log[j].key] = log[j].txn
      /\ \A y \in j .. Len(log) : IsVersion(y, log[j].key) => log[y].txn = log[j].txn
  BY DEF OwnerInv
<1>3. ASSUME NEW y \in j .. Len(log'), IsVersion(y, log[j].key)' PROVE log'[y].txn = log[j].txn
  <2>1. y \in 1 .. Len(log') /\ log'[y].type = "LN" /\ log'[y].key = log[j].key
    BY <1>1, <1>3 DEF IsVersion, Is
  <2>2. CASE y \in 1 .. Len(log)
    <3>1. log'[y] = log[y] /\ y \in j .. Len(log)
      BY <1>1, <1>3, <2>2 DEF Grown
    <3>2. IsVersion(y, log[j].key)
      BY <2>1, <2>2, <3>1 DEF IsVersion, Is
    <3>. QED
      BY <1>2, <3>1, <3>2
  <2>. QED
    BY <2>1, <2>2
<1>. QED
  BY <1>1, <1>2, <1>3

LEMMA WriteCore ==
    ASSUME TypeInv, CoreInv, NEW t \in Txn, NEW k \in Key, Write(t, k)
    PROVE  CoreInv'
<1>0. LogType /\ TreeType /\ TxnType
  BY Parts
<1> DEFINE e == [type |-> "LN", key |-> k, txn |-> t, abort |-> AbortLsn(t, k), val |-> End]
<1>1. /\ Adds(e) /\ txn[t] \in {"idle", "active"} /\ writer[k] \in {None, t}
      /\ (writer[k] = t => unpub[k] = None)
      /\ slot' = slot /\ root' = root
      /\ txn' = [txn EXCEPT ![t] = "active"] /\ writer' = [writer EXCEPT ![k] = t]
      /\ before' = [before EXCEPT ![k] = AbortLsn(t, k)] /\ unpub' = [unpub EXCEPT ![k] = End]
  BY <1>0, Adding DEF Write, treeVars
<1>2. PICK i : i = Len(log) + 1
  OBVIOUS
<1>3. /\ Grown /\ Len(log') = i /\ log'[i] = e /\ i \in Nat \ {0} /\ i \notin 1 .. Len(log)
      /\ \A j \in 1 .. i : j = i \/ j \in 1 .. Len(log)
      /\ \A j \in 1 .. Len(log) : j \in 1 .. i /\ log'[j] = log[j] /\ (IsLN(j)' <=> IsLN(j))
  BY <1>0, <1>1, <1>2, NewIs
<1>a. PICK a : a = AbortLsn(t, k)
  OBVIOUS
<1>4. /\ e.type = "LN" /\ e.key = k /\ e.txn = t /\ e.abort = AbortLsn(t, k) /\ t # None
      /\ t \in Txn
  BY CleanerAssumption DEF None
<1>. HIDE DEF e
<1>5. /\ IsCur(a, k, Len(log)) /\ a # None
      /\ writer[k] = None => a = slot[k]
  <2>1. /\ writer[k] = None => IsCur(slot[k], k, Len(log)) /\ a = slot[k]
        /\ writer[k] = t => IsCur(before[k], k, Len(log)) /\ a = before[k]
    BY <1>4, <1>a DEF CoreInv, MemInv, MemAt, AbortLsn
  <2>2. IsCur(a, k, Len(log))
    BY <1>1, <2>1
  <2>. QED
    BY <2>1, <2>2 DEF IsCur, Vers, None
<1>6. ~EndedBy(t, Len(log))
  BY <1>1, NotEnded DEF CoreInv
<1>7. \A j : Vers(j, Len(log))' = Vers(j, Len(log))
  <2>1. \A j : Vers(j, i)' = Vers(j, Len(log)) \cup
                 {l \in {i} : log'[i].type = "LN" /\ log'[i].key = j /\ EndedBy(log'[i].txn, Len(log))}
    BY <1>0, <1>2, <1>3, <1>4, VersAppended
  <2>2. \A j : Vers(j, i)' = Vers(j, Len(log))
    BY <1>3, <1>4, <1>6, <2>1
  <2>. QED
    BY <1>3, <2>2, AtEnd
<1>8. AbortInv' /\ OrderInv'
  <2>1. e.type = "LN" => e.abort # None /\ IsCur(e.abort, e.key, Len(log))
    BY <1>4, <1>5, <1>a
  <2>. QED
    BY <1>0, <1>1, <1>4, <2>1, AbortKept, OrderKept DEF CoreInv
<1>9. /\ writer'[k] = t /\ before'[k] = a /\ unpub'[k] = i /\ txn'[t] = "active"
      /\ \A j \in Key : j # k => writer'[j] = writer[j] /\ before'[j] = before[j] /\ unpub'[j] = unpub[j]
      /\ \A u \in Txn : u # t => txn'[u] = txn[u]
  BY <1>0, <1>1, <1>2, <1>a DEF TxnType, End
<1>10. OwnerInv'
  <2>. SUFFICES ASSUME NEW j \in 1 .. i, IsLN(j)', log'[j].txn # None
                PROVE  /\ txn'[log'[j].txn] # "idle"
                       /\ txn'[log'[j].txn] = "active" =>
                             /\ writer'[log'[j].key] = log'[j].txn
                             /\ \A y \in j .. i : IsVersion(y, log[j].key)' => log'[y].txn = log'[j].txn
    BY <1>3 DEF OwnerInv
  <2>1. CASE j = i
    <3>1. \A y \in i .. i : y = i
      BY <1>3
    <3>. QED
      BY <1>3, <1>4, <1>9, <2>1, <3>1
  <2>2. CASE j \in 1 .. Len(log)
    <3>1. PICK u, x : u = log[j].txn /\ x = log[j].key
      OBVIOUS
    <3>2. u \in Txn /\ x \in Key /\ log'[j].txn = u /\ log'[j].key = x /\ u # None
      BY <1>0, <1>3, <2>2, <3>1, EntryIs DEF IsLN
    <3>3. txn[u] # "idle" /\ (txn[u] = "active" => writer[x] = u)
      BY <1>3, <2>2, <3>1, <3>2 DEF CoreInv, OwnerInv
    <3>4. txn'[u] # "idle" /\ (txn'[u] = "active" => txn[u] = "active")
      BY <1>1, <1>9, <3>2, <3>3
    <3>5. ASSUME txn[u] = "active" PROVE x = k => u = t
      BY <1>1, <3>2, <3>3, <3>5
    <3>6. ASSUME txn[u] = "active"
          PROVE  \A y \in j .. i : IsVersion(y, log[j].key)' => log'[y].txn = log'[j].txn
      <4>1. \A y \in 1 .. Len(log') : \/ y \in 1 .. Len(log) \/ log'[y].txn = log[j].txn
                                      \/ ~(log'[y].type = "LN" /\ log'[y].key = log[j].key)
        BY <1>3, <1>4, <3>1, <3>5, <3>6
      <4>. QED
        BY <1>0, <1>3, <2>2, <3>1, <3>2, <3>6, <4>1, OwnerKept DEF CoreInv
    <3>7. txn[u] = "active" => writer'[x] = u
      BY <1>9, <3>2, <3>3, <3>5
    <3>. QED
      BY <3>2, <3>4, <3>6, <3>7
  <2>. QED
    BY <1>3, <2>1, <2>2
<1>11. DoneInv'
  <2>. SUFFICES ASSUME NEW c \in 1 .. i, log'[c].type = "Commit" PROVE txn'[log'[c].txn] = "done"
    BY <1>3 DEF DoneInv
  <2>1. c \in 1 .. Len(log) /\ log[c].type = "Commit" /\ log'[c] = log[c] /\ log[c].txn \in Txn
    BY <1>0, <1>3, <1>4, EntryIs
  <2>2. txn[log[c].txn] = "done"
    BY <2>1 DEF CoreInv, DoneInv
  <2>. QED
    BY <1>1, <1>9, <2>1, <2>2
<1>12. MemInv'
  <2>1. ASSUME NEW j \in Key, j # k PROVE MemAt(j)'
    <3>1. MemAt(j) /\ IsVersion(slot[j], j)
      BY DEF CoreInv, MemInv, SlotsInv
    <3>2. slot'[j] = slot[j] /\ writer'[j] = writer[j] /\ before'[j] = before[j] /\ unpub'[j] = unpub[j]
      BY <1>1, <1>9, <2>1
    <3>3. writer[j] # None => txn'[writer[j]] = "active"
      <4>1. writer[j] # None => writer[j] \in Txn /\ txn[writer[j]] = "active"
        BY <1>0, <3>1 DEF MemAt, TxnType
      <4>. QED
        BY <1>9, <4>1
    <3>4. \A y \in 1 .. Len(log') : y \in 1 .. Len(log) \/ ~(log'[y].type = "LN" /\ log'[y].key = j)
      BY <1>3, <1>4, <2>1
    <3>5. Vers(j, Len(log))' = Vers(j, Len(log))
      BY <1>7
    <3>. QED
      BY <1>0, <1>3, <3>1, <3>2, <3>3, <3>4, <3>5, MemAtKept
  <2>2. MemAt(k)'
    <3>1. PICK s : s = slot[k]
      OBVIOUS
    <3>2. IsCur(a, k, Len(log))'
      BY <1>5, <1>7 DEF IsCur
    <3>3. Last(k)' = i
      BY <1>3, <1>9 DEF Last, None
    <3>4. IsVersion(i, k)' /\ log'[i].txn = t
      BY <1>3, <1>4 DEF IsVersion, Is
    <3>5. before'[k] = a /\ slot'[k] = s /\ unpub'[k] = i /\ i # None /\ writer'[k] = t /\ txn'[t] = "active"
      BY <1>1, <1>3, <1>9, <3>1 DEF None
    <3>6. \A y \in 1 .. i : y <= i
      BY <1>3
    <3>7. /\ writer[k] = t => log[s].txn = t /\ IsVersion(s, k)
          /\ writer[k] = t => \A y \in 1 .. Len(log) : IsVersion(y, k) => y <= s
      BY <1>1, <1>4, <3>1 DEF CoreInv, MemInv, MemAt, Last
    <3>8. s = a \/ log'[s].txn = t
      BY <1>1, <1>3, <1>5, <3>1, <3>7 DEF IsVersion, Is
    <3>9. ASSUME NEW y \in 1 .. i, IsVersion(y, k)', log'[y].txn = t PROVE y <= s \/ y = i
      <4>1. CASE y \in 1 .. Len(log)
        <5>1. IsVersion(y, k) /\ IsLN(y) /\ log[y].txn = t /\ log[y].key = k
          BY <1>3, <3>9, <4>1 DEF IsVersion, Is, IsLN
        <5>2. writer[k] = t
          BY <1>1, <1>4, <4>1, <5>1 DEF CoreInv, OwnerInv
        <5>. QED
          BY <3>7, <4>1, <5>1, <5>2
      <4>. QED
        BY <1>3, <4>1
    <3>. QED
      BY <1>3, <1>4, <3>2, <3>3, <3>4, <3>5, <3>6, <3>8, <3>9 DEF MemAt, IsCur, IsVersion, Is
  <2>. QED
    BY <2>1, <2>2 DEF MemInv
<1>13. SlotsInv'
  BY <1>1, <1>3, SlotsKept DEF CoreInv, SlotsInv
<1>. QED
  BY <1>8, <1>10, <1>11, <1>12, <1>13 DEF CoreInv

LEMMA PublishCore ==
    ASSUME TypeInv, CoreInv, NEW k \in Key, Publish(k)
    PROVE  CoreInv'
<1>0. LogType /\ TreeType /\ TxnType
  BY Parts
<1>1. /\ unpub[k] # None /\ log' = log /\ root' = root /\ txn' = txn /\ writer' = writer /\ before' = before
      /\ slot' = [slot EXCEPT ![k] = unpub[k]] /\ unpub' = [unpub EXCEPT ![k] = None]
  BY DEF Publish, logVars
<1>2. /\ slot'[k] = unpub[k] /\ unpub'[k] = None
      /\ \A j \in Key : j # k => slot'[j] = slot[j] /\ unpub'[j] = unpub[j]
  BY <1>0, <1>1 DEF TreeType, TxnType
<1>3. writer[k] # None /\ MemAt(k)
  BY <1>1 DEF CoreInv, MemInv, MemAt
<1>4. \A j \in Key : Last(j)' = Last(j)
  BY <1>1, <1>2 DEF Last
<1>5. Grown /\ Len(log') = Len(log) /\ \A j : Vers(j, Len(log))' = Vers(j, Len(log))
  BY <1>0, <1>1, SameLog DEF Vers, EndedBy, IsLN
<1>6. AbortInv' /\ OrderInv'
  BY <1>0, <1>1, AbortSame, OrderSame DEF CoreInv
<1>7. OwnerInv' /\ DoneInv'
  <2>1. DoneInv'
    BY <1>1 DEF CoreInv, DoneInv
  <2>4. OwnerInv'
    BY <1>1 DEF CoreInv, OwnerInv, IsLN, IsVersion, Is
  <2>. QED
    BY <2>1, <2>4
<1>8. MemInv'
  <2>1. ASSUME NEW j \in Key, j # k PROVE MemAt(j)'
    <3>1. MemAt(j) /\ IsVersion(slot[j], j)
      BY DEF CoreInv, MemInv, SlotsInv
    <3>2. slot'[j] = slot[j] /\ writer'[j] = writer[j] /\ before'[j] = before[j] /\ unpub'[j] = unpub[j]
      BY <1>1, <1>2, <2>1
    <3>3. writer[j] # None => txn'[writer[j]] = "active"
      BY <1>1, <3>1 DEF MemAt
    <3>4. \A y \in 1 .. Len(log') : y \in 1 .. Len(log) \/ ~(log'[y].type = "LN" /\ log'[y].key = j)
      BY <1>5
    <3>5. Vers(j, Len(log))' = Vers(j, Len(log))
      BY <1>5
    <3>. QED
      BY <1>0, <1>5, <3>1, <3>2, <3>3, <3>4, <3>5, MemAtKept
  <2>2. MemAt(k)'
    <3>1. PICK b, m : b = before[k] /\ m = Last(k)
      OBVIOUS
    <3>2. /\ txn[writer[k]] = "active" /\ IsCur(b, k, Len(log)) /\ IsVersion(m, k) /\ log[m].txn = writer[k]
          /\ \A y \in 1 .. Len(log) : IsVersion(y, k) => y <= m
      BY <1>3, <3>1 DEF MemAt
    <3>3. IsCur(b, k, Len(log))' /\ IsVersion(m, k)' /\ \A y : IsVersion(y, k)' <=> IsVersion(y, k)
      BY <1>1, <1>5, <3>2 DEF IsCur, IsVersion, Is
    <3>4. Last(k)' = m /\ before'[k] = b
      BY <1>1, <1>4, <3>1
    <3>. QED
      BY <1>1, <1>2, <1>3, <3>2, <3>3, <3>4 DEF MemAt, IsCur, IsVersion, Is
  <2>. QED
    BY <2>1, <2>2 DEF MemInv
<1>9. SlotsInv'
  <2>1. IsVersion(unpub[k], k)
    BY <1>1, <1>3 DEF MemAt, Last
  <2>2. \E l : slot'[k] = l /\ IsVersion(l, k)'
    BY <1>1, <1>2, <2>1 DEF IsVersion, Is
  <2>3. \A j \in Key : slot'[j] = slot[j] \/ \E l : slot'[j] = l /\ IsVersion(l, j)'
    BY <1>2, <2>2
  <2>. QED
    BY <1>1, <1>5, <2>3, SlotsKept DEF CoreInv, SlotsInv
<1>. QED
  BY <1>6, <1>7, <1>8, <1>9 DEF CoreInv

\* What the end of a transaction leaves of the others.
LEMMA ReleasedIs ==
    ASSUME TxnType, NEW t \in Txn, Released(t)
    PROVE  /\ txn'[t] = "done" /\ unpub' = unpub
           /\ \A u \in Txn : u # t => txn'[u] = txn[u]
           /\ \A k \in Key : writer[k] = t => writer'[k] = None /\ before'[k] = None
           /\ \A k \in Key : writer[k] # t => writer'[k] = writer[k] /\ before'[k] = before[k]
BY DEF TxnType, Released

LEMMA ReleasedOwner ==
    ASSUME TypeInv, CoreInv, NEW t \in Txn, Released(t), NEW e, Adds(e), e.type # "LN",
           e.type = "Commit" => e.txn = t,
           \A k \in Key : writer[k] # t => slot'[k] = slot[k]
    PROVE  OwnerInv' /\ DoneInv'
<1>0. LogType /\ TreeType /\ TxnType
  BY Parts
<1>1. PICK i : i = Len(log) + 1
  OBVIOUS
<1>2. /\ Grown /\ Len(log') = i /\ log'[i] = e /\ i \in Nat \ {0} /\ i \notin 1 .. Len(log)
      /\ \A j \in 1 .. i : j = i \/ j \in 1 .. Len(log)
      /\ \A j \in 1 .. Len(log) : j \in 1 .. i /\ log'[j] = log[j] /\ (IsLN(j)' <=> IsLN(j))
  BY <1>0, <1>1, NewIs
<1>3. /\ txn'[t] = "done" /\ unpub' = unpub
      /\ \A u \in Txn : u # t => txn'[u] = txn[u]
      /\ \A k \in Key : writer[k] # t => writer'[k] = writer[k] /\ before'[k] = before[k]
  BY <1>0, ReleasedIs
<1>4. ASSUME NEW j \in 1 .. i, IsLN(j)', log'[j].txn # None
      PROVE  /\ txn'[log'[j].txn] # "idle"
             /\ txn'[log'[j].txn] = "active" =>
                   /\ writer'[log'[j].key] = log'[j].txn
                   /\ \A y \in j .. i : IsVersion(y, log[j].key)' => log'[y].txn = log'[j].txn
  <2>1. j \in 1 .. Len(log)
    BY <1>2, <1>4 DEF IsLN
  <2>2. PICK u, x : u = log[j].txn /\ x = log[j].key
    OBVIOUS
  <2>3. u \in Txn /\ x \in Key /\ log'[j].txn = u /\ log'[j].key = x
    BY <1>0, <1>2, <1>4, <2>1, <2>2, EntryIs DEF IsLN
  <2>4. txn[u] # "idle" /\ (txn[u] = "active" => writer[x] = u)
    BY <1>2, <1>4, <2>1, <2>2, <2>3 DEF CoreInv, OwnerInv
  <2>5. CASE u = t
    BY <1>3, <2>3, <2>5
  <2>6. CASE u # t
    <3>1. txn'[u] = txn[u]
      BY <1>3, <2>3, <2>6
    <3>2. txn[u] = "active" => writer'[x] = u
      BY <1>3, <2>3, <2>4, <2>6
    <3>3. ASSUME txn[u] = "active"
          PROVE  \A y \in j .. i : IsVersion(y, log[j].key)' => log'[y].txn = log'[j].txn
      <4>1. \A y \in 1 .. Len(log') : y \in 1 .. Len(log) \/ log'[y].type # "LN"
        BY <1>2
      <4>2. IsLN(j) /\ log[j].txn # None
        BY <1>2, <1>4, <2>1
      <4>. QED
        BY <1>0, <1>2, <2>1, <2>2, <3>3, <4>1, <4>2, OwnerKept DEF CoreInv
    <3>. QED
      BY <2>3, <2>4, <3>1, <3>2, <3>3
  <2>. QED
    BY <2>5, <2>6
<1>5. ASSUME NEW c \in 1 .. i, log'[c].type = "Commit" PROVE txn'[log'[c].txn] = "done"
  <2>1. CASE c = i
    BY <1>2, <1>3, <1>5, <2>1
  <2>2. CASE c \in 1 .. Len(log)
    <3>1. log[c].type = "Commit" /\ log'[c] = log[c] /\ log[c].txn \in Txn
      BY <1>0, <1>2, <1>5, <2>2, EntryIs
    <3>2. txn[log[c].txn] = "done"
      BY <2>2, <3>1 DEF CoreInv, DoneInv
    <3>. QED
      BY <1>3, <3>1, <3>2
  <2>. QED
    BY <1>2, <2>1, <2>2
<1>. QED
  BY <1>2, <1>4, <1>5 DEF OwnerInv, DoneInv

\* Records of other transactions, when t ends.
LEMMA ReleasedMem ==
    ASSUME TypeInv, CoreInv, NEW t \in Txn, Released(t), NEW e, Adds(e), e.type # "LN",
           NEW k \in Key, writer[k] # t, slot'[k] = slot[k],
           Vers(k, Len(log))' = Vers(k, Len(log))
    PROVE  MemAt(k)'
<1>0. LogType /\ TreeType /\ TxnType
  BY Parts
<1>1. PICK i : i = Len(log) + 1
  OBVIOUS
<1>2. /\ Grown /\ Len(log') = i /\ log'[i] = e
      /\ \A j \in 1 .. i : j = i \/ j \in 1 .. Len(log)
  BY <1>0, <1>1, NewIs
<1>3. /\ unpub' = unpub /\ writer'[k] = writer[k] /\ before'[k] = before[k]
      /\ \A u \in Txn : u # t => txn'[u] = txn[u]
  BY <1>0, ReleasedIs
<1>4. MemAt(k) /\ IsVersion(slot[k], k)
  BY DEF CoreInv, MemInv, SlotsInv
<1>5. writer[k] # None => txn'[writer[k]] = "active"
  BY <1>0, <1>3, <1>4 DEF MemAt, TxnType
<1>6. \A y \in 1 .. Len(log') : y \in 1 .. Len(log) \/ ~(log'[y].type = "LN" /\ log'[y].key = k)
  BY <1>2
<1>. QED
  BY <1>0, <1>2, <1>3, <1>4, <1>5, <1>6, MemAtKept

LEMMA CommitCore ==
    ASSUME TypeInv, CoreInv, NEW t \in Txn, NEW sync \in BOOLEAN, Commit(t, sync)
    PROVE  CoreInv'
<1>0. LogType /\ TreeType /\ TxnType
  BY Parts
<1> DEFINE e == [type |-> "Commit", txn |-> t]
<1>1. /\ Adds(e) /\ txn[t] = "active" /\ (\A k \in Key : writer[k] = t => unpub[k] = None)
      /\ slot' = slot /\ root' = root /\ Released(t)
  BY <1>0, Adding DEF Commit, treeVars, Written
<1>2. PICK i : i = Len(log) + 1
  OBVIOUS
<1>3. /\ Grown /\ Len(log') = i /\ log'[i] = e /\ i \in Nat \ {0} /\ i \notin 1 .. Len(log)
      /\ \A j \in 1 .. i : j = i \/ j \in 1 .. Len(log)
      /\ \A j \in 1 .. Len(log) : j \in 1 .. i /\ log'[j] = log[j] /\ (IsLN(j)' <=> IsLN(j))
                                  /\ j - 1 \in 0 .. Len(log)
  BY <1>0, <1>1, <1>2, NewIs
<1>4. e.type = "Commit" /\ e.txn = t /\ t # None /\ log'[i] = [type |-> "Commit", txn |-> t]
  BY <1>3, CleanerAssumption DEF None
<1>. HIDE DEF e
<1>5. /\ \A u : EndedBy(u, i)' <=> EndedBy(u, Len(log)) \/ u = t
      /\ \A k : Vers(k, i)' = Vers(k, Len(log)) \cup
                  {l \in 1 .. Len(log) : IsLN(l) /\ log[l].key = k /\ log[l].txn = t}
  BY <1>0, <1>2, <1>3, <1>4, VersCommitted
<1>6. /\ txn'[t] = "done" /\ unpub' = unpub
      /\ \A k \in Key : writer[k] = t => writer'[k] = None /\ before'[k] = None
  BY <1>0, <1>1, ReleasedIs
<1>7. \A l \in 1 .. Len(log) : IsLN(l) /\ log[l].txn = t =>
         /\ log[l].key \in Key /\ writer[log[l].key] = t
         /\ \A y \in l .. Len(log) : IsVersion(y, log[l].key) => log[y].txn = t
  <2>1. \A l \in 1 .. Len(log) : IsLN(l) => log[l].key \in Key
    BY <1>0, EntryIs DEF IsLN
  <2>. QED
    BY <1>1, <1>4, <2>1 DEF CoreInv, OwnerInv
<1>8. AbortInv'
  BY <1>0, <1>1, <1>4, AbortKept DEF CoreInv
<1>9. OrderInv'
  <2>. SUFFICES ASSUME NEW j \in 1 .. i, IsLN(j)', NEW x \in 1 .. j - 1,
                       IsVersion(x, log[j].key)', EndedBy(log[x].txn, i)', log'[x].txn # log'[j].txn
                PROVE  EndedBy(log[x].txn, j - 1)'
    BY <1>3 DEF OrderInv
  <2>1. j \in 1 .. Len(log) /\ IsLN(j)
    BY <1>3, <1>4 DEF IsLN
  <2>2. x \in 1 .. Len(log) /\ log'[x] = log[x] /\ x < j
    BY <1>0, <1>3, <2>1, LenIs
  <2>3. IsVersion(x, log[j].key) /\ IsLN(x)
    BY <1>3, <2>1, <2>2 DEF IsVersion, Is, IsLN
  <2>4. PICK u, n : u = log[x].txn /\ n = j - 1
    OBVIOUS
  <2>5. EndedBy(u, Len(log)) \/ u = t
    <3>1. EndedBy(u, i)'
      BY <2>2, <2>4 DEF EndedBy
    <3>. QED
      BY <1>5, <3>1
  <2>6. u # t
    <3>1. ASSUME u = t PROVE FALSE
      <4>1. IsVersion(j, log[x].key) /\ j \in x .. Len(log)
        BY <1>0, <2>1, <2>2, <2>3, LenIs DEF IsVersion, Is, IsLN
      <4>2. log[j].txn = t
        BY <1>7, <2>2, <2>3, <2>4, <3>1, <4>1
      <4>. QED
        BY <1>3, <2>1, <2>2, <2>4, <3>1, <4>2
    <3>. QED
      BY <3>1
  <2>7. EndedBy(u, n)
    BY <1>3, <2>1, <2>2, <2>3, <2>4, <2>5, <2>6 DEF CoreInv, OrderInv
  <2>8. EndedBy(u, n)'
    BY <1>3, <2>1, <2>4, <2>7, VersGrown
  <2>. QED
    BY <2>2, <2>4, <2>8 DEF EndedBy
<1>10. OwnerInv' /\ DoneInv'
  BY <1>1, <1>4, ReleasedOwner
<1>11. MemInv'
  <2>1. ASSUME NEW k \in Key, writer[k] # t PROVE MemAt(k)'
    <3>1. {l \in 1 .. Len(log) : IsLN(l) /\ log[l].key = k /\ log[l].txn = t} = {}
      BY <1>7, <2>1
    <3>2. Vers(k, i)' = Vers(k, Len(log))
      BY <1>5, <3>1
    <3>3. Vers(k, Len(log))' = Vers(k, Len(log))
      BY <1>3, <3>2, AtEnd
    <3>. QED
      BY <1>1, <1>4, <2>1, <3>3, ReleasedMem
  <2>2. ASSUME NEW k \in Key, writer[k] = t PROVE MemAt(k)'
    <3>1. unpub[k] = None /\ MemAt(k) /\ Last(k) = slot[k] /\ writer'[k] = None /\ before'[k] = None
      BY <1>1, <1>6, <2>2 DEF CoreInv, MemInv, Last
    <3>2. PICK m : m = slot[k]
      OBVIOUS
    <3>3. IsVersion(m, k) /\ log[m].txn = t /\ \A y \in 1 .. Len(log) : IsVersion(y, k) => y <= m
      BY <1>4, <2>2, <3>1, <3>2 DEF MemAt
    <3>4. \A y \in Vers(k, i)' : y \in 1 .. Len(log) /\ IsVersion(y, k)
      BY <1>5 DEF Vers, IsVersion, Is, IsLN
    <3>5. m \in Vers(k, i)'
      BY <1>5, <3>3 DEF IsVersion, Is, IsLN
    <3>6. IsCur(m, k, i)'
      BY <3>3, <3>4, <3>5 DEF IsCur
    <3>7. IsCur(m, k, Len(log))'
      BY <1>3, <3>6, AtEnd
    <3>8. slot'[k] = m /\ unpub'[k] = None
      BY <1>1, <1>6, <3>1, <3>2
    <3>. QED
      BY <3>1, <3>7, <3>8 DEF MemAt, IsCur
  <2>. QED
    BY <2>1, <2>2 DEF MemInv
<1>12. SlotsInv'
  BY <1>1, <1>3, SlotsKept DEF CoreInv, SlotsInv
<1>. QED
  BY <1>8, <1>9, <1>10, <1>11, <1>12 DEF CoreInv

LEMMA AbortCore ==
    ASSUME TypeInv, CoreInv, NEW t \in Txn, Abort(t)
    PROVE  CoreInv'
<1>0. LogType /\ TreeType /\ TxnType
  BY Parts
<1> DEFINE e == [type |-> "Abort", txn |-> t]
<1>1. /\ Adds(e) /\ txn[t] = "active" /\ (\A k \in Key : writer[k] = t => unpub[k] = None)
      /\ slot' = [k \in Key |-> IF writer[k] = t THEN before[k] ELSE slot[k]]
      /\ root' = root /\ Released(t)
  BY <1>0, Adding DEF Abort, Written
<1>2. PICK i : i = Len(log) + 1
  OBVIOUS
<1>3. Grown /\ Len(log') = i /\ log'[i] = e
  BY <1>0, <1>1, <1>2, NewIs
<1>4. e.type = "Abort" /\ t # None
  BY CleanerAssumption DEF None
<1>. HIDE DEF e
<1>5. \A k : Vers(k, Len(log))' = Vers(k, Len(log))
  <2>1. \A k : Vers(k, i)' = Vers(k, Len(log)) \cup
                 {l \in {i} : log'[i].type = "LN" /\ log'[i].key = k /\ EndedBy(log'[i].txn, Len(log))}
    BY <1>0, <1>2, <1>3, <1>4, VersAppended
  <2>2. \A k : Vers(k, i)' = Vers(k, Len(log))
    BY <1>3, <1>4, <2>1
  <2>. QED
    BY <1>3, <2>2, AtEnd
<1>6. /\ txn'[t] = "done" /\ unpub' = unpub
      /\ \A k \in Key : writer[k] = t => writer'[k] = None /\ before'[k] = None
  BY <1>0, <1>1, ReleasedIs
<1>7. AbortInv' /\ OrderInv'
  BY <1>0, <1>1, <1>4, AbortKept, OrderKept DEF CoreInv
<1>8. OwnerInv' /\ DoneInv'
  BY <1>1, <1>4, ReleasedOwner
<1>9. \A k \in Key : writer[k] = t => IsCur(before[k], k, Len(log))
  BY <1>4 DEF CoreInv, MemInv, MemAt
<1>10. MemInv'
  <2>1. ASSUME NEW k \in Key, writer[k] # t PROVE MemAt(k)'
    BY <1>1, <1>4, <1>5, <2>1, ReleasedMem
  <2>2. ASSUME NEW k \in Key, writer[k] = t PROVE MemAt(k)'
    <3>1. PICK m : m = before[k]
      OBVIOUS
    <3>2. slot'[k] = m /\ IsCur(m, k, Len(log))'
      BY <1>1, <1>5, <1>9, <2>2, <3>1 DEF IsCur
    <3>3. writer'[k] = None /\ before'[k] = None /\ unpub'[k] = None
      BY <1>1, <1>6, <2>2
    <3>. QED
      BY <3>2, <3>3 DEF MemAt, IsCur
  <2>. QED
    BY <2>1, <2>2 DEF MemInv
<1>11. SlotsInv'
  <2>1. ASSUME NEW k \in Key PROVE slot'[k] = slot[k] \/ \E l : slot'[k] = l /\ IsVersion(l, k)'
    <3>1. CASE writer[k] = t
      <4>1. PICK m : m = before[k]
        OBVIOUS
      <4>2. slot'[k] = m /\ m \in 1 .. Len(log) /\ log[m].type = "LN" /\ log[m].key = k
        BY <1>1, <1>9, <3>1, <4>1 DEF IsCur, Vers, IsLN
      <4>. QED
        BY <1>3, <4>2 DEF IsVersion, Is, Grown
    <3>. QED
      BY <1>1, <3>1
  <2>. QED
    BY <1>1, <1>3, <2>1, SlotsKept DEF CoreInv, SlotsInv
<1>. QED
  BY <1>7, <1>8, <1>10, <1>11 DEF CoreInv

LEMMA MovedCore ==
    ASSUME TypeInv, CoreInv, NEW l, Moved(l), UNCHANGED txnVars
    PROVE  CoreInv'
<1>0. LogType /\ TreeType /\ TxnType
  BY Parts
<1>a. PICK k : k = KeyOf(l)
  OBVIOUS
<1> DEFINE e == [type |-> "LN", key |-> k, txn |-> None, abort |-> l, val |-> log[l].val]
<1>1. /\ k \in Key /\ Adds(e) /\ slot[k] = l /\ writer[k] = None /\ root' = root
      /\ slot' = [slot EXCEPT ![k] = Len(log) + 1] /\ Is(l, "LN")
      /\ txn' = txn /\ writer' = writer /\ before' = before /\ unpub' = unpub
  BY <1>a DEF Moved, txnVars
<1>2. PICK i : i = Len(log) + 1
  OBVIOUS
<1>3. /\ Grown /\ Len(log') = i /\ log'[i] = e /\ i \in Nat \ {0} /\ i \notin 1 .. Len(log)
      /\ \A j \in 1 .. i : j = i \/ j \in 1 .. Len(log)
      /\ \A j \in 1 .. Len(log) : j \in 1 .. i /\ log'[j] = log[j] /\ (IsLN(j)' <=> IsLN(j))
  BY <1>0, <1>1, <1>2, NewIs
<1>4. e.type = "LN" /\ e.key = k /\ e.txn = None /\ e.abort = l /\ l # None
  BY <1>1 DEF Is, None
<1>. HIDE DEF e
<1>5. slot'[k] = i /\ \A j \in Key : j # k => slot'[j] = slot[j]
  BY <1>0, <1>1, <1>2 DEF TreeType
<1>6. MemAt(k) /\ IsCur(l, k, Len(log)) /\ before[k] = None /\ unpub[k] = None
  BY <1>1 DEF CoreInv, MemInv, MemAt
<1>7. /\ \A j : j # k => Vers(j, Len(log))' = Vers(j, Len(log))
      /\ Vers(k, Len(log))' = Vers(k, Len(log)) \cup {i}
  <2>1. \A j : Vers(j, i)' = Vers(j, Len(log)) \cup
                 {x \in {i} : log'[i].type = "LN" /\ log'[i].key = j /\ EndedBy(log'[i].txn, Len(log))}
    BY <1>0, <1>2, <1>3, <1>4, VersAppended
  <2>2. EndedBy(None, Len(log))
    BY DEF EndedBy
  <2>3. \A j : (j # k => Vers(j, i)' = Vers(j, Len(log))) /\ (j = k => Vers(j, i)' = Vers(j, Len(log)) \cup {i})
    BY <1>3, <1>4, <2>1, <2>2
  <2>. QED
    BY <1>3, <2>3, AtEnd
<1>8. AbortInv' /\ OrderInv'
  BY <1>0, <1>1, <1>4, <1>6, AbortKept, OrderKept DEF CoreInv
<1>9. OwnerInv' /\ DoneInv'
  <2>1. DoneInv'
    BY <1>1, <1>3, <1>4 DEF CoreInv, DoneInv
  <2>2. ASSUME NEW j \in 1 .. i, IsLN(j)', log'[j].txn # None
        PROVE  /\ txn'[log'[j].txn] # "idle"
               /\ txn'[log'[j].txn] = "active" =>
                     /\ writer'[log'[j].key] = log'[j].txn
                     /\ \A y \in j .. i : IsVersion(y, log[j].key)' => log'[y].txn = log'[j].txn
    <3>1. j \in 1 .. Len(log) /\ IsLN(j) /\ log'[j] = log[j]
      BY <1>3, <1>4, <2>2
    <3>2. PICK x : x = log[j].key
      OBVIOUS
    <3>3. x \in Key
      BY <1>0, <3>1, <3>2, EntryIs DEF IsLN
    <3>4. txn[log[j].txn] # "idle" /\ (txn[log[j].txn] = "active" => writer[x] = log[j].txn)
      BY <2>2, <3>1, <3>2 DEF CoreInv, OwnerInv
    <3>5. ASSUME txn[log[j].txn] = "active"
          PROVE  \A y \in j .. i : IsVersion(y, log[j].key)' => log'[y].txn = log'[j].txn
      <4>1. x # k
        BY <1>1, <2>2, <3>1, <3>4, <3>5
      <4>2. \A y \in 1 .. Len(log') : y \in 1 .. Len(log) \/ ~(log'[y].type = "LN" /\ log'[y].key = log[j].key)
        BY <1>3, <1>4, <3>2, <4>1
      <4>. QED
        BY <1>0, <1>3, <2>2, <3>1, <3>5, <4>2, OwnerKept DEF CoreInv
    <3>. QED
      BY <1>1, <3>1, <3>2, <3>4, <3>5
  <2>. QED
    BY <1>3, <2>1, <2>2 DEF OwnerInv
<1>10. MemInv'
  <2>1. ASSUME NEW j \in Key, j # k PROVE MemAt(j)'
    <3>1. MemAt(j) /\ IsVersion(slot[j], j)
      BY DEF CoreInv, MemInv, SlotsInv
    <3>2. slot'[j] = slot[j] /\ writer'[j] = writer[j] /\ before'[j] = before[j] /\ unpub'[j] = unpub[j]
      BY <1>1, <1>5, <2>1
    <3>3. writer[j] # None => txn'[writer[j]] = "active"
      BY <1>1, <3>1 DEF MemAt
    <3>4. \A y \in 1 .. Len(log') : y \in 1 .. Len(log) \/ ~(log'[y].type = "LN" /\ log'[y].key = j)
      BY <1>3, <1>4, <2>1
    <3>5. Vers(j, Len(log))' = Vers(j, Len(log))
      BY <1>7, <2>1
    <3>. QED
      BY <1>0, <1>3, <3>1, <3>2, <3>3, <3>4, <3>5, MemAtKept
  <2>2. MemAt(k)'
    <3>1. \A y \in Vers(k, Len(log))' : y <= i
      BY <1>0, <1>2, <1>3, <1>7, LenIs DEF Vers
    <3>2. IsCur(i, k, Len(log))'
      BY <1>7, <3>1 DEF IsCur
    <3>. QED
      BY <1>1, <1>5, <1>6, <3>2 DEF MemAt, IsCur
  <2>. QED
    BY <2>1, <2>2 DEF MemInv
<1>11. SlotsInv'
  <2>1. IsVersion(i, k)'
    BY <1>3, <1>4 DEF IsVersion, Is
  <2>2. \A j \in Key : slot'[j] = slot[j] \/ \E x : slot'[j] = x /\ IsVersion(x, j)'
    BY <1>5, <2>1
  <2>. QED
    BY <1>1, <1>3, <2>2, SlotsKept DEF CoreInv, SlotsInv
<1>. QED
  BY <1>8, <1>9, <1>10, <1>11 DEF CoreInv

LEMMA QuietIs ==
    ASSUME TypeInv, QuietLog
    PROVE  /\ Grown /\ Len(log') \in {Len(log), Len(log) + 1}
           /\ \A j \in 1 .. Len(log') : j \in 1 .. Len(log) \/ log'[j].type \in {"CkptStart", "BIN", "CkptEnd"}
           /\ \A t : EndedBy(t, Len(log))' <=> EndedBy(t, Len(log))
           /\ \A k : Vers(k, Len(log))' = Vers(k, Len(log))
<1>0. LogType
  BY Parts
<1>1. CASE log' = log
  <2>1. Grown /\ Len(log') = Len(log)
    BY <1>0, <1>1, SameLog
  <2>2. \A t : EndedBy(t, Len(log))' <=> EndedBy(t, Len(log))
    BY <1>1 DEF EndedBy
  <2>3. \A k : Vers(k, Len(log))' = Vers(k, Len(log))
    BY <1>1 DEF Vers, EndedBy, IsLN
  <2>. QED
    BY <2>1, <2>2, <2>3
<1>2. ASSUME NEW e, Adds(e), e.type \in {"CkptStart", "BIN", "CkptEnd"}
      PROVE  /\ Grown /\ Len(log') \in {Len(log), Len(log) + 1}
             /\ \A j \in 1 .. Len(log') : j \in 1 .. Len(log) \/ log'[j].type \in {"CkptStart", "BIN", "CkptEnd"}
             /\ \A t : EndedBy(t, Len(log))' <=> EndedBy(t, Len(log))
             /\ \A k : Vers(k, Len(log))' = Vers(k, Len(log))
  <2>1. PICK i : i = Len(log) + 1
    OBVIOUS
  <2>2. /\ Grown /\ Len(log') = i /\ log'[i] = e
        /\ \A j \in 1 .. i : j = i \/ j \in 1 .. Len(log)
    BY <1>0, <1>2, <2>1, NewIs
  <2>3. /\ \A t : EndedBy(t, i)' <=> EndedBy(t, Len(log))
        /\ \A k : Vers(k, i)' = Vers(k, Len(log)) \cup
                 {l \in {i} : log'[i].type = "LN" /\ log'[i].key = k /\ EndedBy(log'[i].txn, Len(log))}
    BY <1>0, <1>2, <2>1, <2>2, VersAppended
  <2>4. \A k : Vers(k, i)' = Vers(k, Len(log))
    BY <1>2, <2>2, <2>3
  <2>5. /\ \A t : EndedBy(t, Len(log))' <=> EndedBy(t, Len(log))
        /\ \A k : Vers(k, Len(log))' = Vers(k, Len(log))
    BY <2>2, <2>3, <2>4, AtEnd
  <2>. QED
    BY <1>2, <2>1, <2>2, <2>5
<1>. QED
  BY <1>1, <1>2 DEF QuietLog

LEMMA QuietCore ==
    ASSUME TypeInv, CoreInv, Quiet, root' # None
    PROVE  CoreInv'
<1>0. LogType /\ TreeType /\ TxnType
  BY Parts
<1>1. slot' = slot /\ txn' = txn /\ writer' = writer /\ before' = before /\ unpub' = unpub /\ QuietLog
  BY DEF Quiet
<1>2. /\ Grown
      /\ \A j \in 1 .. Len(log') : j \in 1 .. Len(log) \/ log'[j].type \in {"CkptStart", "BIN", "CkptEnd"}
      /\ \A k : Vers(k, Len(log))' = Vers(k, Len(log))
  BY <1>1, QuietIs
<1>3. AbortInv' /\ OrderInv'
  <2>1. ASSUME NEW e, Adds(e), e.type \in {"CkptStart", "BIN", "CkptEnd"} PROVE AbortInv' /\ OrderInv'
    BY <1>0, <2>1, AbortKept, OrderKept DEF CoreInv
  <2>. QED
    BY <1>0, <1>1, <2>1, AbortSame, OrderSame DEF CoreInv, QuietLog
<1>4. \A k : Last(k)' = Last(k)
  BY <1>1 DEF Last
<1>5. OwnerInv' /\ DoneInv'
  <2>1. \A j \in 1 .. Len(log) : log'[j] = log[j]
    BY <1>2 DEF Grown
  <2>2. DoneInv'
    BY <1>1, <1>2, <2>1 DEF CoreInv, DoneInv
  <2>3. ASSUME NEW j \in 1 .. Len(log'), IsLN(j)', log'[j].txn # None
        PROVE  /\ txn'[log'[j].txn] # "idle"
               /\ txn'[log'[j].txn] = "active" =>
                     /\ writer'[log'[j].key] = log'[j].txn
                     /\ \A y \in j .. Len(log') : IsVersion(y, log[j].key)' => log'[y].txn = log'[j].txn
    <3>1. j \in 1 .. Len(log) /\ IsLN(j) /\ log'[j] = log[j]
      BY <1>2, <2>1, <2>3 DEF IsLN
    <3>2. \A y \in 1 .. Len(log') : y \in 1 .. Len(log) \/ log'[y].type # "LN"
      BY <1>2
    <3>3. txn[log[j].txn] # "idle"
      BY <2>3, <3>1 DEF CoreInv, OwnerInv
    <3>4. ASSUME txn[log[j].txn] = "active"
          PROVE  /\ writer[log[j].key] = log[j].txn
                 /\ \A y \in j .. Len(log') : IsVersion(y, log[j].key)' => log'[y].txn = log'[j].txn
      BY <1>0, <1>2, <2>3, <3>1, <3>2, <3>4, OwnerKept DEF CoreInv
    <3>. QED
      BY <1>1, <3>1, <3>3, <3>4
  <2>. QED
    BY <2>2, <2>3 DEF OwnerInv
<1>6. ASSUME NEW k \in Key PROVE MemAt(k)'
  <2>1. MemAt(k) /\ IsVersion(slot[k], k)
    BY DEF CoreInv, MemInv, SlotsInv
  <2>2. writer[k] # None => txn'[writer[k]] = "active"
    BY <1>1, <2>1 DEF MemAt
  <2>3. \A y \in 1 .. Len(log') : y \in 1 .. Len(log) \/ ~(log'[y].type = "LN" /\ log'[y].key = k)
    BY <1>2
  <2>4. slot'[k] = slot[k] /\ writer'[k] = writer[k] /\ before'[k] = before[k] /\ unpub'[k] = unpub[k]
    BY <1>1
  <2>. QED
    BY <1>0, <1>2, <2>1, <2>2, <2>3, <2>4, MemAtKept
<1>7. SlotsInv'
  BY <1>1, <1>2, SlotsKept DEF CoreInv
<1>. QED
  BY <1>3, <1>5, <1>6, <1>7 DEF CoreInv, MemInv

-----------------------------------------------------------------------------
(* What the steps do to the log's length, to the files and to the agents *)

NoCrash == ~ \E n \in durable .. Len(log) : Crash(n)

LEMMA LogSteps ==
    ASSUME TypeInv, CoreInv, [Next]_vars, NoCrash
    PROVE  /\ Grown /\ Len(log') \in {Len(log), Len(log) + 1}
           /\ durable' \in {durable, Len(log')} /\ durable <= durable' /\ durable' \in 1 .. Len(log')
<1>0. LogType /\ LookType
  BY Parts
<1>1. ASSUME NEW t \in Txn, NEW k \in Key, Write(t, k)
      PROVE  durable' = durable /\ \E e : Adds(e)
  BY <1>0, <1>1, Adding DEF Write
<1>2. ASSUME NEW t \in Txn, Abort(t)
      PROVE  durable' = durable /\ \E e : Adds(e)
  BY <1>0, <1>2, Adding DEF Abort
<1>3. ASSUME NEW t \in Txn, NEW sync \in BOOLEAN, Commit(t, sync)
      PROVE  durable' \in {durable, Len(log')} /\ \E e : Adds(e)
  <2>1. Adds([type |-> "Commit", txn |-> t])
    BY <1>0, <1>3, Adding DEF Commit
  <2>. QED
    BY <1>3, <2>1 DEF Commit
<1>4. ASSUME NEW a \in Agent, PendingRetry(a) PROVE durable' = durable /\ (log' = log \/ \E e : Adds(e))
  <2>1. Is(at[a], "LN") /\ Migrated(at[a], Outcome(at[a], tree[a])) /\ durable' = durable /\ gone' = gone
    BY <1>0, <1>4 DEF PendingRetry, LookType
  <2>. QED
    BY <2>1, MigratedIs DEF Moved
<1>5. ASSUME CleanLn PROVE durable' = durable /\ (log' = log \/ \E e : Adds(e))
  <2>1. /\ Is(at["cleaner"], "LN") /\ Migrated(at["cleaner"], Outcome(at["cleaner"], tree["cleaner"]))
        /\ durable' = durable /\ gone' = gone
    BY <1>0, <1>5, AgentsAre DEF CleanLn, LookType
  <2>. QED
    BY <2>1, MigratedIs DEF Moved
<1>6. ASSUME \/ \E k \in Key : Publish(k)
             \/ \E a \in Agent : \E l \in todo[a] : PendingLookup(a, l)
             \/ CleanStart \/ (\E f \in File : CleanSelect(f)) \/ CleanNothing \/ CleanScan
             \/ CleanLookup \/ CleanEnd \/ DeleteSafe \/ CleanDone
             \/ CkptBegin \/ CkptSnapshot \/ CkptAfter \/ CkptFails \/ UNCHANGED vars
      PROVE  durable' = durable /\ log' = log
  BY <1>6 DEF Publish, PendingLookup, CleanStart, CleanSelect, CleanNothing, CleanScan, CleanLookup,
     CleanEnd, DeleteSafe, CleanDone, CkptBegin, CkptSnapshot, CkptAfter, CkptFails, logVars, vars
<1>7. CkptStart \/ CkptFlush => durable' = durable /\ (log' = log \/ \E e : Adds(e))
  BY <1>0, Adding DEF CkptStart, CkptFlush
<1>8. CkptEnd => durable' \in {durable, Len(log')} /\ \E e : Adds(e)
  <2>1. CkptEnd => Adds([type |-> "CkptEnd", start |-> start, root |-> root])
    BY <1>0, Adding DEF CkptEnd
  <2>. QED
    BY <2>1 DEF CkptEnd, End, Adds
<1>9. durable' \in {durable, Len(log')} /\ (log' = log \/ \E e : Adds(e))
  BY <1>1, <1>2, <1>3, <1>4, <1>5, <1>6, <1>7, <1>8 DEF Next, NoCrash
<1>10. Grown /\ Len(log') \in {Len(log), Len(log) + 1}
  BY <1>0, <1>9, SameLog DEF Adds
<1>. QED
  BY <1>0, <1>9, <1>10, LenIs DEF Grown

LEMMA FileMono ==
    ASSUME LogType, Grown
    PROVE  /\ Newest <= Newest' /\ Newest \in Nat /\ Newest' \in Nat
           /\ \A i \in 1 .. Len(log') : i \notin 1 .. Len(log) => Newest <= FileOf(i)
           /\ \A i \in 1 .. Len(log) : FileOf(i) <= Newest /\ FileOf(i) \in Nat
<1>1. Len(log) \in Nat \ {0} /\ Len(log') \in Nat \ {0} /\ Len(log) <= Len(log')
  BY LenIs DEF Grown
<1>. QED
  BY <1>1, FileOfType DEF Newest, FileOf

FilesSame == being' = being /\ Processed' = Processed /\ Kept' = Kept /\ cleaned' = cleaned

LEMMA FileSteps ==
    ASSUME TypeInv, SelInv, OldInv, [Next]_vars, NoCrash
    PROVE  FilesSame \/ (\E f \in File : CleanSelect(f)) \/ CleanEnd \/ CkptAfter
<1>1. ASSUME gone' = gone, UNCHANGED <<being, cleaned, checkpointed, safe>> PROVE FilesSame
  BY <1>1 DEF FilesSame, Processed, Kept
<1>2. ASSUME \/ \E t \in Txn, k \in Key : Write(t, k)
             \/ \E k \in Key : Publish(k)
             \/ \E t \in Txn : Abort(t) \/ \E sync \in BOOLEAN : Commit(t, sync)
             \/ \E a \in Agent : \E l \in todo[a] : PendingLookup(a, l)
             \/ CleanStart \/ CleanNothing \/ CleanScan
             \/ CleanLookup \/ CleanLn \/ CleanDone
             \/ CkptBegin \/ CkptSnapshot \/ CkptStart \/ CkptFlush \/ CkptEnd \/ CkptFails
             \/ UNCHANGED vars
      PROVE  FilesSame
  <2>1. gone' = gone /\ UNCHANGED <<being, cleaned, checkpointed, safe>>
    BY <1>2 DEF Write, Publish, Abort, Commit, PendingLookup, CleanStart, CleanNothing, CleanScan, CleanLookup,
       CleanLn, CleanDone, CkptBegin, CkptSnapshot, CkptStart, CkptFlush, CkptEnd, CkptFails, logVars, selVars, vars
  <2>. QED
    BY <1>1, <2>1
<1>3. ASSUME NEW a \in Agent, PendingRetry(a) PROVE FilesSame
  <2>1. gone' = gone /\ (UNCHANGED selVars \/ \E l : RemovePendingLn(l))
    BY <1>3 DEF PendingRetry
  <2>2. ASSUME NEW l, RemovePendingLn(l) PROVE FilesSame
    <3>1. UNCHANGED <<being, cleaned>> /\ checkpointed' \cup safe' = checkpointed \cup safe
      BY <2>2 DEF RemovePendingLn, ProcessedFiles
    <3>. QED
      BY <2>1, <3>1 DEF FilesSame, Processed, Kept
  <2>. QED
    BY <1>1, <2>1, <2>2 DEF selVars
<1>4. ASSUME DeleteSafe PROVE FilesSame
  <2>1. Min(safe) \in safe
    <3>1. safe \subseteq Nat
      BY CleanerAssumption DEF TypeInv, SelType, File
    <3>. QED
      BY <1>4, <3>1, MinIs DEF DeleteSafe
  <2>2. Min(safe) \in 0 .. Newest - 1
    <3>1. Min(safe) < Newest
      BY <2>1 DEF OldInv, Processed
    <3>4. safe \subseteq File /\ LogType
      BY DEF TypeInv, SelType
    <3>5. \A m \in File : m \in Nat
      BY CleanerAssumption DEF File
    <3>2. Min(safe) \in Nat /\ LogType
      BY <2>1, <3>4, <3>5, Zenon
    <3>3. Newest \in Nat
      BY <3>2, LenIs, FileOfType DEF Newest
    <3>. QED
      BY <3>1, <3>2, <3>3
  <2>3. gone' = gone \cup {Min(safe)} /\ safe' = safe \ {Min(safe)} /\ UNCHANGED <<being, cleaned, checkpointed>>
    BY <1>4, <2>2 DEF DeleteSafe
  <2>. QED
    BY <2>1, <2>3 DEF FilesSame, Processed, Kept
<1>. QED
  BY <1>2, <1>3, <1>4 DEF Next, NoCrash

LEMMA CleanSelectIs ==
    ASSUME TypeInv, NEW f \in File, CleanSelect(f)
    PROVE  /\ being' = {f} /\ Processed' = Processed /\ Kept' = Kept /\ cleaned' = cleaned
           /\ log' = log /\ txn' = txn /\ pc["cleaner"] = "pending" /\ pc'["cleaner"] = "scan" /\ f < clamp
           /\ f \notin Processed
<1>0. PcType /\ PassType
  BY Parts
<1>1. /\ being' = {f} /\ UNCHANGED <<cleaned, checkpointed, safe>> /\ gone' = gone /\ f + MinAge <= clamp
      /\ log' = log /\ txn' = txn /\ f \notin gone \cup cleaned \cup checkpointed \cup safe
  BY DEF CleanSelect, logVars, txnVars, Eligible, InProgress
<1>2. pc["cleaner"] = "pending" /\ pc'["cleaner"] = "scan"
  BY <1>0, AgentsAre DEF CleanSelect, PcType
<1>3. f < clamp
  BY <1>0, <1>1, CleanerAssumption DEF PassType, File
<1>. QED
  BY <1>1, <1>2, <1>3 DEF Processed, Kept

LEMMA CleanEndIs ==
    ASSUME TypeInv, CleanEnd
    PROVE  /\ being' = {} /\ cleaned' = cleaned \cup being /\ Processed' = Processed \cup being /\ Kept' = Kept
           /\ log' = log /\ txn' = txn /\ slot' = slot /\ before' = before /\ root' = root /\ dirty' = dirty
           /\ pc["cleaner"] = "lns" /\ pc'["cleaner"] = "delete" /\ pc'["checkpointer"] = pc["checkpointer"]
           /\ todo["cleaner"] = {} /\ pending' = pending \cup locked
<1>0. PcType
  BY Parts
<1>. QED
  BY <1>0, AgentsAre DEF CleanEnd, PcType, Processed, Kept, logVars, txnVars, treeVars

LEMMA CkptAfterIs ==
    ASSUME TypeInv, OldInv, CkptAfter
    PROVE  /\ being' = being /\ Processed' = Processed /\ Kept' = Kept \cup snap /\ cleaned' = cleaned \ snap
           /\ pc["checkpointer"] = "after" /\ pc'["checkpointer"] = "idle" /\ pc'["cleaner"] = pc["cleaner"]
           /\ UNCHANGED logVars /\ UNCHANGED treeVars /\ UNCHANGED txnVars
           /\ pending' = pending /\ settled' = settled /\ snap' = {} /\ UNCHANGED lookVars /\ UNCHANGED passVars
<1>0. PcType
  BY Parts
<1>1. /\ being' = being /\ UNCHANGED logVars /\ UNCHANGED treeVars /\ UNCHANGED txnVars /\ cleaned' = cleaned \ snap
      /\ pending' = pending /\ settled' = settled /\ snap' = {} /\ UNCHANGED lookVars /\ UNCHANGED passVars
      /\ pc["checkpointer"] = "after" /\ pc' = [pc EXCEPT !["checkpointer"] = "idle"]
  BY DEF CkptAfter
<1>2. checkpointed' \cup safe' = checkpointed \cup safe \cup (snap \cap cleaned)
  BY DEF CkptAfter, ProcessedFiles
<1>3. snap \cap cleaned = snap
  BY DEF OldInv
<1>4. pc'["checkpointer"] = "idle" /\ pc'["cleaner"] = pc["cleaner"]
  BY <1>0, <1>1, AgentsAre DEF PcType
<1>. QED
  BY <1>1, <1>2, <1>3, <1>4 DEF Processed, Kept, logVars

AgentSame(a) == pc'[a] = pc[a] /\ at'[a] = at[a] /\ tree'[a] = tree[a] /\ todo'[a] = todo[a]
Starts(a) == pc'[a] = "pending" /\ todo'[a] = pending /\ pending' = pending
Looks(a, l) ==
    /\ l \in todo[a] /\ Looked(a, l) /\ log' = log /\ slot' = slot /\ UNCHANGED txnVars
    /\ \/ pc[a] = "pending" /\ pc'[a] = "retry"
       \/ a = "cleaner" /\ pc[a] = "lns" /\ pc'[a] = "found"
Retried(a) == pc[a] = "retry" /\ pc'[a] = "pending" /\ todo'[a] = todo[a]

LEMMA AgentSteps ==
    ASSUME TypeInv, [Next]_vars, NoCrash, NEW a \in Agent
    PROVE  \/ AgentSame(a) \/ Starts(a) \/ Retried(a) \/ (\E l : Looks(a, l))
           \/ pc'[a] \notin {"pending", "retry", "found"}
<1>0. PcType /\ QueueType /\ LookType /\ LogType
  BY Parts
<1>1. ASSUME \/ \E t \in Txn, k \in Key : Write(t, k)
             \/ \E k \in Key : Publish(k)
             \/ \E t \in Txn : Abort(t) \/ \E sync \in BOOLEAN : Commit(t, sync)
             \/ DeleteSafe \/ UNCHANGED vars
      PROVE  AgentSame(a)
  BY <1>1 DEF Write, Publish, Abort, Commit, DeleteSafe, lookVars, vars, AgentSame
<1>2. ASSUME NEW b \in Agent, PendingRetry(b) PROVE AgentSame(a) \/ Retried(a)
  <2>1. pc[b] = "retry" /\ pc' = [pc EXCEPT ![b] = "pending"] /\ LookupDone(b) /\ todo' = todo
    BY <1>2 DEF PendingRetry
  <2>2. CASE a = b
    BY <1>0, <2>1, <2>2 DEF PcType, Retried
  <2>3. CASE a # b
    BY <1>0, <2>1, <2>3 DEF PcType, LookType, LookupDone, AgentSame
  <2>. QED
    BY <2>2, <2>3
<1>3. ASSUME NEW b \in Agent, NEW l \in todo[b], PendingLookup(b, l) PROVE AgentSame(a) \/ Looks(a, l)
  <2>1. /\ pc[b] = "pending" /\ pc' = [pc EXCEPT ![b] = "retry"] /\ Looked(b, l)
        /\ log' = log /\ slot' = slot /\ UNCHANGED txnVars
    BY <1>3 DEF PendingLookup, logVars, treeVars
  <2>2. CASE a = b
    BY <1>0, <1>3, <2>1, <2>2 DEF PcType, Looks
  <2>3. CASE a # b
    BY <1>0, <2>1, <2>3 DEF PcType, LookType, QueueType, Looked, AgentSame
  <2>. QED
    BY <2>2, <2>3
<1>4. ASSUME \/ CleanStart \/ (\E f \in File : CleanSelect(f)) \/ CleanNothing \/ CleanScan
             \/ CleanLn \/ CleanEnd \/ CleanDone
      PROVE  AgentSame(a) \/ Starts(a) \/ pc'[a] \notin {"pending", "retry", "found"}
  <2>1. CASE a # "cleaner"
    <3>1. pc'[a] = pc[a] /\ todo'[a] = todo[a] /\ at'[a] = at[a] /\ tree'[a] = tree[a]
      BY <1>0, <1>4, <2>1 DEF CleanStart, CleanSelect, CleanNothing, CleanScan, CleanLn, CleanEnd,
         CleanDone, LookupDone, PcType, QueueType, LookType, lookVars
    <3>. QED
      BY <3>1 DEF AgentSame
  <2>2. CASE a = "cleaner" /\ CleanStart
    BY <1>0, <2>2 DEF CleanStart, Starts, PcType, QueueType, selVars
  <2>3. CASE a = "cleaner" /\ ~CleanStart
    BY <1>0, <1>4, <2>3 DEF CleanSelect, CleanNothing, CleanScan, CleanLn, CleanEnd, CleanDone, PcType
  <2>. QED
    BY <2>1, <2>2, <2>3
<1>5. ASSUME CleanLookup PROVE AgentSame(a) \/ \E l : Looks(a, l)
  <2>1. PICK l : l = Min(todo["cleaner"])
    OBVIOUS
  <2>2. /\ pc["cleaner"] = "lns" /\ pc' = [pc EXCEPT !["cleaner"] = "found"] /\ Looked("cleaner", l)
        /\ log' = log /\ slot' = slot /\ UNCHANGED txnVars /\ todo["cleaner"] # {}
    BY <1>5, <2>1 DEF CleanLookup, logVars, treeVars
  <2>3. l \in todo["cleaner"]
    <3>1. todo["cleaner"] \subseteq Nat
      BY <1>0, AgentsAre DEF QueueType
    <3>. QED
      BY <2>1, <2>2, <3>1, MinIs
  <2>4. CASE a = "cleaner"
    BY <1>0, <2>2, <2>3, <2>4 DEF PcType, Looks
  <2>5. CASE a # "cleaner"
    BY <1>0, <2>2, <2>5 DEF PcType, LookType, QueueType, Looked, AgentSame
  <2>. QED
    BY <2>4, <2>5
<1>6. ASSUME \/ CkptBegin \/ CkptSnapshot \/ CkptStart \/ CkptFlush \/ CkptEnd \/ CkptAfter \/ CkptFails
      PROVE  AgentSame(a) \/ Starts(a) \/ pc'[a] \notin {"pending", "retry", "found"}
  <2>1. CASE a # "checkpointer"
    <3>1. pc'[a] = pc[a] /\ todo'[a] = todo[a] /\ at'[a] = at[a] /\ tree'[a] = tree[a]
      BY <1>0, <1>6, <2>1 DEF CkptBegin, CkptSnapshot, CkptStart, CkptFlush, CkptEnd, CkptAfter,
         CkptFails, PcType, QueueType, LookType, lookVars
    <3>. QED
      BY <3>1 DEF AgentSame
  <2>2. CASE a = "checkpointer" /\ CkptBegin
    BY <1>0, <2>2 DEF CkptBegin, Starts, PcType, QueueType, selVars
  <2>3. CASE a = "checkpointer" /\ ~CkptBegin
    BY <1>0, <1>6, <2>3 DEF CkptSnapshot, CkptStart, CkptFlush, CkptEnd, CkptAfter, CkptFails, PcType
  <2>. QED
    BY <2>1, <2>2, <2>3
<1>. QED
  BY <1>1, <1>2, <1>3, <1>4, <1>5, <1>6 DEF Next, NoCrash

-----------------------------------------------------------------------------
(* The files in hand, continued *)

FileInv == OldInv /\ QueueInv /\ ClampInv /\ ClosedInv

LEMMA OldNext ==
    ASSUME TypeInv, CoreInv, SelInv, FileInv, [Next]_vars, NoCrash
    PROVE  OldInv'
<1>0. LogType /\ PassType /\ SelType
  BY Parts
<1>1. Grown
  BY LogSteps
<1>2. Newest <= Newest' /\ Newest \in Nat /\ Newest' \in Nat
  BY <1>0, <1>1, FileMono
<1>3. \A f \in being \cup Processed : f \in Nat /\ f < Newest
  <2>1. being \cup Processed \subseteq File
    BY <1>0 DEF SelType, Processed, LogType
  <2>2. \A f \in File : f \in Nat
    BY CleanerAssumption DEF File
  <2>. QED
    BY <2>1, <2>2 DEF FileInv, OldInv
<1>4. \A f \in being' \cup Processed' : f < Newest'
  <2>1. CASE being' \cup Processed' \subseteq being \cup Processed
    BY <1>2, <1>3, <2>1
  <2>2. ASSUME NEW f \in File, CleanSelect(f) PROVE \A g \in being' \cup Processed' : g < Newest'
    <3>1. being' = {f} /\ Processed' = Processed /\ f < clamp /\ pc["cleaner"] = "pending"
      BY <2>2, CleanSelectIs
    <3>2. clamp <= Newest
      BY <3>1 DEF FileInv, ClampInv
    <3>3. f \in Nat /\ clamp \in Nat
      BY <1>0, CleanerAssumption DEF PassType, File
    <3>. QED
      BY <1>2, <1>3, <3>1, <3>2, <3>3
  <2>3. FilesSame \/ CleanEnd \/ CkptAfter => being' \cup Processed' \subseteq being \cup Processed
    BY CleanEndIs, CkptAfterIs DEF FilesSame, FileInv
  <2>. QED
    BY <2>1, <2>2, <2>3, FileSteps DEF FileInv
<1>5. snap' \subseteq cleaned'
  <2>1. CASE CkptAfter
    BY <2>1, CkptAfterIs DEF FileInv
  <2>2. CASE ~CkptAfter
    <3>1. snap' \in {snap, cleaned, {}}
      BY <2>2 DEF Next, NoCrash, Write, Publish, Abort, Commit, PendingRetry, PendingLookup, CleanStart, CleanSelect, CleanNothing, CleanScan, CleanLookup,
       CleanLn, CleanEnd, DeleteSafe, CleanDone, CkptBegin, CkptSnapshot, CkptStart, CkptFlush, CkptEnd, CkptFails, ckptVars, vars
    <3>2. cleaned \subseteq cleaned'
      <4>1. ASSUME NEW f \in File, CleanSelect(f) PROVE cleaned' = cleaned
        BY <4>1, CleanSelectIs
      <4>. QED
        BY <2>2, <4>1, CleanEndIs, FileSteps DEF FilesSame, FileInv
    <3>. QED
      BY <3>1, <3>2 DEF FileInv, OldInv
  <2>. QED
    BY <2>1, <2>2
<1>. QED
  BY <1>4, <1>5 DEF OldInv

LEMMA ProcessedGrows ==
    ASSUME TypeInv, SelInv, FileInv, [Next]_vars, NoCrash
    PROVE  Processed \subseteq Processed'
<1>1. ASSUME NEW f \in File, CleanSelect(f) PROVE Processed' = Processed
  BY <1>1, CleanSelectIs
<1>. QED
  BY <1>1, CleanEndIs, CkptAfterIs, FileSteps DEF FilesSame, FileInv

LEMMA QueueNext ==
    ASSUME TypeInv, SelInv, FileInv, [Next]_vars, NoCrash
    PROVE  QueueInv'
<1>0. QueueType /\ LookType
  BY Parts
<1>1. Processed \subseteq Processed'
  BY ProcessedGrows
<1>2. \A f : f \in Processed => f \in Processed'
  BY <1>1
<1>3. ASSUME NEW a \in Agent
      PROVE  /\ pc'[a] \in {"pending", "retry"} => \A l \in todo'[a] : FileOf(l) \in Processed'
             /\ pc'[a] = "retry" => FileOf(at'[a]) \in Processed'
  <2>1. /\ pc[a] \in {"pending", "retry"} => \A l \in todo[a] : FileOf(l) \in Processed
        /\ pc[a] = "retry" => FileOf(at[a]) \in Processed
    BY DEF FileInv, QueueInv
  <2>2. CASE AgentSame(a)
    BY <1>2, <2>1, <2>2 DEF AgentSame
  <2>3. CASE Starts(a)
    <3>1. \A l \in pending : FileOf(l) \in Processed
      BY DEF SelInv, PendingInv, Processed
    <3>. QED
      BY <1>2, <2>3, <3>1 DEF Starts
  <2>4. CASE Retried(a)
    BY <1>2, <2>1, <2>4 DEF Retried
  <2>5. ASSUME NEW l, Looks(a, l)
        PROVE  /\ pc'[a] \in {"pending", "retry"} => \A m \in todo'[a] : FileOf(m) \in Processed'
               /\ pc'[a] = "retry" => FileOf(at'[a]) \in Processed'
    <3>1. at'[a] = l /\ todo'[a] \subseteq todo[a] /\ l \in todo[a]
      BY <1>0, <2>5 DEF Looks, Looked, QueueType, LookType
    <3>2. pc'[a] \in {"pending", "retry"} => pc[a] = "pending"
      BY <2>5 DEF Looks
    <3>. QED
      BY <1>2, <2>1, <3>1, <3>2
  <2>. QED
    BY <2>2, <2>3, <2>4, <2>5, AgentSteps
<1>. QED
  BY <1>3 DEF QueueInv, FileOf

LEMMA StutterQuiet == ASSUME UNCHANGED vars PROVE Quiet
BY DEF vars, Quiet, QuietLog, logVars, treeVars, txnVars

\* Only a new LN becomes active.
LEMMA ActiveSteps ==
    ASSUME TypeInv, CoreInv, [Next]_vars, NoCrash
    PROVE  \A l \in 1 .. Len(log) : Active(l)' => Active(l)
<1>0. LogType /\ TxnType
  BY Parts
<1>1. Grown
  BY LogSteps
<1>2. \A l \in 1 .. Len(log) : log'[l] = log[l]
  BY <1>1 DEF Grown
<1>3. ASSUME txn' = txn PROVE \A l \in 1 .. Len(log) : Active(l)' => Active(l)
  BY <1>2, <1>3 DEF Active, Is
<1>4. ASSUME NEW t \in Txn, txn'[t] = "done" \/ txn[t] \in {"idle", "active"}, \A u \in Txn : u # t => txn'[u] = txn[u]
      PROVE  \A l \in 1 .. Len(log) : Active(l)' => Active(l)
  <2>. SUFFICES ASSUME NEW l \in 1 .. Len(log), Active(l)' PROVE Active(l)
    OBVIOUS
  <2>1. log[l].type = "LN" /\ log[l].txn # None /\ txn'[log[l].txn] = "active"
    BY <1>2 DEF Active, Is
  <2>2. log[l].txn \in Txn
    BY <1>0, <2>1, EntryIs
  <2>3. txn[log[l].txn] # "idle"
    BY <2>1 DEF CoreInv, OwnerInv, IsLN
  <2>4. txn[log[l].txn] = "active"
    BY <1>4, <2>1, <2>2, <2>3
  <2>. QED
    BY <2>1, <2>4 DEF Active, Is
<1>5. ASSUME NEW t \in Txn, NEW k \in Key, Write(t, k) PROVE \A l \in 1 .. Len(log) : Active(l)' => Active(l)
  <2>1. txn[t] \in {"idle", "active"} /\ \A u \in Txn : u # t => txn'[u] = txn[u]
    BY <1>0, <1>5 DEF Write, TxnType
  <2>. QED
    BY <1>4, <2>1
<1>6. ASSUME NEW t \in Txn, Abort(t) \/ \E sync \in BOOLEAN : Commit(t, sync)
      PROVE  \A l \in 1 .. Len(log) : Active(l)' => Active(l)
  <2>1. Released(t)
    BY <1>6 DEF Abort, Commit
  <2>2. txn'[t] = "done" /\ \A u \in Txn : u # t => txn'[u] = txn[u]
    BY <1>0, <2>1, ReleasedIs
  <2>. QED
    BY <1>4, <2>2
<1>7. (\E k \in Key : Publish(k)) \/ (\E l : Moved(l) /\ UNCHANGED txnVars) \/ Quiet => txn' = txn
  BY DEF Publish, Quiet, txnVars
<1>. QED
  BY <1>3, <1>5, <1>6, <1>7, MemSteps, StutterQuiet DEF NoCrash

LEMMA ClosedNext ==
    ASSUME TypeInv, SelInv, CoreInv, FileInv, [Next]_vars, NoCrash
    PROVE  ClosedInv'
<1>0. LogType /\ SelType /\ PassType
  BY Parts
<1>1. Grown
  BY LogSteps
<1>2. \A i \in 1 .. Len(log') : i \notin 1 .. Len(log) => Newest <= FileOf(i)
  BY <1>0, <1>1, FileMono
<1>3. \A f \in being \cup Processed : f \in Nat /\ f < Newest
  <2>1. being \cup Processed \subseteq File
    BY <1>0 DEF SelType, Processed, LogType
  <2>2. \A f \in File : f \in Nat
    BY CleanerAssumption DEF File
  <2>. QED
    BY <2>1, <2>2 DEF FileInv, OldInv
<1>4. Newest \in Nat /\ \A i \in 1 .. Len(log') : FileOf(i) \in Nat
  BY <1>0, <1>1, LenIs, FileOfType DEF Newest, Grown
<1>5. ASSUME NEW l \in 1 .. Len(log'), Active(l)' PROVE FileOf(l) \notin being' \cup Processed'
  <2>1. ASSUME being' \cup Processed' \subseteq being \cup Processed
        PROVE  FileOf(l) \notin being' \cup Processed'
    <3>1. CASE l \in 1 .. Len(log)
      BY <1>5, <2>1, <3>1, ActiveSteps DEF FileInv, ClosedInv
    <3>2. CASE l \notin 1 .. Len(log)
      BY <1>2, <1>3, <1>4, <2>1, <3>2
    <3>. QED
      BY <3>1, <3>2
  <2>2. ASSUME NEW f \in File, CleanSelect(f) PROVE FileOf(l) \notin being' \cup Processed'
    <3>1. /\ being' = {f} /\ Processed' = Processed /\ f < clamp /\ pc["cleaner"] = "pending"
          /\ log' = log /\ txn' = txn
      BY <2>2, CleanSelectIs
    <3>2. Active(l) /\ l \in 1 .. Len(log)
      BY <1>5, <3>1, ActiveSteps
    <3>3. clamp <= FileOf(l) /\ FileOf(l) \notin Processed
      BY <3>1, <3>2 DEF FileInv, ClampInv, ClosedInv
    <3>4. f \in Nat /\ clamp \in Nat /\ FileOf(l) \in Nat
      BY <1>0, <1>4, CleanerAssumption DEF PassType, File
    <3>. QED
      BY <3>1, <3>3, <3>4
  <2>3. FilesSame \/ CleanEnd \/ CkptAfter => being' \cup Processed' \subseteq being \cup Processed
    BY CleanEndIs, CkptAfterIs DEF FilesSame, FileInv
  <2>. QED
    BY <2>1, <2>2, <2>3, FileSteps DEF FileInv
<1>. QED
  BY <1>5 DEF ClosedInv, FileOf

LEMMA ClampNext ==
    ASSUME TypeInv, SelInv, CoreInv, FileInv, [Next]_vars, NoCrash
    PROVE  ClampInv'
<1>0. LogType /\ PcType /\ PassType
  BY Parts
<1>1. Grown
  BY LogSteps
<1>2. /\ \A i \in 1 .. Len(log') : i \notin 1 .. Len(log) => Newest <= FileOf(i)
      /\ Newest <= Newest' /\ Newest \in Nat /\ Newest' \in Nat
  BY <1>0, <1>1, FileMono
<1>4. \A i \in 1 .. Len(log') : FileOf(i) \in Nat /\ i \in Nat \ {0}
  BY <1>1, FileOfType DEF Grown
<1>5. CASE CleanStart
  <2> DEFINE open == {l \in 1 .. Len(log) : IsLN(l) /\ log[l].txn # None /\ txn[log[l].txn] = "active"}
  <2>1. clamp' = Min({Newest, FirstActiveFile}) /\ log' = log /\ txn' = txn
    BY <1>5 DEF CleanStart, logVars, txnVars
  <2>2. {Newest, FirstActiveFile} \subseteq Nat
    BY <1>0, <1>2, FirstActiveFileIs, CleanerAssumption DEF File
  <2>3. Min({Newest, FirstActiveFile}) <= Newest /\ Min({Newest, FirstActiveFile}) <= FirstActiveFile
        /\ Min({Newest, FirstActiveFile}) \in Nat
    BY <2>2, MinIs
  <2>4. ASSUME NEW l \in open PROVE FirstActiveFile <= FileOf(l)
    <3>1. open \subseteq Nat /\ open # {}
      BY <1>0, LenIs
    <3>2. FirstActiveFile = IF open = {} THEN MaxLog ELSE FileOf(Min(open))
      BY DEF FirstActiveFile
    <3>3. \A m \in open : m \in 1 .. Len(log)
      OBVIOUS
    <3>. HIDE DEF open
    <3>4. Min(open) \in open /\ Min(open) <= l
      BY <3>1, MinIs
    <3>5. Min(open) \in Nat \ {0} /\ l \in Nat \ {0}
      BY <1>0, <3>3, <3>4, LenIs
    <3>. QED
      BY <3>1, <3>2, <3>4, <3>5, FileOfType
  <2>5. \A l \in 1 .. Len(log') : Active(l)' => l \in open
    BY <2>1 DEF Active, Is, IsLN
  <2>. HIDE DEF open
  <2>6. FirstActiveFile \in Nat
    BY <2>2
  <2>7. \A l \in 1 .. Len(log') : Active(l)' => clamp' <= FileOf(l)
    BY <1>4, <2>1, <2>3, <2>4, <2>5, <2>6
  <2>8. clamp' <= Newest'
    BY <2>1, <2>3 DEF Newest
  <2>. QED
    BY <2>7, <2>8 DEF ClampInv, FileOf
<1>6. CASE ~CleanStart
  <2>1. ASSUME pc'["cleaner"] \in {"pending", "retry"}
        PROVE  pc["cleaner"] \in {"pending", "retry"} /\ clamp' = clamp
    <3>1. ASSUME (\E f \in File : CleanSelect(f)) \/ CleanNothing PROVE FALSE
      BY <1>0, <2>1, <3>1, AgentsAre DEF CleanSelect, CleanNothing, PcType
    <3>2. clamp' = clamp
      BY <1>6, <3>1 DEF Next, NoCrash, Write, Publish, Abort, Commit, PendingRetry, PendingLookup, CleanScan, CleanLookup,
         CleanLn, CleanEnd, DeleteSafe, CleanDone, CkptBegin, CkptSnapshot, CkptStart, CkptFlush, CkptEnd, CkptAfter,
         CkptFails, passVars, vars
    <3>4. pc'["cleaner"] = pc["cleaner"] \/ pc["cleaner"] \in {"pending", "retry"}
      BY <1>0, <1>6, <2>1, AgentsAre DEF PcType, Next, NoCrash, Write, Publish, Abort, Commit, PendingRetry, PendingLookup, CleanSelect, CleanNothing, CleanScan, CleanLookup,
         CleanLn, CleanEnd, DeleteSafe, CleanDone, CkptBegin, CkptSnapshot, CkptStart, CkptFlush, CkptEnd, CkptAfter,
         CkptFails, passVars, vars, Agent
    <3>. QED
      BY <2>1, <3>2, <3>4
  <2>2. ASSUME pc'["cleaner"] \in {"pending", "retry"}
        PROVE  clamp' <= Newest' /\ \A l \in 1 .. Len(log') : Active(l)' => clamp' <= FileOf(l)
    <3>1. clamp' = clamp /\ clamp \in Nat /\ clamp <= Newest
          /\ \A l \in 1 .. Len(log) : Active(l) => clamp <= FileOf(l)
      BY <1>0, <2>1, <2>2, CleanerAssumption DEF FileInv, ClampInv, PassType, File
    <3>2. ASSUME NEW l \in 1 .. Len(log'), Active(l)' PROVE clamp <= FileOf(l)
      <4>1. CASE l \in 1 .. Len(log)
        BY <3>1, <3>2, <4>1, ActiveSteps
      <4>2. CASE l \notin 1 .. Len(log)
        BY <1>2, <1>4, <3>1, <4>2
      <4>. QED
        BY <4>1, <4>2
    <3>. QED
      BY <1>2, <3>1, <3>2
  <2>. QED
    BY <2>2 DEF ClampInv, FileOf
<1>. QED
  BY <1>5, <1>6

-----------------------------------------------------------------------------
(* Lookups *)

LEMMA LiveIs ==
    ASSUME TypeInv, CoreInv, NEW k \in Key, NEW l, Live(k, l)
    PROVE  l \in 1 .. Len(log) /\ IsVersion(l, k)
<1>1. MemAt(k) /\ IsVersion(slot[k], k)
  BY DEF CoreInv, MemInv, SlotsInv
<1>2. CASE l = slot[k]
  BY <1>1, <1>2 DEF IsVersion, Is
<1>3. CASE l = before[k] /\ l # None
  BY <1>1, <1>3 DEF MemAt, IsCur, Vers, IsVersion, Is, IsLN
<1>. QED
  BY <1>2, <1>3 DEF Live

\* The committed version of a record is one that memory refers to.
LEMMA CurLive ==
    ASSUME TypeInv, CoreInv, NEW k \in Key, NEW l, IsCur(l, k, Len(log))
    PROVE  Live(k, l)
<1>0. LogType
  BY Parts
<1>1. Len(log) \in 0 .. Len(log) /\ l # None
  BY <1>0, LenIs DEF IsCur, Vers, None
<1>2. MemAt(k)
  BY DEF CoreInv, MemInv
<1>3. CASE writer[k] = None
  <2>1. l = slot[k]
    BY <1>0, <1>1, <1>2, <1>3, CurUnique DEF MemAt
  <2>. QED
    BY <2>1 DEF Live
<1>4. CASE writer[k] # None
  <2>1. l = before[k]
    BY <1>0, <1>1, <1>2, <1>4, CurUnique DEF MemAt
  <2>. QED
    BY <1>1, <2>1 DEF Live
<1>. QED
  BY <1>3, <1>4

\* What a lookup refers to is in a file in hand, so no open transaction wrote it.
LEMMA AtIs ==
    ASSUME TypeInv, SelInv, CoreInv, FileInv, NEW a \in Agent, pc[a] \in {"retry", "found"}
    PROVE  /\ at[a] \in 1 .. Len(log) /\ KeyOf(at[a]) \in Key /\ IsLN(at[a]) /\ ~Active(at[a])
           /\ FileOf(at[a]) \in being \cup Processed
<1>0. LogType /\ LookType /\ PcType
  BY Parts
<1>1. Is(at[a], "LN")
  BY <1>0 DEF LookType
<1>2. at[a] \in 1 .. Len(log) /\ KeyOf(at[a]) \in Key /\ IsLN(at[a])
  BY <1>0, <1>1, EntryIs DEF Is, IsLN, KeyOf
<1>3. FileOf(at[a]) \in being \cup Processed
  <2>1. CASE pc[a] = "retry"
    BY <2>1 DEF FileInv, QueueInv
  <2>2. CASE pc[a] = "found"
    <3>1. a = "cleaner"
      BY <1>0, <2>2 DEF PcType, CkptPcs, Agent
    <3>. QED
      BY <2>2, <3>1 DEF SelInv, BeingInv
  <2>. QED
    BY <2>1, <2>2
<1>. QED
  BY <1>2, <1>3 DEF FileInv, ClosedInv

LEMMA TreeNext ==
    ASSUME TypeInv, CoreInv, TreeInv, [Next]_vars, NoCrash
    PROVE  TreeInv'
<1>0. LogType /\ LookType /\ QueueType
  BY Parts
<1>1. ASSUME NEW a \in Agent, pc'[a] \in {"retry", "found"} PROVE tree'[a] # None
  <2>1. CASE AgentSame(a)
    BY <1>1, <2>1 DEF AgentSame, TreeInv
  <2>2. ASSUME NEW l, Looks(a, l) PROVE tree'[a] # None
    <3>1. l \in todo[a] /\ tree'[a] = slot[KeyOf(l)]
      BY <1>0, <2>2 DEF Looks, Looked, LookType
    <3>2. l \in 1 .. Len(log) /\ IsLN(l)
      BY <1>0, <3>1 DEF QueueType
    <3>3. KeyOf(l) \in Key
      BY <1>0, <3>2, EntryIs DEF IsLN, KeyOf
    <3>4. slot[KeyOf(l)] \in 1 .. Len(log)
      BY <3>3 DEF CoreInv, SlotsInv, IsVersion, Is
    <3>. QED
      BY <3>1, <3>4 DEF None
  <2>. QED
    BY <1>1, <2>1, <2>2, AgentSteps DEF Starts, Retried
<1>. QED
  BY <1>1 DEF TreeInv

LEMMA LookNext ==
    ASSUME exposed' = {}, TypeInv, SelInv, CoreInv, FileInv, TreeInv, LookInv, [Next]_vars, NoCrash
    PROVE  LookInv'
<1>0. LogType /\ LookType /\ QueueType /\ TreeType /\ TxnType
  BY Parts
<1>1. Grown
  BY LogSteps
<1>2. ASSUME NEW a \in Agent, pc'[a] \in {"retry", "found"}, NEW k \in Key,
             KeyOf(at[a])' = k, Live(k, at[a])', tree'[a] # at'[a]
      PROVE  WriteLocked(k, tree[a])'
  <2>1. ASSUME NEW l, Looks(a, l) PROVE WriteLocked(k, tree[a])'
    <3>1. /\ l \in todo[a] /\ tree'[a] = slot[KeyOf(l)] /\ at'[a] = l /\ log' = log /\ slot' = slot
          /\ writer' = writer /\ before' = before /\ unpub' = unpub
      BY <1>0, <2>1 DEF Looks, Looked, LookType, txnVars
    <3>2. KeyOf(l) = k
      BY <1>2, <3>1 DEF KeyOf
    <3>3. l = before[k] /\ l # None
      BY <1>2, <3>1, <3>2 DEF Live
    <3>4. writer[k] # None
      BY <3>3 DEF CoreInv, MemInv, MemAt
    <3>5. PICK T : T = slot[k]
      OBVIOUS
    <3>6. WriteLocked(k, T)'
      BY <1>1, <3>1, <3>4, <3>5, SlotLocked, LocksKept
    <3>. QED
      BY <3>1, <3>2, <3>5, <3>6 DEF WriteLocked, OwnLns
  <2>2. CASE AgentSame(a)
    <3>1. pc[a] \in {"retry", "found"} /\ at'[a] = at[a] /\ tree'[a] = tree[a]
      BY <1>2, <2>2 DEF AgentSame
    <3>2. PICK L, T : L = at[a] /\ T = tree[a]
      OBVIOUS
    <3>3. L \in 1 .. Len(log) /\ KeyOf(L) \in Key /\ IsLN(L) /\ ~Active(L) /\ T # None /\ T # L
      BY <1>2, <3>1, <3>2, AtIs DEF TreeInv
    <3>4. KeyOf(L) = k /\ Live(k, L)'
      BY <1>1, <1>2, <3>1, <3>2, <3>3 DEF KeyOf, Live, Grown
    <3>5. Live(k, L) => WriteLocked(k, T)
      BY <3>1, <3>2, <3>3, <3>4 DEF LookInv
    <3>6. MemAt(k)
      BY DEF CoreInv, MemInv
    <3>7. ASSUME slot'[k] = slot[k], before'[k] = before[k], writer'[k] = writer[k]
          PROVE  WriteLocked(k, T)'
      <4>1. WriteLocked(k, T)
        BY <3>4, <3>5, <3>7 DEF Live
      <4>. QED
        BY <1>1, <3>7, <4>1, LocksKept
    <3>8. ASSUME NEW t \in Txn, NEW j \in Key, Write(t, j) PROVE WriteLocked(k, T)'
      <4>1. slot' = slot /\ writer[j] \in {None, t} /\ before'[j] = AbortLsn(t, j) /\ writer'[j] = t
            /\ (j # k => before'[k] = before[k] /\ writer'[k] = writer[k])
        BY <1>0, <3>8 DEF Write, treeVars, TxnType
      <4>2. CASE j = k
        <5>1. CASE writer[k] = t
          BY <3>7, <4>1, <4>2, <5>1 DEF AbortLsn
        <5>2. CASE writer[k] # t
          <6>1. writer[k] = None /\ before'[k] = slot[k]
            BY <4>1, <4>2, <5>2 DEF AbortLsn
          <6>2. Live(k, L)
            BY <3>4, <4>1, <6>1 DEF Live
          <6>. QED
            BY <3>5, <6>1, <6>2 DEF WriteLocked
        <5>. QED
          BY <5>1, <5>2
      <4>. QED
        BY <3>7, <4>1, <4>2
    <3>9. ASSUME NEW j \in Key, Publish(j) PROVE WriteLocked(k, T)'
      <4>1. /\ writer' = writer /\ before' = before /\ unpub[j] # None /\ slot'[j] = unpub[j]
            /\ (j # k => slot'[k] = slot[k] /\ unpub'[k] = unpub[k])
        BY <1>0, <3>9 DEF Publish, TxnType, TreeType
      <4>2. CASE j = k
        <5>1. writer[k] # None
          BY <3>6, <4>1, <4>2 DEF MemAt
        <5>2. L # unpub[k]
          <6>1. Active(unpub[k])
            <7>1. txn[writer[k]] = "active" /\ IsVersion(unpub[k], k) /\ log[unpub[k]].txn = writer[k]
              BY <3>6, <4>1, <4>2, <5>1 DEF MemAt, Last
            <7>. QED
              BY <5>1, <7>1 DEF Active, IsVersion
          <6>. QED
            BY <3>3, <6>1
        <5>3. Live(k, L)
          BY <3>4, <4>1, <4>2, <5>2 DEF Live
        <5>. QED
          BY <1>1, <3>5, <4>1, <5>3, LocksKept
      <4>. QED
        BY <3>7, <4>1, <4>2
    <3>10. ASSUME NEW t \in Txn, NEW sync \in BOOLEAN, Commit(t, sync) PROVE WriteLocked(k, T)'
      <4>1. slot' = slot /\ Released(t) /\ txn[t] = "active" /\ (writer[k] = t => unpub[k] = None)
        BY <3>10 DEF Commit, treeVars, Written
      <4>2. CASE writer[k] = t
        <5>1. before'[k] = None
          BY <1>0, <4>1, <4>2, ReleasedIs
        <5>2. L = slot[k] /\ t # None
          BY <3>4, <4>1, <5>1, CleanerAssumption DEF Live, None
        <5>3. Active(L)
          <6>1. IsVersion(L, k) /\ log[L].txn = t
            BY <3>6, <4>1, <4>2, <5>2 DEF MemAt, Last
          <6>. QED
            BY <4>1, <5>2, <6>1 DEF Active, IsVersion
        <5>. QED
          BY <3>3, <5>3
      <4>3. CASE writer[k] # t
        BY <1>0, <3>7, <4>1, <4>3, ReleasedIs
      <4>. QED
        BY <4>2, <4>3
    <3>11. ASSUME NEW t \in Txn, Abort(t) PROVE WriteLocked(k, T)'
      <4>1. /\ slot'[k] = IF writer[k] = t THEN before[k] ELSE slot[k]
            /\ Released(t) /\ (writer[k] = t => unpub[k] = None) /\ ~AbortRaces(t)
        BY <3>11 DEF Abort, Written
      <4>2. CASE writer[k] = t
        <5>1. before'[k] = None /\ slot'[k] = before[k]
          BY <1>0, <4>1, <4>2, ReleasedIs
        <5>2. L = before[k] /\ L # None
          BY <3>3, <3>4, <5>1 DEF Live, None
        <5>3. AbortRaces(t)
          BY <3>2, <3>3, <4>2, <5>2 DEF AbortRaces, Written
        <5>. QED
          BY <4>1, <5>3
      <4>3. CASE writer[k] # t
        <5>1. slot'[k] = slot[k]
          BY <4>1, <4>3
        <5>. QED
          BY <1>0, <3>7, <4>1, <4>3, <5>1, ReleasedIs
      <4>. QED
        BY <4>2, <4>3
    <3>12. ASSUME NEW l, Moved(l), UNCHANGED txnVars PROVE WriteLocked(k, T)'
      <4>1. /\ writer' = writer /\ before' = before /\ unpub' = unpub
            /\ slot' = [slot EXCEPT ![KeyOf(l)] = Len(log) + 1] /\ writer[KeyOf(l)] = None /\ KeyOf(l) \in Key
        BY <3>12 DEF Moved, txnVars
      <4>2. CASE KeyOf(l) = k
        <5>1. slot'[k] = Len(log) + 1 /\ before'[k] = None
          BY <1>0, <3>6, <4>1, <4>2 DEF MemAt, TreeType
        <5>. QED
          BY <1>0, <3>3, <3>4, <5>1, LenIs DEF Live
      <4>3. CASE KeyOf(l) # k
        <5>1. slot'[k] = slot[k]
          BY <1>0, <4>1, <4>3 DEF TreeType
        <5>. QED
          BY <3>7, <4>1, <5>1
      <4>. QED
        BY <4>2, <4>3
    <3>13. Quiet => WriteLocked(k, T)'
      BY <3>7 DEF Quiet
    <3>14. WriteLocked(k, T)'
      BY <3>8, <3>9, <3>10, <3>11, <3>12, <3>13, MemSteps, StutterQuiet DEF NoCrash
    <3>. QED
      BY <3>1, <3>2, <3>14 DEF WriteLocked
  <2>. QED
    BY <1>2, <2>1, <2>2, AgentSteps DEF Starts, Retried
<1>. QED
  BY <1>2 DEF LookInv, KeyOf, Live, WriteLocked, OwnLns, IsLN

\* An LN found dead, or moved, is one that memory no longer refers to.
LEMMA Settles ==
    ASSUME TypeInv, SelInv, CoreInv, FileInv, LookInv, NEW a \in Agent, pc[a] \in {"retry", "found"},
           Migrated(at[a], Outcome(at[a], tree[a])), Outcome(at[a], tree[a]) # "Locked",
           durable' = durable, gone' = gone, UNCHANGED txnVars, NEW l, l = at[a]
    PROVE  \A k \in Key : ~Live(k, l)'
<1>0. LogType /\ TreeType
  BY Parts
<1>1. PICK T, k : T = tree[a] /\ k = KeyOf(l)
  OBVIOUS
<1>2. l \in 1 .. Len(log) /\ k \in Key /\ Is(l, "LN") /\ log[l].key = k
  BY <1>1, AtIs DEF Is, IsLN, KeyOf
<1>3. Migrated(l, Outcome(l, T)) /\ Outcome(l, T) # "Locked"
  BY <1>1
<1>4. before' = before
  BY DEF txnVars
<1>5. \A j \in Key : Live(j, l) => j = k
  BY <1>2, LiveIs DEF IsVersion
<1>6. CASE Outcome(l, T) = "Dead"
  <2>1. ~WriteLocked(k, T) /\ (slot[k] # T \/ T # l)
    BY <1>1, <1>2, <1>6, OutcomeIs
  <2>2. slot' = slot
    BY <1>2, <1>3, <1>6, MigratedIs
  <2>3. ~Live(k, l)
    <3>1. ASSUME Live(k, l) PROVE FALSE
      <4>1. T = l
        BY <1>1, <1>2, <2>1, <3>1 DEF LookInv
      <4>2. l = before[k] /\ l # None
        BY <2>1, <3>1, <4>1 DEF Live
      <4>3. writer[k] # None
        BY <1>2, <4>2 DEF CoreInv, MemInv, MemAt
      <4>. QED
        BY <2>1, <4>1, <4>2, <4>3 DEF WriteLocked
    <3>. QED
      BY <3>1
  <2>4. \A j \in Key : ~Live(j, l)
    BY <1>5, <2>3
  <2>. QED
    BY <1>4, <2>2, <2>4 DEF Live
<1>7. CASE Outcome(l, T) # "Dead"
  <2>1. Moved(l)
    BY <1>2, <1>3, <1>7, MigratedIs
  <2>2. slot[k] = l /\ writer[k] = None /\ slot' = [slot EXCEPT ![k] = Len(log) + 1]
    BY <1>1, <2>1 DEF Moved
  <2>3. before[k] = None /\ slot'[k] = Len(log) + 1 /\ \A j \in Key : j # k => slot'[j] = slot[j]
    BY <1>0, <1>2, <2>2 DEF CoreInv, MemInv, MemAt, TreeType
  <2>4. l # Len(log) + 1 /\ l # None
    BY <1>0, <1>2, LenIs DEF None
  <2>5. ~Live(k, l)'
    BY <1>4, <2>3, <2>4 DEF Live
  <2>6. \A j \in Key : j # k => ~Live(j, l)'
    BY <1>4, <1>5, <2>3 DEF Live
  <2>. QED
    BY <2>5, <2>6
<1>. QED
  BY <1>6, <1>7

-----------------------------------------------------------------------------
(* Live versions *)

\* process_pending settles an LN.
Removed(a) ==
    /\ pc[a] = "retry" /\ PendingRetry(a) /\ pending' = pending \ {at[a]}
    /\ settled' = [settled EXCEPT ![FileOf(at[a])] = Len(log')]
    /\ Migrated(at[a], Outcome(at[a], tree[a])) /\ Outcome(at[a], tree[a]) # "Locked"
    /\ durable' = durable /\ gone' = gone /\ UNCHANGED txnVars

LEMMA PendingSteps ==
    ASSUME TypeInv, [Next]_vars, NoCrash
    PROVE  \/ pending' = pending /\ settled' = settled
           \/ CleanEnd /\ settled' = settled
           \/ \E a \in Agent : Removed(a)
<1>1. ASSUME \/ \E t \in Txn, k \in Key : Write(t, k)
             \/ \E k \in Key : Publish(k)
             \/ \E t \in Txn : Abort(t) \/ \E sync \in BOOLEAN : Commit(t, sync)
             \/ \E a \in Agent : \E l \in todo[a] : PendingLookup(a, l)
             \/ CleanStart \/ (\E f \in File : CleanSelect(f)) \/ CleanNothing \/ CleanScan
             \/ CleanLookup \/ CleanLn \/ DeleteSafe \/ CleanDone
             \/ CkptBegin \/ CkptSnapshot \/ CkptStart \/ CkptFlush \/ CkptEnd \/ CkptAfter \/ CkptFails
             \/ UNCHANGED vars
      PROVE  pending' = pending /\ settled' = settled
  BY <1>1 DEF Write, Publish, Abort, Commit, PendingLookup, CleanStart, CleanSelect, CleanNothing, CleanScan,
     CleanLookup, CleanLn, DeleteSafe, CleanDone, CkptBegin, CkptSnapshot, CkptStart, CkptFlush, CkptEnd,
     CkptAfter, CkptFails, selVars, vars
<1>2. ASSUME CleanEnd PROVE settled' = settled
  BY <1>2 DEF CleanEnd
<1>3. ASSUME NEW a \in Agent, PendingRetry(a) PROVE (pending' = pending /\ settled' = settled) \/ Removed(a)
  <2>1. CASE Outcome(at[a], tree[a]) = "Locked"
    BY <1>3, <2>1 DEF PendingRetry, selVars
  <2>2. CASE Outcome(at[a], tree[a]) # "Locked"
    BY <1>3, <2>2 DEF PendingRetry, RemovePendingLn, Removed
  <2>. QED
    BY <2>1, <2>2
<1>. QED
  BY <1>1, <1>2, <1>3 DEF Next, NoCrash

\* The cleaner's own steps while it looks at the LNs of a file.
CleanerSame == /\ AgentSame("cleaner") /\ locked' = locked /\ being' = being
LEMMA CleanerSteps ==
    ASSUME TypeInv, SelInv, FileInv, [Next]_vars, NoCrash
    PROVE  \/ CleanerSame \/ CleanScan \/ CleanLookup \/ CleanLn
           \/ pc'["cleaner"] \notin {"lns", "found"}
<1>0. PcType /\ QueueType /\ LookType
  BY Parts
<1>1. ASSUME \/ \E t \in Txn, k \in Key : Write(t, k)
             \/ \E k \in Key : Publish(k)
             \/ \E t \in Txn : Abort(t) \/ \E sync \in BOOLEAN : Commit(t, sync)
             \/ UNCHANGED vars \/ DeleteSafe
      PROVE  CleanerSame
  BY <1>1 DEF Write, Publish, Abort, Commit, lookVars, passVars, selVars, vars, DeleteSafe, AgentSame, CleanerSame
<1>2. ASSUME NEW a \in Agent, PendingRetry(a) PROVE CleanerSame \/ pc'["cleaner"] \notin {"lns", "found"}
  <2>1. /\ pc' = [pc EXCEPT ![a] = "pending"] /\ LookupDone(a) /\ todo' = todo /\ locked' = locked /\ being' = being
    BY <1>2 DEF PendingRetry, passVars, RemovePendingLn, selVars
  <2>. QED
    BY <1>0, <2>1, AgentsAre DEF CleanerSame, AgentSame, PcType, LookType, LookupDone
<1>3. ASSUME NEW a \in Agent, NEW l \in todo[a], PendingLookup(a, l)
      PROVE  CleanerSame \/ pc'["cleaner"] \notin {"lns", "found"}
  <2>1. /\ pc' = [pc EXCEPT ![a] = "retry"] /\ Looked(a, l) /\ locked' = locked /\ being' = being
    BY <1>3 DEF PendingLookup, passVars, selVars
  <2>. QED
    BY <1>0, <2>1, AgentsAre DEF CleanerSame, AgentSame, PcType, LookType, QueueType, Looked
<1>4. ASSUME CleanStart \/ (\E f \in File : CleanSelect(f)) \/ CleanNothing \/ CleanEnd \/ CleanDone
      PROVE  pc'["cleaner"] \notin {"lns", "found"}
  BY <1>0, <1>4, AgentsAre DEF CleanStart, CleanSelect, CleanNothing, CleanEnd, CleanDone, PcType
<1>5. ASSUME \/ CkptBegin \/ CkptSnapshot \/ CkptStart \/ CkptFlush \/ CkptEnd \/ CkptAfter \/ CkptFails
      PROVE  CleanerSame
  BY <1>0, <1>5, AgentsAre DEF CkptBegin, CkptSnapshot, CkptStart, CkptFlush, CkptEnd, CkptAfter, CkptFails,
     PcType, QueueType, LookType, lookVars, passVars, selVars, CleanerSame, AgentSame
<1>. QED
  BY <1>1, <1>2, <1>3, <1>4, <1>5 DEF Next, NoCrash

\* A version that becomes live is new, or of an open transaction.
LEMMA LiveSteps ==
    ASSUME TypeInv, SelInv, CoreInv, FileInv, [Next]_vars, NoCrash, OldInv', ClosedInv', CoreInv', TypeInv'
    PROVE  \A k \in Key : \A l \in 1 .. Len(log') :
              Live(k, l)' => Live(k, l) \/ FileOf(l) \notin being' \cup Processed'
<1>0. LogType /\ TreeType /\ TxnType
  BY Parts
<1>1. Grown
  BY LogSteps
<1>. SUFFICES ASSUME NEW k \in Key, NEW l \in 1 .. Len(log'), Live(k, l)', ~Live(k, l)
              PROVE  FileOf(l) \notin being' \cup Processed'
  OBVIOUS
<1>2. MemAt(k)
  BY DEF CoreInv, MemInv
<1>3. ASSUME slot'[k] = slot[k], before'[k] = before[k] PROVE FALSE
  BY <1>3 DEF Live
<1>4. ASSUME NEW t \in Txn, NEW j \in Key, Write(t, j) PROVE FALSE
  <2>1. slot' = slot /\ before'[j] \in {slot[j], before[j]} /\ (j # k => before'[k] = before[k])
    BY <1>0, <1>4 DEF Write, treeVars, TxnType, AbortLsn
  <2>. QED
    BY <1>3, <2>1 DEF Live
<1>5. ASSUME NEW j \in Key, Publish(j) PROVE FileOf(l) \notin being' \cup Processed'
  <2>1. /\ writer' = writer /\ before' = before /\ unpub[j] # None /\ slot'[j] = unpub[j]
        /\ (j # k => slot'[k] = slot[k]) /\ log' = log /\ txn' = txn
    BY <1>0, <1>5 DEF Publish, TxnType, TreeType, logVars
  <2>2. j = k /\ l = unpub[k]
    BY <2>1 DEF Live
  <2>3. writer[k] # None /\ txn[writer[k]] = "active" /\ IsVersion(l, k) /\ log[l].txn = writer[k]
    BY <1>2, <2>1, <2>2 DEF MemAt, Last
  <2>4. Active(l)'
    BY <2>1, <2>3 DEF Active, IsVersion, Is
  <2>. QED
    BY <2>4 DEF ClosedInv, FileOf
<1>6. ASSUME NEW t \in Txn, NEW sync \in BOOLEAN, Commit(t, sync) PROVE FALSE
  <2>1. slot' = slot /\ Released(t)
    BY <1>6 DEF Commit, treeVars
  <2>2. before'[k] = before[k] \/ before'[k] = None
    BY <1>0, <2>1, ReleasedIs
  <2>. QED
    BY <2>1, <2>2 DEF Live
<1>7. ASSUME NEW t \in Txn, Abort(t) PROVE FALSE
  <2>1. slot'[k] = (IF writer[k] = t THEN before[k] ELSE slot[k]) /\ Released(t)
    BY <1>7 DEF Abort
  <2>2. before'[k] = before[k] \/ before'[k] = None
    BY <1>0, <2>1, ReleasedIs
  <2>3. l # None
    BY DEF None
  <2>. QED
    BY <2>1, <2>2, <2>3 DEF Live
<1>8. ASSUME NEW m, Moved(m), UNCHANGED txnVars PROVE FileOf(l) \notin being' \cup Processed'
  <2>1. before' = before /\ slot' = [slot EXCEPT ![KeyOf(m)] = Len(log) + 1] /\ Len(log') = Len(log) + 1
    BY <1>8 DEF Moved, txnVars, Adds
  <2>2. slot'[k] \in {slot[k], Len(log')}
    BY <1>0, <2>1 DEF TreeType
  <2>3. l = Len(log')
    BY <2>1, <2>2 DEF Live
  <2>4. FileOf(l) = Newest'
    BY <2>3 DEF FileOf, Newest
  <2>5. Newest' \in Nat
    BY <1>0, <1>1, FileMono
  <2>6. \A f \in being' \cup Processed' : f < Newest'
    BY DEF OldInv
  <2>. QED
    BY <2>4, <2>5, <2>6
<1>9. Quiet => FALSE
  BY <1>3 DEF Quiet
<1>. QED
  BY <1>4, <1>5, <1>6, <1>7, <1>8, <1>9, MemSteps, StutterQuiet DEF NoCrash

LEMMA LiveNext ==
    ASSUME TypeInv, SelInv, CoreInv, FileInv, LookInv, LiveInv, [Next]_vars, NoCrash,
           OldInv', ClosedInv', CoreInv', TypeInv', SelInv'
    PROVE  LiveInv'
<1>0. LogType /\ PcType /\ QueueType /\ LookType
  BY Parts
<1>. SUFFICES ASSUME NEW k \in Key, NEW l \in 1 .. Len(log'), Live(k, l)', FileOf(l) \in being' \cup Processed'
              PROVE  /\ FileOf(l) \in Processed' => l \in pending'
                     /\ Scanning' /\ FileOf(l) \in being' =>
                          l \in todo'["cleaner"] \cup locked' \/ (pc'["cleaner"] = "found" /\ l = at'["cleaner"])
  BY DEF LiveInv, Live, FileOf
<1>1. Live(k, l)
  BY LiveSteps
<1>2. l \in 1 .. Len(log) /\ IsVersion(l, k)
  BY <1>1, LiveIs
<1>3. /\ FileOf(l) \in Processed => l \in pending
      /\ Scanning /\ FileOf(l) \in being =>
            l \in todo["cleaner"] \cup locked \/ (pc["cleaner"] = "found" /\ l = at["cleaner"])
  BY <1>1, <1>2 DEF LiveInv
<1>4. FileOf(l) \in Processed' => l \in pending'
  <2>1. CASE CleanEnd
    <3>1. /\ Processed' = Processed \cup being /\ pc["cleaner"] = "lns" /\ todo["cleaner"] = {}
          /\ pending' = pending \cup locked
      BY <2>1, CleanEndIs
    <3>. QED
      BY <1>3, <3>1 DEF Scanning
  <2>2. CASE ~CleanEnd
    <3>1. Processed' = Processed
      <4>1. ASSUME NEW f \in File, CleanSelect(f) PROVE Processed' = Processed
        BY <4>1, CleanSelectIs
      <4>. QED
        BY <2>2, <4>1, CkptAfterIs, FileSteps DEF FilesSame, FileInv
    <3>2. ASSUME NEW a \in Agent, Removed(a) PROVE FileOf(l) \in Processed' => l \in pending'
      <4>1. l # at[a]
        <5>1. ASSUME l = at[a] PROVE FALSE
          <6>1. ~Live(k, l)'
            BY <3>2, <5>1, Settles DEF Removed
          <6>. QED
            BY <6>1
        <5>. QED
          BY <5>1
      <4>. QED
        BY <1>3, <3>1, <3>2, <4>1 DEF Removed
    <3>. QED
      BY <1>3, <2>2, <3>1, <3>2, PendingSteps
  <2>. QED
    BY <2>1, <2>2
<1>5. ASSUME Scanning', FileOf(l) \in being'
      PROVE  l \in todo'["cleaner"] \cup locked' \/ (pc'["cleaner"] = "found" /\ l = at'["cleaner"])
  <2>1. CASE CleanerSame
    BY <1>3, <1>5, <2>1 DEF CleanerSame, AgentSame, Scanning
  <2>2. CASE CleanScan
    <3>1. PICK f \in File : being = {f}
      BY <2>2 DEF SelInv, BeingInv, CleanScan, Cleaning
    <3>2. (CHOOSE g \in being : TRUE) = f
      BY <3>1
    <3>3. todo' = [todo EXCEPT !["cleaner"] = {m \in EntriesOf(f) : IsLN(m)}] /\ being' = being
      BY <2>2, <3>2 DEF CleanScan, selVars
    <3>4. todo'["cleaner"] = {m \in EntriesOf(f) : IsLN(m)}
      BY <1>0, <3>3, AgentsAre DEF QueueType
    <3>. QED
      BY <1>2, <1>5, <3>1, <3>3, <3>4 DEF EntriesOf, IsVersion, Is, IsLN
  <2>3. CASE CleanLookup
    <3>1. PICK m : m = Min(todo["cleaner"])
      OBVIOUS
    <3>2. /\ pc["cleaner"] = "lns" /\ pc'["cleaner"] = "found" /\ locked' = locked /\ being' = being
          /\ at'["cleaner"] = m /\ todo'["cleaner"] = todo["cleaner"] \ {m}
      BY <1>0, <2>3, <3>1, AgentsAre DEF CleanLookup, PcType, passVars, selVars, Looked, LookType, QueueType
    <3>. QED
      BY <1>3, <1>5, <3>2 DEF Scanning
  <2>4. CASE CleanLn
    <3>1. /\ pc["cleaner"] = "found" /\ being' = being /\ todo' = todo
          /\ locked' = IF Outcome(at["cleaner"], tree["cleaner"]) = "Locked" THEN locked \cup {at["cleaner"]} ELSE locked
          /\ Migrated(at["cleaner"], Outcome(at["cleaner"], tree["cleaner"]))
          /\ durable' = durable /\ gone' = gone /\ UNCHANGED txnVars
      BY <2>4 DEF CleanLn, selVars
    <3>2. l \in todo["cleaner"] \cup locked \/ l = at["cleaner"]
      BY <1>3, <1>5, <3>1 DEF Scanning
    <3>3. CASE Outcome(at["cleaner"], tree["cleaner"]) = "Locked"
      BY <3>1, <3>2, <3>3
    <3>4. CASE Outcome(at["cleaner"], tree["cleaner"]) # "Locked"
      <4>1. l # at["cleaner"]
        <5>1. ASSUME l = at["cleaner"] PROVE FALSE
          <6>1. ~Live(k, l)'
            BY <3>1, <3>4, <5>1, Settles, AgentsAre
          <6>. QED
            BY <6>1
        <5>. QED
          BY <5>1
      <4>. QED
        BY <3>1, <3>2, <3>4, <4>1
    <3>. QED
      BY <3>3, <3>4
  <2>. QED
    BY <1>5, <2>1, <2>2, <2>3, <2>4, CleanerSteps DEF Scanning
<1>. QED
  BY <1>4, <1>5

-----------------------------------------------------------------------------
(* What the steps do to a checkpoint *)

PlainLog == log' = log \/ \E e : Adds(e) /\ e.type \in {"LN", "Commit", "Abort"}
Plain ==
    /\ PlainLog /\ root' = root
    /\ Ckpting' => pc'["checkpointer"] = pc["checkpointer"] /\ snap' = snap /\ start' = start
    /\ (dirty => dirty') /\ (~dirty' => slot' = slot)

LEMMA MovedPlain ==
    ASSUME TypeInv, CoreInv, NEW l, Is(l, "LN"), NEW tl, Migrated(l, Outcome(l, tl)), durable' = durable, gone' = gone
    PROVE  PlainLog /\ root' = root /\ (dirty => dirty') /\ (~dirty' => slot' = slot)
<1>1. CASE Moved(l)
  <2>1. dirty'
    BY <1>1 DEF Moved
  <2>. QED
    BY <1>1, <2>1 DEF Moved, PlainLog
<1>2. CASE ~Moved(l)
  <2>1. log' = log /\ slot' = slot /\ dirty' = dirty /\ root' = root
    BY <1>2, MigratedIs
  <2>. QED
    BY <2>1 DEF PlainLog
<1>. QED
  BY <1>1, <1>2

LEMMA CkptSteps ==
    ASSUME TypeInv, CoreInv, [Next]_vars, NoCrash
    PROVE  Plain \/ CkptStart \/ CkptFlush \/ CkptEnd \/ CkptAfter
<1>0. LogType /\ PcType /\ LookType
  BY Parts
<1>1. ASSUME NEW t \in Txn, NEW k \in Key, Write(t, k) PROVE Plain
  <2>1. \E e : Adds(e) /\ e.type \in {"LN", "Commit", "Abort"}
    BY <1>0, <1>1, Adding DEF Write
  <2>2. root' = root /\ slot' = slot /\ dirty' = dirty /\ pc' = pc /\ snap' = snap /\ start' = start
    BY <1>1 DEF Write, treeVars, ckptVars
  <2>. QED
    BY <2>1, <2>2 DEF Plain, PlainLog
<1>2. ASSUME NEW t \in Txn, NEW sync \in BOOLEAN, Commit(t, sync) PROVE Plain
  <2>1. Adds([type |-> "Commit", txn |-> t])
    BY <1>0, <1>2, Adding DEF Commit
  <2>2. root' = root /\ slot' = slot /\ dirty' = dirty /\ pc' = pc /\ snap' = snap /\ start' = start
    BY <1>2 DEF Commit, treeVars, ckptVars
  <2>. QED
    BY <2>1, <2>2 DEF Plain, PlainLog
<1>3. ASSUME NEW t \in Txn, Abort(t) PROVE Plain
  <2>1. Adds([type |-> "Abort", txn |-> t])
    BY <1>0, <1>3, Adding DEF Abort
  <2>2. root' = root /\ dirty' /\ pc' = pc /\ snap' = snap /\ start' = start
    BY <1>3 DEF Abort, ckptVars
  <2>. QED
    BY <2>1, <2>2 DEF Plain, PlainLog
<1>4. ASSUME NEW k \in Key, Publish(k) PROVE Plain
  <2>1. log' = log /\ root' = root /\ dirty' /\ pc' = pc /\ snap' = snap /\ start' = start
    BY <1>4 DEF Publish, ckptVars, logVars
  <2>. QED
    BY <2>1 DEF Plain, PlainLog
<1>5. ASSUME NEW a \in Agent, PendingRetry(a) PROVE Plain
  <2>1. /\ Is(at[a], "LN") /\ Migrated(at[a], Outcome(at[a], tree[a])) /\ durable' = durable /\ gone' = gone
        /\ pc' = [pc EXCEPT ![a] = "pending"] /\ snap' = snap /\ start' = start
    BY <1>0, <1>5 DEF PendingRetry, LookType, ckptVars
  <2>2. PlainLog /\ root' = root /\ (dirty => dirty') /\ (~dirty' => slot' = slot)
    BY <2>1, MovedPlain
  <2>3. Ckpting' => pc'["checkpointer"] = pc["checkpointer"]
    BY <1>0, <2>1, AgentsAre DEF Ckpting, PcType
  <2>. QED
    BY <2>1, <2>2, <2>3 DEF Plain
<1>6. ASSUME CleanLn PROVE Plain
  <2>1. /\ Is(at["cleaner"], "LN") /\ Migrated(at["cleaner"], Outcome(at["cleaner"], tree["cleaner"]))
        /\ durable' = durable /\ gone' = gone
        /\ pc' = [pc EXCEPT !["cleaner"] = "lns"] /\ snap' = snap /\ start' = start
    BY <1>0, <1>6, AgentsAre DEF CleanLn, LookType, ckptVars
  <2>2. PlainLog /\ root' = root /\ (dirty => dirty') /\ (~dirty' => slot' = slot)
    BY <2>1, MovedPlain
  <2>3. Ckpting' => pc'["checkpointer"] = pc["checkpointer"]
    BY <1>0, <2>1, AgentsAre DEF Ckpting, PcType
  <2>. QED
    BY <2>1, <2>2, <2>3 DEF Plain
<1>7. ASSUME NEW a \in Agent, NEW l \in todo[a], PendingLookup(a, l) PROVE Plain
  <2>1. /\ log' = log /\ root' = root /\ slot' = slot /\ dirty' = dirty
        /\ pc' = [pc EXCEPT ![a] = "retry"] /\ snap' = snap /\ start' = start
    BY <1>7 DEF PendingLookup, ckptVars, logVars, treeVars
  <2>2. Ckpting' => pc'["checkpointer"] = pc["checkpointer"]
    BY <1>0, <2>1, AgentsAre DEF Ckpting, PcType
  <2>. QED
    BY <2>1, <2>2 DEF Plain, PlainLog
<1>8. ASSUME \/ CleanStart \/ (\E f \in File : CleanSelect(f)) \/ CleanNothing
             \/ CleanLookup \/ CleanEnd \/ DeleteSafe \/ CleanDone \/ UNCHANGED vars
      PROVE  Plain
  <2>1. /\ log' = log /\ root' = root /\ slot' = slot /\ dirty' = dirty /\ snap' = snap /\ start' = start
        /\ (pc' = pc \/ \E p : pc' = [pc EXCEPT !["cleaner"] = p])
    BY <1>8 DEF CleanStart, CleanSelect, CleanNothing, CleanLookup, CleanEnd, DeleteSafe, CleanDone, vars,
       ckptVars, logVars, treeVars
  <2>2. pc'["checkpointer"] = pc["checkpointer"]
    BY <1>0, <2>1, AgentsAre DEF PcType
  <2>. QED
    BY <2>1, <2>2 DEF Plain, PlainLog
<1>9. ASSUME CleanScan PROVE Plain
  <2>1. /\ log' = log /\ root' = root /\ slot' = slot /\ snap' = snap /\ start' = start
        /\ pc' = [pc EXCEPT !["cleaner"] = "lns"]
    BY <1>9 DEF CleanScan, ckptVars, logVars
  <2>2. pc'["checkpointer"] = pc["checkpointer"]
    BY <1>0, <2>1, AgentsAre DEF PcType
  <2>3. dirty => dirty'
    BY <1>9, Zenon DEF CleanScan
  <2>. QED
    BY <2>1, <2>2, <2>3 DEF Plain, PlainLog
<1>10. ASSUME CkptBegin \/ CkptSnapshot \/ CkptFails PROVE Plain
  <2>1. log' = log /\ root' = root /\ slot' = slot /\ dirty' = dirty
    BY <1>10 DEF CkptBegin, CkptSnapshot, CkptFails, logVars, treeVars
  <2>2. ~Ckpting'
    BY <1>0, <1>10, AgentsAre DEF CkptBegin, CkptSnapshot, CkptFails, Ckpting, PcType
  <2>. QED
    BY <2>1, <2>2 DEF Plain, PlainLog
<1>. QED
  BY <1>1, <1>2, <1>3, <1>4, <1>5, <1>6, <1>7, <1>8, <1>9, <1>10 DEF Next, NoCrash

LEMMA PlainIs ==
    ASSUME LogType, PlainLog
    PROVE  /\ Grown
           /\ \A j \in 1 .. Len(log') : j \in 1 .. Len(log) \/ log'[j].type \in {"LN", "Commit", "Abort"}
<1>1. ASSUME NEW e, Adds(e), e.type \in {"LN", "Commit", "Abort"}
      PROVE  /\ Grown
             /\ \A j \in 1 .. Len(log') : j \in 1 .. Len(log) \/ log'[j].type \in {"LN", "Commit", "Abort"}
  <2>1. PICK i : i = Len(log) + 1
    OBVIOUS
  <2>2. /\ Grown /\ Len(log') = i /\ log'[i] = e
        /\ \A j \in 1 .. i : j = i \/ j \in 1 .. Len(log)
    BY <1>1, <2>1, NewIs
  <2>. QED
    BY <1>1, <2>2
<1>. QED
  BY <1>1, SameLog DEF PlainLog

LEMMA CkptStartIs ==
    ASSUME TypeInv, CkptStart
    PROVE  /\ Adds([type |-> "CkptStart"]) /\ start' = Len(log) + 1 /\ snap' = snap /\ durable' = durable
           /\ pc["checkpointer"] = "start" /\ pc'["checkpointer"] = "flush"
           /\ UNCHANGED treeVars /\ UNCHANGED txnVars /\ UNCHANGED selVars /\ gone' = gone
           /\ slot' = slot /\ root' = root /\ dirty' = dirty /\ unpub' = unpub /\ txn' = txn
<1>0. LogType /\ PcType
  BY Parts
<1>1. Adds([type |-> "CkptStart"])
  BY <1>0, Adding DEF CkptStart
<1>2. pc["checkpointer"] = "start" /\ pc'["checkpointer"] = "flush"
  BY <1>0, AgentsAre DEF CkptStart, PcType
<1>. QED
  BY <1>1, <1>2 DEF CkptStart, End, treeVars, txnVars

LEMMA CkptFlushIs ==
    ASSUME TypeInv, CkptFlush
    PROVE  /\ \/ dirty /\ Adds([type |-> "BIN", slots |-> slot]) /\ root' = Len(log) + 1 /\ ~dirty'
              \/ ~dirty /\ log' = log /\ root' = root /\ ~dirty'
           /\ pc["checkpointer"] = "flush" /\ pc'["checkpointer"] = "end"
           /\ start' = start /\ snap' = snap /\ durable' = durable /\ gone' = gone /\ slot' = slot
           /\ UNCHANGED txnVars /\ UNCHANGED selVars /\ unpub' = unpub /\ txn' = txn
<1>0. LogType /\ PcType
  BY Parts
<1>1. CASE dirty
  <2>1. Adds([type |-> "BIN", slots |-> slot]) /\ root' = Len(log) + 1 /\ ~dirty'
    BY <1>0, <1>1, Adding DEF CkptFlush, End
  <2>. QED
    BY <1>0, <1>1, <2>1, AgentsAre DEF CkptFlush, PcType, ckptVars, txnVars
<1>2. CASE ~dirty
  <2>1. log' = log /\ root' = root /\ ~dirty'
    BY <1>2 DEF CkptFlush
  <2>. QED
    BY <1>0, <1>2, <2>1, AgentsAre DEF CkptFlush, PcType, ckptVars, txnVars
<1>. QED
  BY <1>1, <1>2

LEMMA CkptEndIs ==
    ASSUME TypeInv, CkptEnd
    PROVE  /\ Adds([type |-> "CkptEnd", start |-> start, root |-> root]) /\ durable' = Len(log) + 1
           /\ pc["checkpointer"] = "end" /\ pc'["checkpointer"] = "after"
           /\ start' = start /\ snap' = snap /\ gone' = gone
           /\ UNCHANGED treeVars /\ UNCHANGED txnVars /\ UNCHANGED selVars
           /\ slot' = slot /\ root' = root /\ dirty' = dirty /\ unpub' = unpub /\ txn' = txn
<1>0. LogType /\ PcType
  BY Parts
<1>1. Adds([type |-> "CkptEnd", start |-> start, root |-> root])
  BY <1>0, Adding DEF CkptEnd
<1>. QED
  BY <1>0, <1>1, AgentsAre DEF CkptEnd, End, PcType, ckptVars, treeVars, txnVars

-----------------------------------------------------------------------------
(* Entries and images *)

LEMMA EntriesNext ==
    ASSUME TypeInv, CoreInv, EntriesInv, [Next]_vars, NoCrash
    PROVE  EntriesInv'
<1>0. LogType /\ CkptType /\ SelType /\ LookType
  BY Parts
<1>1. /\ Grown /\ Len(log') \in {Len(log), Len(log) + 1} /\ durable <= durable' /\ durable' \in 1 .. Len(log')
  BY LogSteps
<1>2. \A j \in 1 .. Len(log) : log'[j] = log[j] /\ j \in 1 .. Len(log')
  BY <1>1, GrownIs DEF Grown
<1>3. (\A l, ty : Is(l, ty) => Is(l, ty)') /\ (\A l, k : IsVersion(l, k) => IsVersion(l, k)')
  BY <1>1, <1>2, GrownIs DEF IsVersion, Is
<1>4. ASSUME NEW j \in 1 .. Len(log) PROVE EntryOk(j)'
  <2>1. EntryOk(j) /\ log'[j] = log[j]
    BY <1>2 DEF EntriesInv
  <2>2. ASSUME log[j].type = "BIN", NEW k \in Key PROVE IsVersion(log[j].slots[k], k)'
    <3>1. PICK x : x = log[j].slots[k]
      OBVIOUS
    <3>2. IsVersion(x, k)'
      BY <1>3, <2>1, <2>2, <3>1 DEF EntryOk
    <3>. QED
      BY <2>1, <3>1, <3>2 DEF IsVersion, Is
  <2>3. ASSUME log[j].type = "CkptEnd" PROVE Is(log[j].start, "CkptStart")' /\ log'[j].root # None
    <3>1. PICK x : x = log[j].start
      OBVIOUS
    <3>2. Is(x, "CkptStart")'
      BY <1>3, <2>1, <2>3, <3>1 DEF EntryOk
    <3>. QED
      BY <2>1, <2>3, <3>1, <3>2 DEF Is, EntryOk
  <2>. QED
    BY <2>1, <2>2, <2>3 DEF EntryOk
<1>5. ASSUME NEW j \in 1 .. Len(log'), j \notin 1 .. Len(log) PROVE EntryOk(j)'
  <2>0. j = Len(log) + 1
    BY <1>0, <1>1, <1>5, LenIs
  <2>1. CASE Plain
    <3>1. log'[j].type \in {"LN", "Commit", "Abort"}
      BY <1>0, <1>5, <2>1, PlainIs DEF Plain
    <3>. QED
      BY <3>1 DEF EntryOk
  <2>2. CASE CkptStart
    <3>1. log'[j] = [type |-> "CkptStart"]
      BY <2>0, <2>2, CkptStartIs DEF Adds
    <3>. QED
      BY <3>1 DEF EntryOk
  <2>3. CASE CkptFlush
    <3>0. Len(log') # Len(log)
      BY <1>5
    <3>1. log'[j] = [type |-> "BIN", slots |-> slot]
      BY <2>0, <2>3, <3>0, CkptFlushIs DEF Adds
    <3>2. ASSUME NEW k \in Key PROVE IsVersion(log[j].slots[k], k)'
      <4>1. PICK x : x = slot[k]
        OBVIOUS
      <4>2. IsVersion(x, k)'
        BY <1>3, <4>1 DEF CoreInv, SlotsInv
      <4>. QED
        BY <3>1, <4>1, <4>2 DEF IsVersion, Is
    <3>. QED
      BY <3>1, <3>2 DEF EntryOk
  <2>4. CASE CkptEnd
    <3>1. log'[j] = [type |-> "CkptEnd", start |-> start, root |-> root] /\ pc["checkpointer"] = "end"
      BY <2>0, <2>4, CkptEndIs DEF Adds
    <3>2. PICK x : x = start
      OBVIOUS
    <3>3. Is(x, "CkptStart")' /\ root # None
      BY <1>0, <1>3, <3>1, <3>2 DEF CkptType, CoreInv, SlotsInv
    <3>. QED
      BY <3>1, <3>2, <3>3 DEF EntryOk, Is
  <2>5. CASE CkptAfter
    BY <1>5, <2>5 DEF CkptAfter, logVars
  <2>. QED
    BY <2>1, <2>2, <2>3, <2>4, <2>5, CkptSteps
<1>6. ASSUME NEW k \in Key PROVE \E l \in 1 .. durable' : IsLN(l)' /\ log'[l].key = k /\ log'[l].txn = None
  <2>1. PICK l \in 1 .. durable : IsLN(l) /\ log[l].key = k /\ log[l].txn = None
    BY DEF EntriesInv
  <2>2. l \in 1 .. durable' /\ l \in 1 .. Len(log)
    BY <1>0, <1>1, LenIs
  <2>. QED
    BY <1>2, <2>1, <2>2 DEF IsLN
<1>7. ASSUME NEW f \in File PROVE settled'[f] <= Len(log')
  <2>1. settled[f] <= Len(log) /\ settled[f] \in Nat /\ Len(log) <= Len(log') /\ Len(log') \in Nat /\ Len(log) \in Nat
    BY <1>0, <1>1, CleanerAssumption DEF EntriesInv, SelType, Grown
  <2>2. settled'[f] = settled[f] \/ settled'[f] = Len(log')
    <3>1. ASSUME NEW a \in Agent, Removed(a) PROVE settled'[f] = settled[f] \/ settled'[f] = Len(log')
      BY <1>0, <3>1 DEF Removed, SelType
    <3>. QED
      BY <3>1, PendingSteps
  <2>. QED
    BY <2>1, <2>2
<1>. QED
  BY <1>4, <1>5, <1>6, <1>7 DEF EntriesInv

LEMMA KeptIs ==
    ASSUME TypeInv, OldInv
    PROVE  /\ Kept \subseteq Processed /\ cleaned \subseteq Processed /\ snap \subseteq Processed
           /\ \A f \in being \cup Processed : f \in Nat /\ f < Newest
           /\ Newest \in Nat
<1>0. LogType /\ SelType
  BY Parts
<1>1. being \cup Processed \subseteq File
  BY <1>0 DEF SelType, Processed, LogType
<1>2. \A f \in File : f \in Nat
  BY CleanerAssumption DEF File
<1>3. Newest \in Nat
  BY <1>0, LenIs, FileOfType DEF Newest
<1>. QED
  BY <1>1, <1>2, <1>3 DEF OldInv, Kept, Processed

\* A new entry is in no file in hand.
LEMMA NewFile ==
    ASSUME TypeInv, OldInv
    PROVE  FileOf(Len(log) + 1) \notin being \cup Processed /\ FileOf(Len(log) + 1) \in Nat
           /\ Newest <= FileOf(Len(log) + 1)
<1>0. LogType
  BY Parts
<1>1. Len(log) \in Nat \ {0} /\ Len(log) + 1 \in Nat \ {0}
  BY <1>0, LenIs
<1>2. FileOf(Len(log)) <= FileOf(Len(log) + 1) /\ FileOf(Len(log) + 1) \in Nat
  BY <1>1, FileOfType
<1>. QED
  BY <1>2, KeptIs DEF Newest

LEMMA RootNext ==
    ASSUME TypeInv, SelInv, CoreInv, FileInv, RootInv, [Next]_vars, NoCrash
    PROVE  RootInv'
<1>0. LogType /\ TreeType /\ QueueType
  BY Parts
<1>1. Grown /\ root \in 1 .. Len(log)
  BY <1>0, LogSteps DEF CoreInv, SlotsInv, TreeType, None
<1>2. /\ ~dirty => \A k \in Key : log[root].slots[k] = slot[k]
      /\ FileOf(root) \in cleaned => dirty
      /\ Scanning /\ FileOf(root) \in being => dirty
      /\ FileOf(root) \notin Kept
      /\ pc["checkpointer"] \in {"end", "after"} => FileOf(root) \notin snap
  BY DEF RootInv
<1>3. ASSUME NEW f \in File, CleanSelect(f) PROVE cleaned' = cleaned /\ Kept' = Kept
  BY <1>3, CleanSelectIs
<1>4. ASSUME dirty /\ Adds([type |-> "BIN", slots |-> slot]) /\ root' = Len(log) + 1, CkptFlush PROVE RootInv'
  <2>1. FilesSame /\ slot' = slot /\ snap' = snap
    <3>1. UNCHANGED selVars /\ gone' = gone
      BY <1>4, CkptFlushIs
    <3>. QED
      BY <1>4, <3>1, CkptFlushIs DEF FilesSame, selVars, Processed, Kept
  <2>2. FileOf(root)' \notin being \cup Processed
    BY <1>4, NewFile DEF FileOf, FileInv
  <2>3. \A k \in Key : log'[root'].slots[k] = slot'[k]
    BY <1>4, <2>1 DEF Adds
  <2>4. FileOf(root)' \notin cleaned' /\ FileOf(root)' \notin being' /\ FileOf(root)' \notin Kept' /\ FileOf(root)' \notin snap'
    BY <2>1, <2>2, KeptIs DEF FilesSame, FileInv
  <2>. QED
    BY <2>3, <2>4 DEF RootInv
<1>5. ASSUME root' = root PROVE FileOf(root)' = FileOf(root) /\ log'[root'] = log[root]
  BY <1>1, <1>5 DEF FileOf, Grown
<1>6. ASSUME root' = root, dirty => dirty', ~dirty' => slot' = slot,
             pc'["checkpointer"] \in {"end", "after"} => FileOf(root) \notin snap',
             FileOf(root) \notin Kept'
      PROVE  RootInv'
  <2>1. FileOf(root)' = FileOf(root) /\ log'[root'] = log[root]
    BY <1>5, <1>6
  <2>2. ~dirty' => \A k \in Key : log'[root'].slots[k] = slot'[k]
    BY <1>2, <1>6, <2>1
  <2>3. FileOf(root) \in cleaned' => dirty'
    <3>1. CASE CleanEnd
      BY <1>2, <1>6, <3>1, CleanEndIs DEF Scanning
    <3>2. CASE ~CleanEnd
      <4>1. cleaned' \subseteq cleaned
        BY <1>3, <3>2, CkptAfterIs, FileSteps DEF FilesSame, FileInv
      <4>. QED
        BY <1>2, <1>6, <4>1
    <3>. QED
      BY <3>1, <3>2
  <2>4. Scanning' /\ FileOf(root) \in being' => dirty'
    <3>1. CASE CleanerSame
      BY <1>2, <1>6, <3>1 DEF CleanerSame, AgentSame, Scanning
    <3>2. CASE CleanScan
      <4>1. PICK f \in File : being = {f}
        BY <3>2 DEF SelInv, BeingInv, CleanScan, Cleaning
      <4>2. (CHOOSE g \in being : TRUE) = f
        BY <4>1
      <4>3. dirty' = (dirty \/ KeepsImage(f)) /\ being' = being
        BY <3>2, <4>2 DEF CleanScan, selVars
      <4>4. FileOf(root) = f => KeepsImage(f)
        BY <1>1 DEF KeepsImage, EntriesOf
      <4>5. FileOf(root) = f => dirty'
        BY <4>3, <4>4, Zenon
      <4>. QED
        BY <4>1, <4>3, <4>5
    <3>3. CASE CleanLookup \/ CleanLn
      <4>1. being' = being /\ Scanning
        BY <3>3 DEF CleanLookup, CleanLn, selVars, Scanning
      <4>. QED
        BY <1>2, <1>6, <4>1
    <3>. QED
      BY <3>1, <3>2, <3>3, CleanerSteps DEF Scanning
  <2>. QED
    BY <1>6, <2>1, <2>2, <2>3, <2>4 DEF RootInv
<1>7. CASE CkptAfter
  <2>1. UNCHANGED treeVars /\ Kept' = Kept \cup snap /\ pc["checkpointer"] = "after" /\ snap' = {}
    BY <1>7, CkptAfterIs DEF FileInv
  <2>. QED
    BY <1>2, <1>6, <2>1 DEF treeVars
<1>8. CASE ~CkptAfter
  <2>1. Kept' = Kept
    BY <1>3, <1>8, CleanEndIs, FileSteps DEF FilesSame, FileInv
  <2>2. CASE Plain
    <3>1. pc'["checkpointer"] \in {"end", "after"} => FileOf(root) \notin snap'
      BY <1>2, <2>2 DEF Plain, Ckpting
    <3>. QED
      BY <1>2, <1>6, <2>1, <2>2, <3>1 DEF Plain
  <2>3. CASE CkptStart
    BY <1>2, <1>6, <2>1, <2>3, CkptStartIs
  <2>4. CASE CkptFlush
    <3>1. CASE ~dirty /\ root' = root /\ ~dirty'
      <4>1. slot' = slot /\ snap' = snap
        BY <2>4, CkptFlushIs
      <4>2. FileOf(root) \notin snap
        BY <1>2, <3>1 DEF FileInv, OldInv
      <4>. QED
        BY <1>2, <1>6, <2>1, <3>1, <4>1, <4>2
    <3>. QED
      BY <1>4, <2>4, <3>1, CkptFlushIs
  <2>5. CASE CkptEnd
    BY <1>2, <1>6, <2>1, <2>5, CkptEndIs
  <2>. QED
    BY <1>8, <2>2, <2>3, <2>4, <2>5, CkptSteps
<1>. QED
  BY <1>7, <1>8

-----------------------------------------------------------------------------
(* Checkpoints *)

LEMMA RootSteps ==
    ASSUME TypeInv, CoreInv, [Next]_vars, NoCrash
    PROVE  root' # None /\ (~CkptFlush => root' = root)
<1>0. LogType /\ root # None
  BY Parts DEF CoreInv, SlotsInv
<1>1. Len(log) + 1 # None
  BY <1>0, LenIs DEF None
<1>2. CASE Plain
  BY <1>0, <1>2 DEF Plain
<1>3. CASE CkptStart
  BY <1>0, <1>3, CkptStartIs
<1>4. CASE CkptFlush
  BY <1>0, <1>1, <1>4, CkptFlushIs
<1>5. CASE CkptEnd
  BY <1>0, <1>5, CkptEndIs
<1>6. CASE CkptAfter
  BY <1>0, <1>6 DEF CkptAfter, treeVars
<1>. QED
  BY <1>2, <1>3, <1>4, <1>5, <1>6, CkptSteps

LEMMA CoreNext ==
    ASSUME TypeInv, CoreInv, [Next]_vars, NoCrash
    PROVE  CoreInv'
<1>1. CASE Quiet
  BY <1>1, RootSteps, QuietCore
<1>2. ASSUME NEW t \in Txn, NEW k \in Key, Write(t, k) PROVE CoreInv'
  BY <1>2, WriteCore
<1>3. ASSUME NEW k \in Key, Publish(k) PROVE CoreInv'
  BY <1>3, PublishCore
<1>4. ASSUME NEW t \in Txn, Abort(t) PROVE CoreInv'
  BY <1>4, AbortCore
<1>5. ASSUME NEW t \in Txn, NEW sync \in BOOLEAN, Commit(t, sync) PROVE CoreInv'
  BY <1>5, CommitCore
<1>6. ASSUME NEW l, Moved(l) /\ UNCHANGED txnVars PROVE CoreInv'
  BY <1>6, MovedCore
<1>7. CASE Next
  BY <1>1, <1>2, <1>3, <1>4, <1>5, <1>6, <1>7, MemSteps DEF NoCrash
<1>. QED
  BY <1>1, <1>7, StutterQuiet

\* Which step logs which entry of a checkpoint.
LEMMA KindSteps ==
    ASSUME TypeInv, CoreInv, [Next]_vars, NoCrash, NEW j \in 1 .. Len(log'), j \notin 1 .. Len(log)
    PROVE  /\ j = Len(log) + 1 /\ Len(log') = j
           /\ log'[j].type = "CkptEnd" => CkptEnd
           /\ log'[j].type = "BIN" => CkptFlush
           /\ log'[j].type = "CkptStart" => CkptStart
<1>0. LogType
  BY Parts
<1>1. j = Len(log) + 1 /\ Len(log') = j
  BY <1>0, LenIs, LogSteps
<1>2. CASE Plain
  <2>1. log'[j].type \in {"LN", "Commit", "Abort"}
    BY <1>0, <1>2, PlainIs DEF Plain
  <2>. QED
    BY <1>1, <2>1
<1>3. CASE CkptStart
  <2>1. log'[j] = [type |-> "CkptStart"]
    BY <1>1, <1>3, CkptStartIs DEF Adds
  <2>. QED
    BY <1>1, <1>3, <2>1
<1>4. CASE CkptFlush
  <2>1. log'[j] = [type |-> "BIN", slots |-> slot]
    BY <1>1, <1>4, CkptFlushIs DEF Adds
  <2>. QED
    BY <1>1, <1>4, <2>1
<1>5. CASE CkptEnd
  <2>1. log'[j] = [type |-> "CkptEnd", start |-> start, root |-> root]
    BY <1>1, <1>5, CkptEndIs DEF Adds
  <2>. QED
    BY <1>1, <1>5, <2>1
<1>6. CASE CkptAfter
  BY <1>6 DEF CkptAfter, logVars
<1>. QED
  BY <1>2, <1>3, <1>4, <1>5, <1>6, CkptSteps

\* Old entries, and what a checkpoint refers to.
LEMMA OldSame ==
    ASSUME TypeInv, CoreInv, [Next]_vars, NoCrash
    PROVE  /\ \A j \in 1 .. Len(log) : j \in 1 .. Len(log') /\ log'[j] = log[j]
           /\ Len(log) \in Nat /\ Len(log') \in Nat /\ Len(log) <= Len(log')
           /\ \A l, ty : Is(l, ty) => Is(l, ty)'
           /\ \A l, k : IsVersion(l, k) => IsVersion(l, k)'
<1>1. Grown
  BY LogSteps
<1>2. \A j \in 1 .. Len(log) : j \in 1 .. Len(log') /\ log'[j] = log[j]
  BY <1>1, GrownIs DEF Grown
<1>. QED
  BY <1>1, <1>2, GrownIs DEF IsVersion, Is, Grown

LEMMA KeptSteps ==
    ASSUME TypeInv, CoreInv, SelInv, OldInv, [Next]_vars, NoCrash
    PROVE  /\ ~CkptAfter => Kept' = Kept
           /\ CkptAfter => Kept' = Kept \cup snap
           /\ Ckpting' /\ ~CkptStart => Ckpting /\ snap' = snap /\ start' = start
           /\ CkptStart => snap' = snap /\ start' = Len(log) + 1
<1>1. ASSUME NEW f \in File, CleanSelect(f) PROVE Kept' = Kept
  BY <1>1, CleanSelectIs
<1>2. ~CkptAfter => Kept' = Kept
  BY <1>1, CleanEndIs, FileSteps DEF FilesSame
<1>3. ASSUME Ckpting', ~CkptStart PROVE Ckpting /\ snap' = snap /\ start' = start
  <2>1. CASE Plain
    BY <1>3, <2>1 DEF Plain, Ckpting
  <2>2. CASE CkptFlush
    BY <2>2, CkptFlushIs DEF Ckpting
  <2>3. CASE CkptEnd
    BY <2>3, CkptEndIs DEF Ckpting
  <2>4. CASE CkptAfter
    BY <1>3, <2>4, CkptAfterIs DEF Ckpting
  <2>. QED
    BY <1>3, <2>1, <2>2, <2>3, <2>4, CkptSteps
<1>. QED
  BY <1>2, <1>3, CkptAfterIs, CkptStartIs

LEMMA UsableSteps ==
    ASSUME TypeInv, CoreInv, [Next]_vars, NoCrash, NEW e, Usable(e)'
    PROVE  /\ ~CkptEnd => Usable(e) /\ log'[e] = log[e] /\ e \in 1 .. Len(log)
           /\ CkptEnd => e = Len(log) + 1 /\ log'[e].start = start /\ log'[e].root = root
<1>0. LogType
  BY Parts
<1>1. durable <= durable' /\ durable' \in 1 .. Len(log') /\ durable \in Nat /\ durable <= Len(log)
  BY <1>0, LenIs, LogSteps
<1>2. e \in 1 .. Len(log') /\ log'[e].type = "CkptEnd" /\ \A d \in 1 .. durable' : log'[d].type = "CkptEnd" => d <= e
  BY DEF Usable, Is
<1>3. ASSUME ~CkptEnd PROVE Usable(e) /\ log'[e] = log[e] /\ e \in 1 .. Len(log)
  <2>1. e \in 1 .. Len(log)
    BY <1>2, <1>3, KindSteps
  <2>2. \A d \in 1 .. durable : d \in 1 .. durable' /\ log'[d] = log[d]
    BY <1>1, OldSame
  <2>. QED
    BY <1>2, <2>1, <2>2, OldSame DEF Usable, Is
<1>4. ASSUME CkptEnd PROVE e = Len(log) + 1 /\ log'[e].start = start /\ log'[e].root = root
  <2>1. /\ durable' = Len(log) + 1 /\ log'[Len(log) + 1] = [type |-> "CkptEnd", start |-> start, root |-> root]
        /\ Len(log') = Len(log) + 1
    BY <1>4, CkptEndIs DEF Adds
  <2>2. e = Len(log) + 1
    BY <1>0, <1>2, <2>1, LenIs
  <2>. QED
    BY <2>1, <2>2
<1>. QED
  BY <1>3, <1>4

LEMMA CkptNext ==
    ASSUME TypeInv, SelInv, CoreInv, FileInv, RootInv, CkptInv, [Next]_vars, NoCrash
    PROVE  CkptInv'
<1>0. LogType /\ OldInv
  BY Parts DEF FileInv
<1>1. /\ durable <= durable' /\ durable' \in 1 .. Len(log') /\ durable \in Nat /\ durable <= Len(log)
      /\ Len(log) \in Nat
  BY <1>0, LenIs, LogSteps
<1>2. \A j \in 1 .. Len(log) : j \in 1 .. Len(log') /\ log'[j] = log[j]
  BY OldSame
<1>3. /\ \E e \in 1 .. durable : log[e].type = "CkptEnd"
      /\ \A e \in 1 .. Len(log), f \in Kept : Usable(e) => f < FileOf(log[e].start) /\ FileOf(log[e].root) # f
      /\ Ckpting => \A f \in snap \cup Kept : f < FileOf(start)
      /\ pc["checkpointer"] \in {"flush", "end"} => \A e \in 1 .. Len(log) : log[e].type = "CkptEnd" => e < start
      /\ pc["checkpointer"] = "flush" => \A b \in 1 .. Len(log) : log[b].type = "BIN" => b < start
      /\ pc["checkpointer"] \in {"end", "after"} =>
            \A b \in 1 .. Len(log) : log[b].type = "BIN" => b < start \/ b = root
      /\ pc["checkpointer"] = "after" =>
            \E e \in 1 .. durable : /\ log[e].type = "CkptEnd" /\ log[e].start = start /\ log[e].root = root
                                    /\ \A d \in 1 .. Len(log) : log[d].type = "CkptEnd" => d <= e
  BY DEF CkptInv
<1>4. \E e \in 1 .. durable' : log'[e].type = "CkptEnd"
  BY <1>1, <1>2, <1>3
<1>5. ASSUME NEW e \in 1 .. Len(log'), NEW f \in Kept', Usable(e)'
      PROVE  f < FileOf(log[e].start)' /\ FileOf(log[e].root)' # f
  <2>1. CASE CkptEnd
    <3>1. log'[e].start = start /\ log'[e].root = root
      BY <1>5, <2>1, UsableSteps
    <3>2. ~CkptAfter /\ Ckpting
      BY <2>1 DEF CkptEnd, CkptAfter, Ckpting
    <3>3. f \in Kept
      BY <1>0, <1>5, <3>2, KeptSteps
    <3>4. f < FileOf(start) /\ FileOf(root) # f
      BY <1>3, <3>2, <3>3 DEF RootInv
    <3>. QED
      BY <3>1, <3>4 DEF FileOf
  <2>2. CASE ~CkptEnd
    <3>1. Usable(e) /\ log'[e] = log[e] /\ e \in 1 .. Len(log)
      BY <1>5, <2>2, UsableSteps
    <3>2. f < FileOf(log[e].start) /\ FileOf(log[e].root) # f
      <4>1. CASE f \in Kept
        BY <1>3, <3>1, <4>1
      <4>2. CASE f \notin Kept
        <5>1. CkptAfter /\ f \in snap
          BY <1>0, <1>5, <4>2, KeptSteps
        <5>2. pc["checkpointer"] = "after"
          BY <5>1 DEF CkptAfter
        <5>3. f < FileOf(start) /\ FileOf(root) # f
          BY <1>3, <5>1, <5>2 DEF RootInv, Ckpting
        <5>4. PICK d \in 1 .. durable : /\ log[d].type = "CkptEnd" /\ log[d].start = start /\ log[d].root = root
                                        /\ \A c \in 1 .. Len(log) : log[c].type = "CkptEnd" => c <= d
          BY <1>3, <5>2
        <5>5. d <= e /\ e <= d
          BY <3>1, <5>4 DEF Usable, Is
        <5>6. e = d
          BY <3>1, <5>5
        <5>. QED
          BY <5>3, <5>4, <5>6
      <4>. QED
        BY <4>1, <4>2
    <3>. QED
      BY <3>1, <3>2 DEF FileOf
  <2>. QED
    BY <2>1, <2>2
<1>6. ASSUME Ckpting', NEW f \in snap' \cup Kept' PROVE f < FileOf(start)'
  <2>1. CASE CkptStart
    <3>1. ~CkptAfter
      BY <2>1 DEF CkptStart, CkptAfter
    <3>2. f \in snap \cup Kept /\ start' = Len(log) + 1
      BY <1>0, <1>6, <2>1, <3>1, KeptSteps
    <3>3. f \in Nat /\ f < Newest /\ Newest \in Nat
      BY <1>0, <3>2, KeptIs
    <3>4. f < FileOf(Len(log) + 1)
      BY <1>0, <3>3, NewFile
    <3>. QED
      BY <3>2, <3>4 DEF FileOf
  <2>2. CASE ~CkptStart
    <3>1. ~CkptAfter
      BY <1>0, <1>6, CkptAfterIs DEF Ckpting
    <3>2. f \in snap \cup Kept /\ start' = start /\ Ckpting
      BY <1>0, <1>6, <2>2, <3>1, KeptSteps
    <3>. QED
      BY <1>3, <3>2 DEF FileOf
  <2>. QED
    BY <2>1, <2>2
<1>7. ASSUME pc'["checkpointer"] \in {"flush", "end"}, NEW e \in 1 .. Len(log'), log'[e].type = "CkptEnd"
      PROVE  e < start'
  <2>0. ~CkptEnd
    BY <1>7, CkptEndIs
  <2>1. e \in 1 .. Len(log) /\ log[e].type = "CkptEnd"
    BY <1>2, <1>7, <2>0, KindSteps
  <2>2. CASE CkptStart
    BY <1>1, <2>1, <2>2, CkptStartIs
  <2>3. CASE Plain
    BY <1>3, <1>7, <2>1, <2>3 DEF Plain, Ckpting
  <2>4. CASE CkptFlush
    BY <1>3, <2>1, <2>4, CkptFlushIs
  <2>5. CASE CkptAfter
    BY <1>0, <1>7, <2>5, CkptAfterIs
  <2>. QED
    BY <2>0, <2>2, <2>3, <2>4, <2>5, CkptSteps
<1>8. ASSUME pc'["checkpointer"] = "flush", NEW b \in 1 .. Len(log'), log'[b].type = "BIN"
      PROVE  b < start'
  <2>0. ~CkptFlush
    BY <1>8, CkptFlushIs
  <2>1. b \in 1 .. Len(log) /\ log[b].type = "BIN"
    BY <1>2, <1>8, <2>0, KindSteps
  <2>2. CASE CkptStart
    BY <1>1, <2>1, <2>2, CkptStartIs
  <2>3. CASE Plain
    BY <1>3, <1>8, <2>1, <2>3 DEF Plain, Ckpting
  <2>4. CASE CkptEnd
    BY <1>8, <2>4, CkptEndIs
  <2>5. CASE CkptAfter
    BY <1>0, <1>8, <2>5, CkptAfterIs
  <2>. QED
    BY <2>0, <2>2, <2>3, <2>4, <2>5, CkptSteps
<1>9. ASSUME pc'["checkpointer"] \in {"end", "after"}, NEW b \in 1 .. Len(log'), log'[b].type = "BIN"
      PROVE  b < start' \/ b = root'
  <2>1. CASE CkptFlush
    <3>1. CASE b \in 1 .. Len(log)
      BY <1>2, <1>3, <1>9, <2>1, <3>1, CkptFlushIs
    <3>2. CASE b \notin 1 .. Len(log)
      <4>1. b = Len(log) + 1 /\ Len(log') = b
        BY <1>9, <3>2, KindSteps
      <4>2. log' # log
        BY <1>1, <4>1
      <4>. QED
        BY <2>1, <4>1, <4>2, CkptFlushIs
    <3>. QED
      BY <3>1, <3>2
  <2>2. CASE ~CkptFlush
    <3>1. b \in 1 .. Len(log) /\ log[b].type = "BIN"
      BY <1>2, <1>9, <2>2, KindSteps
    <3>2. CASE Plain
      BY <1>3, <1>9, <3>1, <3>2 DEF Plain, Ckpting
    <3>3. CASE CkptEnd
      BY <1>3, <3>1, <3>3, CkptEndIs
    <3>4. CASE CkptStart
      BY <1>9, <3>4, CkptStartIs
    <3>5. CASE CkptAfter
      BY <1>0, <1>9, <3>5, CkptAfterIs
    <3>. QED
      BY <2>2, <3>2, <3>3, <3>4, <3>5, CkptSteps
  <2>. QED
    BY <2>1, <2>2
<1>10. ASSUME pc'["checkpointer"] = "after"
       PROVE  \E e \in 1 .. durable' : /\ log'[e].type = "CkptEnd" /\ log'[e].start = start' /\ log'[e].root = root'
                                       /\ \A d \in 1 .. Len(log') : log'[d].type = "CkptEnd" => d <= e
  <2>1. CASE CkptEnd
    <3>1. /\ durable' = Len(log) + 1 /\ log'[Len(log) + 1] = [type |-> "CkptEnd", start |-> start, root |-> root]
          /\ Len(log') = Len(log) + 1 /\ start' = start /\ root' = root
      BY <2>1, CkptEndIs DEF Adds
    <3>. QED
      BY <1>1, <3>1
  <2>2. CASE Plain /\ ~CkptEnd
    <3>1. pc["checkpointer"] = "after" /\ start' = start /\ root' = root
      BY <1>10, <2>2 DEF Plain, Ckpting
    <3>2. PICK e \in 1 .. durable : /\ log[e].type = "CkptEnd" /\ log[e].start = start /\ log[e].root = root
                                    /\ \A d \in 1 .. Len(log) : log[d].type = "CkptEnd" => d <= e
      BY <1>3, <3>1
    <3>3. \A d \in 1 .. Len(log') : log'[d].type = "CkptEnd" => d \in 1 .. Len(log) /\ log[d].type = "CkptEnd"
      BY <1>2, <2>2, KindSteps
    <3>4. e \in 1 .. durable' /\ log'[e] = log[e]
      BY <1>1, <1>2
    <3>. QED
      BY <3>1, <3>2, <3>3, <3>4
  <2>. QED
    BY <1>0, <1>10, <2>1, <2>2, CkptSteps, CkptStartIs, CkptFlushIs, CkptAfterIs
<1>11. \A e \in 1 .. Len(log'), f \in Kept' : Usable(e)' => f < FileOf(log[e].start)' /\ FileOf(log[e].root)' # f
  BY <1>5
<1>. QED
  BY <1>4, <1>11, <1>6, <1>7, <1>8, <1>9, <1>10 DEF CkptInv

-----------------------------------------------------------------------------
(* The image a checkpoint leaves *)

LEMMA CommitSteps ==
    ASSUME TypeInv, CoreInv, [Next]_vars, NoCrash, NEW j \in 1 .. Len(log'), j \notin 1 .. Len(log),
           log'[j].type = "Commit"
    PROVE  \E t \in Txn, sync \in BOOLEAN : Commit(t, sync) /\ log'[j].txn = t
<1>0. LogType
  BY Parts
<1>1. j = Len(log) + 1
  BY <1>0, LenIs, LogSteps
<1>2. CASE Quiet
  BY <1>2, QuietIs DEF Quiet
<1>3. ASSUME NEW t \in Txn, NEW k \in Key, Write(t, k) PROVE FALSE
  <2>1. log'[j] = [type |-> "LN", key |-> k, txn |-> t, abort |-> slot[k], val |-> End]
    BY <1>0, <1>1, <1>3, Adding DEF Write, Adds
  <2>. QED
    BY <2>1
<1>4. ASSUME NEW k \in Key, Publish(k) PROVE FALSE
  BY <1>4 DEF Publish, logVars
<1>5. ASSUME NEW t \in Txn, Abort(t) PROVE FALSE
  <2>1. log'[j] = [type |-> "Abort", txn |-> t]
    BY <1>0, <1>1, <1>5, Adding DEF Abort, Adds
  <2>. QED
    BY <2>1
<1>6. ASSUME NEW t \in Txn, NEW sync \in BOOLEAN, Commit(t, sync) PROVE log'[j].txn = t
  <2>1. log'[j] = [type |-> "Commit", txn |-> t]
    BY <1>0, <1>1, <1>6, Adding DEF Commit, Adds
  <2>. QED
    BY <2>1
<1>7. ASSUME NEW l, Moved(l) PROVE FALSE
  <2>1. log'[j] = [type |-> "LN", key |-> KeyOf(l), txn |-> None, abort |-> l, val |-> log[l].val]
    BY <1>1, <1>7 DEF Moved, Adds
  <2>. QED
    BY <2>1
<1>. QED
  BY <1>2, <1>3, <1>4, <1>5, <1>6, <1>7, MemSteps, StutterQuiet DEF NoCrash

LEMMA EndSteps ==
    ASSUME TypeInv, CoreInv, [Next]_vars, NoCrash, NEW u, EndedBy(u, Len(log))'
    PROVE  EndedBy(u, Len(log)) \/ \E t \in Txn, sync \in BOOLEAN : Commit(t, sync) /\ u = t
<1>1. CASE u = None
  BY <1>1 DEF EndedBy
<1>2. ASSUME NEW c \in 1 .. Len(log'), log'[c].type = "Commit", log'[c].txn = u
      PROVE  EndedBy(u, Len(log)) \/ \E t \in Txn, sync \in BOOLEAN : Commit(t, sync) /\ u = t
  <2>1. CASE c \in 1 .. Len(log)
    BY <1>2, <2>1, OldSame DEF EndedBy
  <2>2. CASE c \notin 1 .. Len(log)
    BY <1>2, <2>2, CommitSteps
  <2>. QED
    BY <2>1, <2>2
<1>. QED
  BY <1>1, <1>2 DEF EndedBy

LEMMA AliveSteps ==
    ASSUME TypeInv, CoreInv, [Next]_vars, NoCrash, NEW c \in 1 .. Len(log), Alive(c)'
    PROVE  Alive(c)
<1>1. log'[c] = log[c] /\ Is(c, "LN")
  BY OldSame DEF Alive, Is
<1>2. CASE Active(c)'
  BY <1>1, <1>2, ActiveSteps DEF Alive
<1>3. CASE ~Active(c)'
  <2>1. PICK u : u = log[c].txn
    OBVIOUS
  <2>2. EndedBy(u, Len(log))'
    BY <1>1, <1>3, <2>1 DEF Alive, EndedBy
  <2>3. CASE EndedBy(u, Len(log))
    BY <1>1, <2>1, <2>3 DEF Alive
  <2>4. ASSUME NEW t \in Txn, NEW sync \in BOOLEAN, Commit(t, sync), u = t PROVE Alive(c)
    <3>1. txn[t] = "active" /\ t # None
      BY <2>4, CleanerAssumption DEF Commit, None
    <3>. QED
      BY <1>1, <2>1, <2>4, <3>1 DEF Alive, Active
  <2>. QED
    BY <2>2, <2>3, <2>4, EndSteps
<1>. QED
  BY <1>2, <1>3

\* A slot holds the latest LN of its record that counts, or that LN is not in it yet.
LEMMA AliveSlot ==
    ASSUME TypeInv, CoreInv, NEW c \in 1 .. Len(log), Alive(c), NEW k, k = KeyOf(c)
    PROVE  k \in Key /\ (c <= slot[k] \/ (unpub[k] # None /\ c = unpub[k]))
<1>0. LogType
  BY Parts
<1>1. k \in Key /\ IsLN(c) /\ log[c].key = k
  BY <1>0, EntryIs DEF Alive, Is, IsLN, KeyOf
<1>2. MemAt(k) /\ OwnerInv
  BY <1>1 DEF CoreInv, MemInv
<1>3. CASE EndedBy(log[c].txn, Len(log))
  <2>1. c \in Vers(k, Len(log))
    BY <1>1, <1>3 DEF Vers
  <2>2. CASE writer[k] = None
    BY <1>1, <1>2, <2>1, <2>2 DEF MemAt, IsCur
  <2>3. CASE writer[k] # None /\ unpub[k] # None
    <3>1. CASE slot[k] = before[k]
      BY <1>1, <1>2, <2>1, <2>3, <3>1 DEF MemAt, IsCur
    <3>2. CASE slot[k] # before[k]
      <4>1. IsVersion(slot[k], k) /\ log[slot[k]].txn = writer[k] /\ txn[writer[k]] = "active"
        BY <1>1, <1>2, <2>3, <3>2 DEF MemAt, CoreInv, SlotsInv
      <4>2. writer[k] \in Txn /\ log[c].txn # writer[k]
        BY <1>0, <1>1, <1>3, <2>3, <4>1, NotEnded, Parts DEF CoreInv, TxnType
      <4>3. \A y \in slot[k] .. Len(log) : IsVersion(y, k) => log[y].txn = writer[k]
        BY <1>2, <2>3, <4>1 DEF OwnerInv, IsVersion, Is, IsLN
      <4>4. IsVersion(c, k) /\ slot[k] \in 1 .. Len(log)
        BY <1>1, <4>1 DEF IsVersion, Is, IsLN
      <4>5. c \notin slot[k] .. Len(log)
        BY <4>2, <4>3, <4>4
      <4>. QED
        BY <1>0, <1>1, <4>4, <4>5, LenIs
    <3>. QED
      BY <3>1, <3>2
  <2>4. CASE writer[k] # None /\ unpub[k] = None
    BY <1>1, <1>2, <2>4 DEF MemAt, Last, IsVersion, Is, IsLN
  <2>. QED
    BY <2>2, <2>3, <2>4
<1>4. CASE Active(c)
  <2>1. writer[k] # None /\ log[c].txn = writer[k] /\ IsVersion(c, k)
    BY <1>1, <1>2, <1>4 DEF OwnerInv, Active, IsVersion, Is, IsLN
  <2>. QED
    BY <1>1, <1>2, <2>1 DEF MemAt, Last
<1>. QED
  BY <1>1, <1>3, <1>4 DEF Alive

LEMMA UnpubSteps ==
    ASSUME TypeInv, CoreInv, [Next]_vars, NoCrash, NEW k \in Key
    PROVE  unpub'[k] \in {None, unpub[k], Len(log) + 1}
<1>0. TxnType
  BY Parts
<1>1. CASE Quiet
  BY <1>1 DEF Quiet
<1>2. ASSUME NEW t \in Txn, NEW j \in Key, Write(t, j) PROVE unpub'[k] \in {unpub[k], Len(log) + 1}
  BY <1>0, <1>2 DEF Write, End, TxnType
<1>3. ASSUME NEW j \in Key, Publish(j) PROVE unpub'[k] \in {None, unpub[k]}
  BY <1>0, <1>3 DEF Publish, TxnType
<1>4. ASSUME NEW t \in Txn, Abort(t) PROVE unpub'[k] = unpub[k]
  BY <1>4 DEF Abort, Released
<1>5. ASSUME NEW t \in Txn, NEW sync \in BOOLEAN, Commit(t, sync) PROVE unpub'[k] = unpub[k]
  BY <1>5 DEF Commit, Released
<1>6. UNCHANGED txnVars => unpub'[k] = unpub[k]
  BY DEF txnVars
<1>. QED
  BY <1>1, <1>2, <1>3, <1>4, <1>5, <1>6, MemSteps, StutterQuiet DEF NoCrash

LEMMA SeedNext ==
    ASSUME exposed' = {}, TypeInv, CoreInv, EntriesInv, RootInv, SeedInv, [Next]_vars, NoCrash, TypeInv'
    PROVE  SeedInv'
<1>0. LogType /\ CkptType /\ TreeType /\ TxnType
  BY Parts
<1>1. /\ Len(log) \in Nat /\ Len(log') \in {Len(log), Len(log) + 1} /\ Grown
      /\ \A j \in 1 .. Len(log) : j \in 1 .. Len(log') /\ log'[j] = log[j]
  BY OldSame, LogSteps
<1>2. /\ \A c \in 1 .. Len(log) : Alive(c) =>
            /\ \A b \in c + 1 .. Len(log) : log[b].type = "BIN" =>
                  \/ c <= log[b].slots[KeyOf(c)]
                  \/ \A s \in 1 .. b : log[s].type = "CkptStart" => s < c
            /\ \A e \in 1 .. Len(log) :
                  log[e].type = "CkptEnd" /\ c < log[e].start => c <= log[log[e].root].slots[KeyOf(c)]
            /\ pc["checkpointer"] = "end" /\ c < start => c <= log[root].slots[KeyOf(c)]
      /\ pc["checkpointer"] = "flush" => \A s \in 1 .. Len(log) : log[s].type = "CkptStart" => s <= start
  BY DEF SeedInv
<1>3. start \in 0 .. Len(log) /\ start' \in 0 .. Len(log') /\ (Ckpting => Is(start, "CkptStart"))
  BY <1>0 DEF TypeInv, AgentType, CkptType, Ckpting
<1>4. root \in 1 .. Len(log)
  BY <1>0 DEF CoreInv, SlotsInv, TreeType, None
<1>5. ASSUME NEW e \in 1 .. Len(log'), log'[e].type = "CkptEnd"
      PROVE  log'[e].start \in 0 .. Len(log)
  <2>1. CASE e \in 1 .. Len(log)
    <3>1. log[e].start \in 1 .. e - 1
      BY <1>0, <1>1, <1>5, <2>1, EntryIs
    <3>. QED
      BY <1>1, <2>1, <3>1
  <2>2. CASE e \notin 1 .. Len(log)
    <3>1. e = Len(log) + 1 /\ CkptEnd
      BY <1>5, <2>2, KindSteps
    <3>2. log'[e] = [type |-> "CkptEnd", start |-> start, root |-> root]
      BY <3>1, CkptEndIs DEF Adds
    <3>. QED
      BY <1>3, <3>2
  <2>. QED
    BY <2>1, <2>2
<1>6. ASSUME NEW c \in 1 .. Len(log'), c \notin 1 .. Len(log)
      PROVE  /\ ~ \E b \in c + 1 .. Len(log') : log'[b].type = "BIN"
             /\ ~ \E e \in 1 .. Len(log') : log'[e].type = "CkptEnd" /\ c < log'[e].start
             /\ ~(c < start')
  <2>1. c = Len(log') /\ c = Len(log) + 1
    BY <1>1, <1>6
  <2>2. \A e \in 1 .. Len(log') : log'[e].type = "CkptEnd" => ~(c < log'[e].start)
    BY <1>1, <1>5, <2>1
  <2>. QED
    BY <1>1, <1>3, <2>1, <2>2
<1>12. ASSUME CkptFlush, NEW c \in 1 .. Len(log), Alive(c), NEW k \in Key, unpub[k] # None, c = unpub[k]
       PROVE  start < c
  <2>1. ~WriteLaps
    BY <1>12 DEF CkptFlush
  <2>2. ~(c < start)
    BY <1>12, <2>1 DEF WriteLaps
  <2>3. Is(start, "CkptStart")
    BY <1>3, <1>12, CkptFlushIs DEF Ckpting
  <2>4. c # start
    BY <1>12, <2>3 DEF Alive, Is
  <2>. QED
    BY <1>1, <1>3, <1>12, <2>2, <2>4
<1>7. ASSUME NEW c \in 1 .. Len(log), Alive(c), NEW b \in c + 1 .. Len(log'), log'[b].type = "BIN"
      PROVE  \/ c <= log'[b].slots[KeyOf(c)]
             \/ \A s \in 1 .. b : log'[s].type = "CkptStart" => s < c
  <2>1. CASE b \in 1 .. Len(log)
    <3>1. b \in c + 1 .. Len(log) /\ log[b] = log'[b]
      BY <1>1, <1>7, <2>1
    <3>2. \A s \in 1 .. b : s \in 1 .. Len(log) /\ log'[s] = log[s]
      BY <1>1, <2>1
    <3>. QED
      BY <1>2, <1>7, <3>1, <3>2
  <2>2. CASE b \notin 1 .. Len(log)
    <3>0. b \in 1 .. Len(log')
      BY <1>1, <1>7
    <3>1. b = Len(log) + 1 /\ CkptFlush
      BY <1>7, <2>2, <3>0, KindSteps
    <3>2. log' # log
      BY <2>2, <3>0
    <3>3. log'[b] = [type |-> "BIN", slots |-> slot]
      BY <3>1, <3>2, CkptFlushIs DEF Adds
    <3>4. PICK k : k = KeyOf(c)
      OBVIOUS
    <3>5. k \in Key /\ (c <= slot[k] \/ (unpub[k] # None /\ c = unpub[k]))
      BY <1>7, <3>4, AliveSlot
    <3>6. ASSUME unpub[k] # None, c = unpub[k], NEW s \in 1 .. b, log'[s].type = "CkptStart" PROVE s < c
      <4>1. s \in 1 .. Len(log)
        BY <1>1, <3>1, <3>3, <3>6
      <4>2. start < c
        BY <1>7, <1>12, <3>1, <3>5, <3>6
      <4>3. s <= start
        BY <1>1, <1>2, <3>1, <3>6, <4>1, CkptFlushIs
      <4>. QED
        BY <1>1, <1>3, <4>1, <4>2, <4>3
    <3>. QED
      BY <3>3, <3>4, <3>5, <3>6
  <2>. QED
    BY <2>1, <2>2
<1>8. ASSUME NEW c \in 1 .. Len(log), Alive(c), NEW e \in 1 .. Len(log'), log'[e].type = "CkptEnd", c < log'[e].start
      PROVE  c <= log'[log'[e].root].slots[KeyOf(c)]
  <2>1. CASE e \in 1 .. Len(log)
    <3>1. log[e] = log'[e] /\ EntryOk(e)
      BY <1>1, <2>1 DEF EntriesInv
    <3>2. log[e].root \in 1 .. Len(log)
      <4>1. log[e].root \in 0 .. e - 1
        BY <1>0, <1>8, <2>1, <3>1, EntryIs
      <4>. QED
        BY <1>1, <1>8, <2>1, <3>1, <4>1 DEF EntryOk, None
    <3>. QED
      BY <1>1, <1>2, <1>8, <2>1, <3>1, <3>2
  <2>2. CASE e \notin 1 .. Len(log)
    <3>1. e = Len(log) + 1 /\ CkptEnd
      BY <1>8, <2>2, KindSteps
    <3>2. log'[e] = [type |-> "CkptEnd", start |-> start, root |-> root] /\ pc["checkpointer"] = "end"
      BY <3>1, CkptEndIs DEF Adds
    <3>3. log'[root] = log[root]
      BY <1>1, <1>4
    <3>4. c <= log[root].slots[KeyOf(c)]
      BY <1>2, <1>8, <3>2
    <3>. QED
      BY <3>2, <3>3, <3>4
  <2>. QED
    BY <2>1, <2>2
<1>9. ASSUME NEW c \in 1 .. Len(log), Alive(c), pc'["checkpointer"] = "end", c < start'
      PROVE  c <= log'[root'].slots[KeyOf(c)]
  <2>1. CASE CkptFlush
    <3>1. start' = start /\ pc["checkpointer"] = "flush"
      BY <2>1, CkptFlushIs
    <3>2. PICK k : k = KeyOf(c)
      OBVIOUS
    <3>3. k \in Key /\ (c <= slot[k] \/ (unpub[k] # None /\ c = unpub[k]))
      BY <1>9, <3>2, AliveSlot
    <3>5. unpub[k] # None /\ c = unpub[k] => start < c
      BY <1>9, <1>12, <2>1, <3>3
    <3>6. c <= slot[k]
      BY <1>3, <1>9, <3>1, <3>3, <3>5
    <3>7. log'[root'].slots[k] = slot[k]
      <4>1. CASE dirty
        <5>1. log'[root'] = [type |-> "BIN", slots |-> slot]
          BY <2>1, <4>1, CkptFlushIs DEF Adds
        <5>. QED
          BY <5>1
      <4>2. CASE ~dirty
        BY <2>1, <3>3, <4>2, CkptFlushIs DEF RootInv
      <4>. QED
        BY <4>1, <4>2
    <3>. QED
      BY <3>2, <3>6, <3>7
  <2>2. CASE Plain
    <3>1. pc["checkpointer"] = "end" /\ start' = start /\ root' = root
      BY <1>9, <2>2 DEF Plain, Ckpting
    <3>. QED
      BY <1>1, <1>2, <1>4, <1>9, <3>1
  <2>3. ~CkptStart /\ ~CkptEnd /\ ~CkptAfter
    <3>1. CkptAfter => pc'["checkpointer"] = "idle"
      BY Parts, AgentsAre DEF CkptAfter, PcType
    <3>. QED
      BY <1>9, <3>1, CkptStartIs, CkptEndIs
  <2>. QED
    BY <2>1, <2>2, <2>3, CkptSteps
<1>10. ASSUME pc'["checkpointer"] = "flush", NEW s \in 1 .. Len(log'), log'[s].type = "CkptStart"
       PROVE  s <= start'
  <2>1. CASE CkptStart
    BY <1>1, <2>1, CkptStartIs
  <2>2. CASE ~CkptStart
    <3>1. s \in 1 .. Len(log)
      BY <1>10, <2>2, KindSteps
    <3>2. pc["checkpointer"] = "flush" /\ start' = start
      <4>1. CASE Plain
        BY <1>10, <4>1 DEF Plain, Ckpting
      <4>2. ~CkptFlush /\ ~CkptEnd /\ ~CkptAfter
        <5>1. CkptAfter => pc'["checkpointer"] = "idle"
          BY Parts, AgentsAre DEF CkptAfter, PcType
        <5>. QED
          BY <1>10, <5>1, CkptFlushIs, CkptEndIs
      <4>. QED
        BY <2>2, <4>1, <4>2, CkptSteps
    <3>. QED
      BY <1>1, <1>2, <1>10, <3>1, <3>2
  <2>. QED
    BY <2>1, <2>2
<1>11. ASSUME NEW c \in 1 .. Len(log'), Alive(c)'
       PROVE  /\ \A b \in c + 1 .. Len(log') : log'[b].type = "BIN" =>
                     \/ c <= log'[b].slots[KeyOf(c)']
                     \/ \A s \in 1 .. b : log'[s].type = "CkptStart" => s < c
              /\ \A e \in 1 .. Len(log') : log'[e].type = "CkptEnd" /\ c < log'[e].start =>
                     c <= log'[log'[e].root].slots[KeyOf(c)']
              /\ pc'["checkpointer"] = "end" /\ c < start' => c <= log'[root'].slots[KeyOf(c)']
  <2>1. CASE c \in 1 .. Len(log)
    <3>1. Alive(c) /\ KeyOf(c)' = KeyOf(c)
      BY <1>1, <1>11, <2>1, AliveSteps DEF KeyOf
    <3>. QED
      BY <1>7, <1>8, <1>9, <2>1, <3>1
  <2>2. CASE c \notin 1 .. Len(log)
    BY <1>6, <1>11, <2>2
  <2>. QED
    BY <2>1, <2>2
<1>. QED
  BY <1>10, <1>11 DEF SeedInv

-----------------------------------------------------------------------------
(* Versions in files behind the barrier *)

LEMMA CurLiveNext ==
    ASSUME TypeInv', CoreInv', NEW k \in Key, NEW l, NEW n, n = Len(log'), IsCur(l, k, n)'
    PROVE  Live(k, l)'
<1>0. n \in Nat
  BY DEF TypeInv, LogType
<1>1. MemAt(k)'
  BY DEF CoreInv, MemInv
<1>2. l \in 1 .. n /\ l # None
  BY <1>0 DEF IsCur, Vers, None
<1>3. ASSUME NEW x, IsCur(x, k, n)' PROVE l = x
  <2>1. x \in 1 .. n /\ l <= x /\ x <= l
    BY <1>3 DEF IsCur, Vers
  <2>. QED
    BY <1>0, <1>2, <2>1
<1>4. CASE writer'[k] = None
  <2>1. PICK x : x = slot'[k]
    OBVIOUS
  <2>2. IsCur(x, k, Len(log))'
    BY <1>1, <1>4, <2>1 DEF MemAt, IsCur
  <2>3. IsCur(x, k, n)'
    BY <2>2, AtEnd
  <2>. QED
    BY <1>3, <2>1, <2>3 DEF Live
<1>5. CASE writer'[k] # None
  <2>1. PICK x : x = before'[k]
    OBVIOUS
  <2>2. IsCur(x, k, Len(log))'
    BY <1>1, <1>5, <2>1 DEF MemAt, IsCur
  <2>3. IsCur(x, k, n)'
    BY <2>2, AtEnd
  <2>. QED
    BY <1>2, <1>3, <2>1, <2>3 DEF Live
<1>. QED
  BY <1>4, <1>5

\* The committed version of a record, if it is in a file in hand, was that before.
LEMMA CurSteps ==
    ASSUME TypeInv, CoreInv, FileInv, [Next]_vars, NoCrash,
           NEW k \in Key, NEW l, NEW n \in 1 .. Len(log'), IsCur(l, k, n)', FileOf(l) \in Processed
    PROVE  /\ l \in 1 .. Len(log)
           /\ \E m \in 0 .. Len(log) : IsCur(l, k, m) /\ m <= n /\ (m = n \/ m = Len(log))
<1>0. LogType /\ OldInv /\ ClosedInv
  BY Parts DEF FileInv
<1>1. /\ Len(log) \in Nat /\ Len(log') \in {Len(log), Len(log) + 1} /\ Grown
      /\ \A j \in 1 .. Len(log) : j \in 1 .. Len(log') /\ log'[j] = log[j]
  BY OldSame, LogSteps
<1>2. l \in 1 .. n
  BY DEF IsCur, Vers
<1>3. CASE n \in 1 .. Len(log)
  <2>1. IsCur(l, k, n) /\ n \in 0 .. Len(log)
    BY <1>1, <1>3, VersGrown
  <2>. QED
    BY <1>1, <1>2, <1>3, <2>1
<1>4. CASE n \notin 1 .. Len(log)
  <2>1. n = Len(log) + 1 /\ Len(log') = n
    BY <1>1, <1>4
  <2>2. l # Len(log) + 1
    BY <1>0, NewFile
  <2>3. l \in 1 .. Len(log)
    BY <1>1, <1>2, <2>1, <2>2
  <2>4. PICK u : u = log[l].txn
    OBVIOUS
  <2>5. IsLN(l) /\ log[l].key = k /\ EndedBy(u, n)'
    BY <1>1, <2>3, <2>4 DEF IsCur, Vers, IsLN, EndedBy
  <2>6. EndedBy(u, Len(log))'
    BY <2>1, <2>5, AtEnd
  <2>7. EndedBy(u, Len(log))
    <3>1. ASSUME NEW t \in Txn, NEW sync \in BOOLEAN, Commit(t, sync), u = t PROVE FALSE
      <4>1. txn[t] = "active" /\ t # None
        BY <3>1, CleanerAssumption DEF Commit, None
      <4>2. Active(l)
        BY <2>3, <2>4, <2>5, <3>1, <4>1 DEF Active, Is, IsLN
      <4>. QED
        BY <1>0, <2>3, <4>2 DEF ClosedInv
    <3>. QED
      BY <2>6, <3>1, EndSteps
  <2>8. l \in Vers(k, Len(log))
    BY <2>3, <2>4, <2>5, <2>7 DEF Vers
  <2>9. ASSUME NEW x \in Vers(k, Len(log)) PROVE x <= l
    <3>1. x \in 1 .. Len(log) /\ IsLN(x) /\ log[x].key = k /\ EndedBy(log[x].txn, Len(log))
      BY DEF Vers
    <3>2. EndedBy(log[x].txn, n)'
      BY <1>1, <2>1, <3>1 DEF EndedBy
    <3>3. x \in Vers(k, n)'
      BY <1>1, <2>1, <3>1, <3>2 DEF Vers, IsLN
    <3>. QED
      BY <3>3 DEF IsCur
  <2>10. IsCur(l, k, Len(log)) /\ Len(log) \in 0 .. Len(log) /\ Len(log) <= n
    BY <1>1, <2>1, <2>8, <2>9 DEF IsCur
  <2>. QED
    BY <2>3, <2>10
<1>. QED
  BY <1>3, <1>4

\* It goes on waiting, or it stops when it is no longer the committed version.
LEMMA WaitSteps ==
    ASSUME TypeInv, SelInv, CoreInv, FileInv, EntriesInv, LookInv, [Next]_vars, NoCrash, TypeInv', CoreInv',
           NEW k \in Key, NEW l \in 1 .. Len(log), NEW n \in 1 .. Len(log'), IsCur(l, k, n)',
           NEW m \in 0 .. Len(log), m = n \/ m = Len(log), l \in pending \/ m < settled[FileOf(l)]
    PROVE  l \in pending' \/ n < settled'[FileOf(l)]
<1>0. LogType /\ SelType
  BY Parts
<1>1. Len(log) \in Nat /\ Len(log') \in {Len(log), Len(log) + 1}
  BY OldSame, LogSteps
<1>2. PICK f : f = FileOf(l)
  OBVIOUS
<1>3. f \in File /\ settled[f] <= Len(log) /\ settled[f] \in Nat
  <2>1. f \in File
    BY <1>0, <1>2, LenIs, LsnFile
  <2>. QED
    BY <1>0, <2>1, CleanerAssumption DEF EntriesInv, SelType
<1>4. CASE l \in pending /\ l \notin pending'
  <2>1. PICK a \in Agent : Removed(a)
    BY <1>4, CleanEndIs, PendingSteps
  <2>2. l = at[a]
    BY <1>4, <2>1 DEF Removed
  <2>3. ~Live(k, l)'
    BY <2>1, <2>2, Settles DEF Removed
  <2>4. n # Len(log')
    BY <2>3, CurLiveNext
  <2>5. settled'[f] = Len(log')
    BY <1>0, <1>2, <1>3, <2>1, <2>2 DEF Removed, SelType
  <2>. QED
    BY <1>1, <1>2, <2>4, <2>5
<1>5. CASE m < settled[f]
  <2>1. m = n
    BY <1>1, <1>3, <1>5
  <2>2. settled'[f] = settled[f] \/ settled'[f] = Len(log')
    <3>1. ASSUME NEW a \in Agent, Removed(a) PROVE settled'[f] = settled[f] \/ settled'[f] = Len(log')
      BY <1>0, <1>3, <3>1 DEF Removed, SelType
    <3>. QED
      BY <3>1, PendingSteps
  <2>. QED
    BY <1>1, <1>2, <1>3, <1>5, <2>1, <2>2
<1>. QED
  BY <1>2, <1>4, <1>5

LEMMA GoneNext ==
    ASSUME TypeInv, SelInv, CoreInv, FileInv, EntriesInv, LookInv, LiveInv, CkptInv, GoneInv,
           [Next]_vars, NoCrash, TypeInv', CoreInv'
    PROVE  GoneInv'
<1>0. LogType /\ OldInv /\ CkptType
  BY Parts DEF FileInv
<1>1. /\ Len(log) \in Nat /\ Len(log') \in {Len(log), Len(log) + 1}
      /\ durable <= durable' /\ durable' \in 1 .. Len(log') /\ durable \in Nat /\ durable <= Len(log) /\ 1 <= durable
  BY <1>0, LenIs, LogSteps
<1>2. ASSUME NEW k \in Key, NEW l \in 1 .. Len(log), NEW n \in durable .. Len(log),
             IsCur(l, k, n), FileOf(l) \in Kept
      PROVE  l \in pending \/ n < settled[FileOf(l)]
  BY <1>2 DEF GoneInv
<1>3. ASSUME NEW k \in Key, NEW l \in 1 .. Len(log), Ckpting, NEW n \in start .. Len(log),
             IsCur(l, k, n), FileOf(l) \in snap
      PROVE  l \in pending \/ n < settled[FileOf(l)]
  BY <1>3 DEF GoneInv
<1>4. ASSUME NEW k \in Key, NEW l, NEW n \in durable' .. Len(log'), IsCur(l, k, n)', FileOf(l) \in Kept'
      PROVE  l \in pending' \/ n < settled'[FileOf(l)]
  <2>0. n \in 1 .. Len(log')
    BY <1>1
  <2>1. FileOf(l) \in Processed
    BY <1>0, <1>4, KeptSteps, KeptIs
  <2>2. l \in 1 .. Len(log)
    BY <1>4, <2>0, <2>1, CurSteps
  <2>3. PICK m \in 0 .. Len(log) : IsCur(l, k, m) /\ m <= n /\ (m = n \/ m = Len(log))
    BY <1>4, <2>0, <2>1, CurSteps
  <2>4. m \in durable .. Len(log)
    BY <1>1, <2>3
  <2>5. l \in pending \/ m < settled[FileOf(l)]
    <3>1. CASE FileOf(l) \in Kept
      BY <1>2, <2>2, <2>3, <2>4, <3>1
    <3>2. CASE FileOf(l) \notin Kept
      <4>1. CkptAfter /\ FileOf(l) \in snap
        BY <1>0, <1>4, <3>2, KeptSteps
      <4>2. pc["checkpointer"] = "after"
        BY <4>1 DEF CkptAfter
      <4>3. PICK e \in 1 .. durable : log[e].type = "CkptEnd" /\ log[e].start = start
        BY <4>2 DEF CkptInv
      <4>4. e \in 1 .. Len(log) /\ log[e].start \in 1 .. e - 1
        <5>1. e \in 1 .. Len(log)
          BY <1>1
        <5>. QED
          BY <1>0, <4>3, <5>1, EntryIs
      <4>5. m \in start .. Len(log)
        BY <1>1, <2>4, <4>3, <4>4
      <4>. QED
        BY <1>3, <2>2, <2>3, <4>1, <4>2, <4>5 DEF Ckpting
    <3>. QED
      BY <3>1, <3>2
  <2>. QED
    BY <1>4, <2>0, <2>2, <2>3, <2>5, WaitSteps
<1>5. ASSUME Ckpting', NEW k \in Key, NEW l, NEW n \in start' .. Len(log'), IsCur(l, k, n)', FileOf(l) \in snap'
      PROVE  l \in pending' \/ n < settled'[FileOf(l)]
  <2>0. start \in 0 .. Len(log) /\ (Ckpting => Is(start, "CkptStart"))
    BY <1>0 DEF CkptType, Ckpting
  <2>1. CASE CkptStart
    <3>1. snap' = snap /\ start' = Len(log) + 1 /\ pending' = pending
      BY <2>1, CkptStartIs DEF selVars
    <3>2. n = Len(log) + 1 /\ n \in 1 .. Len(log')
      BY <1>1, <3>1
    <3>3. FileOf(l) \in Processed
      BY <1>0, <1>5, <3>1, KeptIs
    <3>4. l \in 1 .. Len(log) /\ IsCur(l, k, Len(log))
      <4>1. l \in 1 .. Len(log) /\ \E m \in 0 .. Len(log) : IsCur(l, k, m) /\ m <= n /\ (m = n \/ m = Len(log))
        BY <1>5, <3>2, <3>3, CurSteps
      <4>. QED
        BY <1>1, <3>2, <4>1
    <3>5. l \in pending
      BY <3>3, <3>4, CurLive DEF LiveInv
    <3>. QED
      BY <3>1, <3>5
  <2>2. CASE ~CkptStart
    <3>1. Ckpting /\ snap' = snap /\ start' = start
      BY <1>0, <1>5, <2>2, KeptSteps
    <3>2. n \in 1 .. Len(log') /\ start \in 1 .. Len(log)
      BY <1>1, <2>0, <3>1 DEF Is
    <3>3. FileOf(l) \in Processed
      BY <1>0, <1>5, <3>1, KeptIs
    <3>4. l \in 1 .. Len(log)
      BY <1>5, <3>2, <3>3, CurSteps
    <3>5. PICK m \in 0 .. Len(log) : IsCur(l, k, m) /\ m <= n /\ (m = n \/ m = Len(log))
      BY <1>5, <3>2, <3>3, CurSteps
    <3>6. m \in start .. Len(log)
      BY <1>1, <3>1, <3>2, <3>5
    <3>7. l \in pending \/ m < settled[FileOf(l)]
      BY <1>3, <1>5, <3>1, <3>4, <3>5, <3>6
    <3>. QED
      BY <1>5, <3>2, <3>4, <3>5, <3>7, WaitSteps
  <2>. QED
    BY <2>1, <2>2
<1>. QED
  BY <1>4, <1>5 DEF GoneInv, FileOf

-----------------------------------------------------------------------------
(* What images hold in files behind the barrier *)

LEMMA VersUp ==
    ASSUME Grown, NEW m \in 0 .. Len(log), NEW n \in m .. Len(log'), NEW k, NEW x \in Vers(k, m)
    PROVE  x \in Vers(k, n)'
<1>1. /\ \A j \in 1 .. Len(log) : log'[j] = log[j]
      /\ \A j \in 1 .. m : j \in 1 .. Len(log) /\ j \in 1 .. n
  BY DEF Grown
<1>2. x \in 1 .. m /\ IsLN(x) /\ log[x].key = k /\ EndedBy(log[x].txn, m)
  BY DEF Vers
<1>3. log'[x] = log[x]
  BY <1>1, <1>2
<1>4. EndedBy(log[x].txn, n)'
  BY <1>1, <1>2, <1>3 DEF EndedBy
<1>. QED
  BY <1>1, <1>2, <1>3, <1>4 DEF Vers, IsLN

\* No open transaction has written to a file in hand, so a slot that refers to one
\* holds a committed version.
LEMMA SlotCommitted ==
    ASSUME TypeInv, CoreInv, FileInv, NEW k \in Key, FileOf(slot[k]) \in Processed
    PROVE  slot[k] \in Vers(k, Len(log))
<1>1. MemAt(k) /\ IsVersion(slot[k], k) /\ ClosedInv
  BY DEF CoreInv, MemInv, SlotsInv, FileInv
<1>2. CASE writer[k] = None
  BY <1>1, <1>2 DEF MemAt, IsCur
<1>3. CASE writer[k] # None /\ slot[k] = before[k]
  BY <1>1, <1>3 DEF MemAt, IsCur
<1>4. CASE writer[k] # None /\ slot[k] # before[k]
  <2>1. Active(slot[k]) /\ slot[k] \in 1 .. Len(log)
    BY <1>1, <1>4 DEF MemAt, Last, Active, IsVersion, Is
  <2>. QED
    BY <1>1, <2>1 DEF ClosedInv
<1>. QED
  BY <1>2, <1>3, <1>4

LEMMA ImageNext ==
    ASSUME TypeInv, SelInv, CoreInv, FileInv, EntriesInv, RootInv, CkptInv, ImageInv, [Next]_vars, NoCrash
    PROVE  ImageInv'
<1>0. LogType /\ OldInv /\ CkptType /\ TreeType
  BY Parts DEF FileInv
<1>1. /\ Len(log) \in Nat /\ Len(log') \in {Len(log), Len(log) + 1} /\ Grown
      /\ durable <= durable' /\ durable' \in 1 .. Len(log') /\ durable \in Nat /\ durable <= Len(log) /\ 1 <= durable
      /\ \A j \in 1 .. Len(log) : j \in 1 .. Len(log') /\ log'[j] = log[j]
  BY <1>0, LenIs, LogSteps, OldSame
<1>2. root \in 1 .. Len(log)
  BY <1>0 DEF CoreInv, SlotsInv, TreeType, None
<1>3. /\ pc["checkpointer"] \in {"end", "after"} =>
            \A b \in 1 .. Len(log) : log[b].type = "BIN" => b < start \/ b = root
      /\ pc["checkpointer"] = "after" =>
            \E e \in 1 .. durable : /\ log[e].type = "CkptEnd" /\ log[e].start = start /\ log[e].root = root
                                    /\ \A d \in 1 .. Len(log) : log[d].type = "CkptEnd" => d <= e
  BY DEF CkptInv
<1>4. ASSUME NEW k \in Key, NEW e \in 1 .. Len(log), NEW b \in 1 .. Len(log), NEW n \in durable .. Len(log),
             Usable(e), BaseOf(b, e), e <= n, b <= n, FileOf(log[b].slots[k]) \in Kept
      PROVE  log[b].slots[k] \in Vers(k, n)
  BY <1>4 DEF ImageInv
<1>5. ASSUME NEW k \in Key
      PROVE  /\ pc["checkpointer"] = "end" /\ FileOf(log[root].slots[k]) \in snap \cup Kept
                   => log[root].slots[k] \in Vers(k, Len(log))
             /\ pc["checkpointer"] = "after" /\ FileOf(log[root].slots[k]) \in snap
                   => log[root].slots[k] \in Vers(k, durable)
  BY DEF ImageInv
<1>6. start \in 0 .. Len(log)
  BY <1>0 DEF CkptType
\* The image of the checkpoint that has just ended is the only one of it.
<1>7. ASSUME pc["checkpointer"] \in {"end", "after"}, NEW b \in 1 .. Len(log),
             b = root \/ (log[b].type = "BIN" /\ b > start)
      PROVE  b = root
  BY <1>3, <1>6, <1>7
<1>8. ASSUME NEW k \in Key, NEW e \in 1 .. Len(log'), NEW b \in 1 .. Len(log'), NEW n \in durable' .. Len(log'),
             Usable(e)', BaseOf(b, e)', e <= n, b <= n, NEW x, x = log'[b].slots[k], FileOf(x) \in Kept'
      PROVE  x \in Vers(k, n)'
  <2>0. b = log'[e].root \/ (b \in 1 .. Len(log') /\ log'[b].type = "BIN" /\ b > log'[e].start)
    BY <1>8 DEF BaseOf, Is
  <2>1. CASE CkptEnd
    <3>1. e = Len(log) + 1 /\ log'[e].start = start /\ log'[e].root = root
      BY <1>8, <2>1, UsableSteps
    <3>2. log'[Len(log) + 1].type = "CkptEnd" /\ pc["checkpointer"] = "end"
      BY <2>1, CkptEndIs DEF Adds
    <3>3. b \in 1 .. Len(log) /\ (b = root \/ (log[b].type = "BIN" /\ b > start))
      BY <1>1, <1>2, <2>0, <3>1, <3>2
    <3>4. b = root
      BY <1>7, <3>2, <3>3
    <3>5. x = log[root].slots[k] /\ FileOf(x) \in Kept
      <4>1. ~CkptAfter
        BY <2>1 DEF CkptEnd, CkptAfter
      <4>2. Kept' = Kept
        BY <1>0, <4>1, KeptSteps
      <4>. QED
        BY <1>1, <1>2, <1>8, <3>4, <4>2
    <3>6. x \in Vers(k, Len(log)) /\ Len(log) \in 0 .. Len(log) /\ n \in Len(log) .. Len(log')
      BY <1>1, <1>5, <1>8, <3>1, <3>2, <3>5
    <3>. QED
      BY <1>1, <3>6, VersUp
  <2>2. CASE ~CkptEnd
    <3>1. Usable(e) /\ log'[e] = log[e] /\ e \in 1 .. Len(log)
      BY <1>8, <2>2, UsableSteps
    <3>2. log[e].root \in 1 .. Len(log)
      <4>1. log[e].type = "CkptEnd" /\ EntryOk(e)
        BY <3>1 DEF Usable, Is, EntriesInv
      <4>2. log[e].root \in 0 .. e - 1
        BY <1>0, <3>1, <4>1, EntryIs
      <4>. QED
        BY <1>1, <3>1, <4>1, <4>2 DEF EntryOk, None
    <3>3. CASE b \in 1 .. Len(log)
      <4>1. BaseOf(b, e) /\ x = log[b].slots[k]
        BY <1>1, <1>8, <2>0, <3>1, <3>3 DEF BaseOf, Is
      <4>2. PICK m \in durable .. Len(log) : m <= n /\ e <= m /\ b <= m
        <5>1. CASE n <= Len(log)
          BY <1>1, <1>8, <5>1
        <5>2. CASE n > Len(log)
          BY <1>1, <1>8, <3>1, <3>3, <5>2
        <5>. QED
          BY <1>1, <5>1, <5>2
      <4>3. CASE FileOf(x) \in Kept
        <5>1. x \in Vers(k, m) /\ m \in 0 .. Len(log) /\ n \in m .. Len(log')
          BY <1>1, <1>4, <3>1, <3>3, <4>1, <4>2, <4>3
        <5>. QED
          BY <1>1, <5>1, VersUp
      <4>4. CASE FileOf(x) \notin Kept
        <5>1. CkptAfter /\ FileOf(x) \in snap
          BY <1>0, <1>8, <4>4, KeptSteps
        <5>2. pc["checkpointer"] = "after"
          BY <5>1 DEF CkptAfter
        <5>3. PICK d \in 1 .. durable : /\ log[d].type = "CkptEnd" /\ log[d].start = start /\ log[d].root = root
                                        /\ \A c \in 1 .. Len(log) : log[c].type = "CkptEnd" => c <= d
          BY <1>3, <5>2
        <5>4. d <= e /\ e <= d
          BY <3>1, <5>3 DEF Usable, Is
        <5>5. e = d
          BY <3>1, <5>4
        <5>6. b = root
          BY <1>7, <3>3, <4>1, <5>2, <5>3, <5>5 DEF BaseOf, Is
        <5>7. x \in Vers(k, durable) /\ durable \in 0 .. Len(log) /\ n \in durable .. Len(log')
          BY <1>1, <1>5, <4>1, <5>1, <5>2, <5>6
        <5>. QED
          BY <1>1, <5>7, VersUp
      <4>. QED
        BY <4>3, <4>4
    <3>4. CASE b \notin 1 .. Len(log)
      <4>1. log'[b].type = "BIN"
        BY <2>0, <3>1, <3>2, <3>4
      <4>2. CkptFlush /\ b = Len(log) + 1 /\ Len(log') = b
        BY <1>8, <3>4, <4>1, KindSteps
      <4>3. log' # log
        BY <3>4, <4>2
      <4>4. log'[b] = [type |-> "BIN", slots |-> slot]
        BY <4>2, <4>3, CkptFlushIs DEF Adds
      <4>5. ~CkptAfter
        BY <4>2 DEF CkptFlush, CkptAfter
      <4>6. x = slot[k] /\ FileOf(slot[k]) \in Processed
        BY <1>0, <1>8, <4>4, <4>5, KeptSteps, KeptIs
      <4>7. x \in Vers(k, Len(log)) /\ Len(log) \in 0 .. Len(log) /\ n \in Len(log) .. Len(log')
        BY <1>1, <1>8, <4>2, <4>6, SlotCommitted
      <4>. QED
        BY <1>1, <4>7, VersUp
    <3>. QED
      BY <3>3, <3>4
  <2>. QED
    BY <2>1, <2>2
<1>9. ASSUME NEW k \in Key, pc'["checkpointer"] = "end", NEW x, x = log'[root'].slots[k], FileOf(x) \in snap' \cup Kept'
      PROVE  x \in Vers(k, Len(log))'
  <2>0. ~CkptAfter /\ ~CkptStart /\ ~CkptEnd /\ Ckpting'
    BY <1>0, <1>9, CkptAfterIs, CkptStartIs, CkptEndIs DEF Ckpting
  <2>1. FileOf(x) \in snap \cup Kept
    BY <1>0, <1>9, <2>0, KeptSteps
  <2>2. x \in Vers(k, Len(log))
    <3>1. CASE CkptFlush
      <4>1. x = slot[k]
        <5>1. CASE dirty
          <6>1. log'[root'] = [type |-> "BIN", slots |-> slot]
            BY <3>1, <5>1, CkptFlushIs DEF Adds
          <6>. QED
            BY <1>9, <6>1
        <5>2. CASE ~dirty
          BY <1>9, <3>1, <5>2, CkptFlushIs DEF RootInv
        <5>. QED
          BY <5>1, <5>2
      <4>2. FileOf(slot[k]) \in Processed
        BY <1>0, <2>1, <4>1, KeptIs
      <4>. QED
        BY <4>1, <4>2, SlotCommitted
    <3>2. CASE Plain
      <4>1. pc["checkpointer"] = "end" /\ root' = root
        BY <1>9, <2>0, <3>2 DEF Plain
      <4>2. x = log[root].slots[k]
        BY <1>1, <1>2, <1>9, <4>1
      <4>. QED
        BY <1>5, <2>1, <4>1, <4>2
    <3>. QED
      BY <2>0, <3>1, <3>2, CkptSteps
  <2>3. PICK i : i = Len(log')
    OBVIOUS
  <2>4. x \in Vers(k, i)'
    <3>1. Len(log) \in 0 .. Len(log) /\ i \in Len(log) .. Len(log')
      BY <1>1, <2>3
    <3>. QED
      BY <1>1, <2>2, <3>1, VersUp
  <2>. QED
    BY <2>3, <2>4, AtEnd
<1>10. ASSUME NEW k \in Key, pc'["checkpointer"] = "after", NEW x, x = log'[root'].slots[k], FileOf(x) \in snap'
       PROVE  x \in Vers(k, durable)'
  <2>0. ~CkptAfter /\ ~CkptStart /\ ~CkptFlush /\ Ckpting'
    BY <1>0, <1>10, CkptAfterIs, CkptStartIs, CkptFlushIs DEF Ckpting
  <2>1. FileOf(x) \in snap /\ root' = root
    BY <1>0, <1>10, <2>0, KeptSteps, RootSteps
  <2>2. x = log[root].slots[k]
    BY <1>1, <1>2, <1>10, <2>1
  <2>3. PICK i : i = durable'
    OBVIOUS
  <2>4. x \in Vers(k, i)'
    <3>1. CASE CkptEnd
      <4>1. pc["checkpointer"] = "end" /\ durable' = Len(log) + 1
        BY <3>1, CkptEndIs
      <4>2. x \in Vers(k, Len(log)) /\ Len(log) \in 0 .. Len(log) /\ i \in Len(log) .. Len(log')
        BY <1>1, <1>5, <2>1, <2>2, <2>3, <4>1
      <4>. QED
        BY <1>1, <4>2, VersUp
    <3>2. CASE Plain
      <4>1. pc["checkpointer"] = "after"
        BY <1>10, <2>0, <3>2 DEF Plain
      <4>2. x \in Vers(k, durable) /\ durable \in 0 .. Len(log) /\ i \in durable .. Len(log')
        BY <1>1, <1>5, <2>1, <2>2, <2>3, <4>1
      <4>. QED
        BY <1>1, <4>2, VersUp
    <3>. QED
      BY <2>0, <3>1, <3>2, CkptSteps
  <2>5. \A u : EndedBy(u, i)' <=> EndedBy(u, durable)'
    BY <2>3 DEF EndedBy
  <2>. QED
    BY <2>3, <2>4, <2>5 DEF Vers, EndedBy
<1>11. ASSUME NEW k \in Key, NEW e \in 1 .. Len(log'), NEW b \in 1 .. Len(log'), NEW n \in durable' .. Len(log'),
              Usable(e)', BaseOf(b, e)', e <= n, b <= n, FileOf(log[b].slots[k])' \in Kept'
       PROVE  log'[b].slots[k] \in Vers(k, n)'
  <2>1. PICK x : x = log'[b].slots[k]
    OBVIOUS
  <2>2. FileOf(x) \in Kept'
    BY <1>11, <2>1 DEF FileOf
  <2>. QED
    BY <1>8, <1>11, <2>1, <2>2
<1>12. ASSUME NEW k \in Key, pc'["checkpointer"] = "end", FileOf(log[root].slots[k])' \in snap' \cup Kept'
       PROVE  log'[root'].slots[k] \in Vers(k, Len(log))'
  <2>1. PICK x : x = log'[root'].slots[k]
    OBVIOUS
  <2>2. FileOf(x) \in snap' \cup Kept'
    BY <1>12, <2>1 DEF FileOf
  <2>. QED
    BY <1>9, <1>12, <2>1, <2>2
<1>13. ASSUME NEW k \in Key, pc'["checkpointer"] = "after", FileOf(log[root].slots[k])' \in snap'
       PROVE  log'[root'].slots[k] \in Vers(k, durable)'
  <2>1. PICK x : x = log'[root'].slots[k]
    OBVIOUS
  <2>2. FileOf(x) \in snap'
    BY <1>13, <2>1 DEF FileOf
  <2>. QED
    BY <1>10, <1>13, <2>1, <2>2
<1>. QED
  BY <1>11, <1>12, <1>13 DEF ImageInv

-----------------------------------------------------------------------------
(* What recovery finds when n entries are on disk *)

\* find_last_checkpoint finds the last checkpoint that ended, and the image that the
\* tree is read from is on disk.
LEMMA RecoveryBase ==
    ASSUME TypeInv, EntriesInv, CkptInv, NEW n \in durable .. Len(log)
    PROVE  \E e \in 1 .. n :
              /\ Usable(e) /\ LastCkpt(n) = log[e] /\ log[e].type = "CkptEnd"
              /\ Is(log[e].start, "CkptStart") /\ log[e].root # None
              /\ BaseOf(BaseImage(n, log[e]), e)
              /\ BaseImage(n, log[e]) \in 1 .. n /\ Survives(BaseImage(n, log[e]), n)
              /\ Is(BaseImage(n, log[e]), "BIN")
<1>0. LogType
  BY Parts
<1>1. /\ Len(log) \in Nat /\ durable \in Nat /\ 1 <= durable /\ n \in Nat /\ durable <= n /\ n <= Len(log)
      /\ n \in 0 .. Len(log)
  BY <1>0, LenIs
<1>2. gone \subseteq Kept
  BY DEF Kept
<1>3. ASSUME NEW e \in 1 .. n, log[e].type = "CkptEnd", \A d \in 1 .. n : log[d].type = "CkptEnd" => d <= e
      PROVE  /\ Usable(e) /\ FileOf(e) \notin gone /\ FileOf(log[e].root) \notin gone
             /\ Is(log[e].start, "CkptStart") /\ log[e].root # None
  <2>1. Usable(e)
    BY <1>1, <1>3 DEF Usable, Is
  <2>2. e \in 1 .. Len(log) /\ EntryOk(e)
    BY <1>1 DEF EntriesInv
  <2>3. Is(log[e].start, "CkptStart") /\ log[e].root # None
    BY <1>3, <2>2 DEF EntryOk
  <2>4. log[e].start \in 1 .. e - 1
    BY <1>0, <1>3, <2>2, EntryIs
  <2>5. FileOf(log[e].start) <= FileOf(e) /\ FileOf(log[e].start) \in Nat /\ FileOf(e) \in Nat
    <3>1. log[e].start \in Nat \ {0} /\ e \in Nat \ {0} /\ log[e].start <= e
      BY <2>2, <2>4
    <3>. QED
      BY <3>1, FileOfType
  <2>6. \A f \in gone : f < FileOf(log[e].start) /\ FileOf(log[e].root) # f
    BY <1>2, <2>1, <2>2 DEF CkptInv
  <2>. QED
    BY <2>1, <2>3, <2>5, <2>6
<1>4. PICK e \in 1 .. n : log[e].type = "CkptEnd" /\ \A d \in 1 .. n : log[d].type = "CkptEnd" => d <= e
  <2> DEFINE E == {d \in 1 .. n : log[d].type = "CkptEnd"}
  <2>1. E # {} /\ E \subseteq 0 .. n
    BY <1>1 DEF CkptInv
  <2>2. PICK e \in E : \A d \in E : e >= d
    <3>. HIDE DEF E
    <3>. QED
      BY <1>1, <2>1, Greatest
  <2>. QED
    BY <1>1, <2>2
<1>5. /\ Usable(e) /\ FileOf(e) \notin gone /\ FileOf(log[e].root) \notin gone
      /\ Is(log[e].start, "CkptStart") /\ log[e].root # None
  BY <1>3, <1>4
<1>6. LastCkpt(n) = log[e]
  <2>1. e \in Surviving(n, "CkptEnd")
    BY <1>4, <1>5 DEF Surviving
  <2>2. PICK d \in Surviving(n, "CkptEnd") : LastCkpt(n) = log[d] /\ \A c \in Surviving(n, "CkptEnd") : c <= d
    BY <1>0, <1>1, <2>1, LastCkptIs
  <2>3. d \in 1 .. n /\ log[d].type = "CkptEnd"
    BY DEF Surviving
  <2>4. e <= d /\ d <= e
    BY <1>4, <2>1, <2>2, <2>3
  <2>. QED
    BY <1>1, <2>2, <2>3, <2>4
<1>7. PICK b : b = BaseImage(n, log[e])
  OBVIOUS
<1>8. /\ b \in 0 .. n /\ (b # None => Is(b, "BIN")) /\ log[e].root <= b /\ log[e].root \in 0 .. n
      /\ b \in {log[e].root} \cup {l \in Surviving(n, "BIN") : l >= log[e].start}
  BY <1>0, <1>1, <1>6, <1>7, BaseImageIs
<1>9. b # None /\ b \in 1 .. n
  BY <1>1, <1>5, <1>8 DEF None
<1>10. CASE b = log[e].root
  BY <1>4, <1>5, <1>6, <1>7, <1>8, <1>9, <1>10 DEF BaseOf, Survives
<1>11. CASE b \in Surviving(n, "BIN") /\ b >= log[e].start
  <2>1. log[b].type = "BIN" /\ FileOf(b) \notin gone
    BY <1>11 DEF Surviving
  <2>2. b # log[e].start
    BY <1>5, <2>1 DEF Is
  <2>3. b > log[e].start
    BY <1>5, <1>9, <1>11, <2>2 DEF Is
  <2>. QED
    BY <1>4, <1>5, <1>6, <1>7, <1>8, <1>9, <2>1, <2>3 DEF BaseOf, Survives
<1>. QED
  BY <1>8, <1>10, <1>11

\* The image holds every version that counts of the part before the checkpoint.
LEMMA BaseHolds ==
    ASSUME TypeInv, EntriesInv, SeedInv, NEW n \in durable .. Len(log),
           NEW e \in 1 .. n, log[e].type = "CkptEnd", Is(log[e].start, "CkptStart"),
           NEW b \in 1 .. n, BaseOf(b, e), NEW c \in 1 .. n, Alive(c), c < log[e].start
    PROVE  c <= log[b].slots[KeyOf(c)]
<1>0. LogType
  BY Parts
<1>1. Len(log) \in Nat /\ n \in Nat /\ n <= Len(log) /\ e \in 1 .. Len(log) /\ c \in 1 .. Len(log) /\ b \in 1 .. Len(log)
  BY <1>0, LenIs
<1>2. CASE b = log[e].root
  BY <1>1, <1>2 DEF SeedInv
<1>3. CASE Is(b, "BIN") /\ b > log[e].start
  <2>1. log[e].start \in 1 .. b /\ log[log[e].start].type = "CkptStart" /\ b \in c + 1 .. Len(log)
    BY <1>1, <1>3 DEF Is
  <2>2. log[b].type = "BIN"
    BY <1>3 DEF Is
  <2>3. \/ c <= log[b].slots[KeyOf(c)]
        \/ \A s \in 1 .. b : log[s].type = "CkptStart" => s < c
    BY <1>1, <2>1, <2>2 DEF SeedInv
  <2>. QED
    BY <1>1, <2>1, <2>3
<1>. QED
  BY <1>2, <1>3 DEF BaseOf

LEMMA CurExists ==
    ASSUME TypeInv, EntriesInv, NEW n \in durable .. Len(log), NEW k \in Key
    PROVE  \E m \in 1 .. n : IsCur(m, k, n)
<1>0. LogType
  BY Parts
<1>1. n \in Nat /\ durable \in Nat /\ durable <= n
  BY <1>0, LenIs
<1>2. Vers(k, n) \subseteq 0 .. n /\ Vers(k, n) # {}
  <2>1. PICK l \in 1 .. durable : IsLN(l) /\ log[l].key = k /\ log[l].txn = None
    BY DEF EntriesInv
  <2>2. l \in Vers(k, n)
    BY <1>1, <2>1 DEF Vers, EndedBy
  <2>. QED
    BY <2>2 DEF Vers
<1>3. PICK m \in Vers(k, n) : \A x \in Vers(k, n) : m >= x
  BY <1>1, <1>2, Greatest
<1>4. m \in 1 .. n /\ Vers(k, n) \subseteq Nat
  BY DEF Vers
<1>. QED
  BY <1>3, <1>4 DEF IsCur

\* The committed version of a record is on disk.
LEMMA CurSurvives ==
    ASSUME TypeInv, SelInv, GoneInv, ~SettledSinceCkpt, NEW n \in durable .. Len(log), NEW k \in Key,
           NEW m, IsCur(m, k, n)
    PROVE  Survives(m, n)
<1>0. LogType /\ SelType
  BY Parts
<1>1. n \in Nat /\ durable \in Nat /\ durable <= n /\ n <= Len(log) /\ Len(log) \in Nat /\ Len(log) <= MaxLog
  BY <1>0, LenIs
<1>2. m \in 1 .. n /\ m \in 1 .. Len(log)
  BY <1>1 DEF IsCur, Vers
<1>3. ASSUME FileOf(m) \in gone PROVE FALSE
  <2>1. m \in pending \/ n < settled[FileOf(m)]
    BY <1>2, <1>3 DEF GoneInv, Kept
  <2>2. m \notin pending
    BY <1>3 DEF SelInv, PendingInv
  <2>3. FileOf(m) \in File
    BY <1>1, <1>2, LsnFile
  <2>4. settled[FileOf(m)] \in Nat
    BY <1>0, <2>3, CleanerAssumption DEF SelType
  <2>5. settled[FileOf(m)] # None
    BY <1>1, <2>1, <2>2, <2>4 DEF None
  <2>6. PICK e \in Surviving(durable, "CkptEnd") : ~(e < settled[FileOf(m)])
    BY <1>3, <2>5 DEF SettledSinceCkpt
  <2>7. e \in 1 .. durable
    BY DEF Surviving
  <2>. QED
    BY <1>1, <2>1, <2>2, <2>4, <2>6, <2>7
<1>. QED
  BY <1>2, <1>3 DEF Survives

\* run_analysis takes a transaction with an LN on disk for committed when it was.
LEMMA CommittedIs ==
    ASSUME TypeInv, ~CommitRecordLost, NEW n \in durable .. Len(log), NEW l \in 1 .. n, Survives(l, n), IsLN(l)
    PROVE  log[l].txn \in Committed(n) \cup {None} <=> EndedBy(log[l].txn, n)
<1>0. LogType
  BY Parts
<1>1. n \in Nat /\ n <= Len(log) /\ Len(log) \in Nat
  BY <1>0, LenIs
<1>2. l \in Surviving(Len(log), "LN")
  BY <1>1 DEF Surviving, Survives, IsLN
<1>3. ASSUME NEW c \in 1 .. n, log[c].type = "Commit", log[c].txn = log[l].txn
      PROVE  log[l].txn \in Committed(n)
  <2>1. FileOf(c) \notin gone
    <3>1. ASSUME FileOf(c) \in gone PROVE FALSE
      <4>1. c \in EntriesOf(FileOf(c))
        BY <1>1 DEF EntriesOf
      <4>. QED
        BY <1>2, <1>3, <3>1, <4>1 DEF CommitRecordLost
    <3>. QED
      BY <3>1
  <2>2. c \in Surviving(n, "Commit")
    BY <1>3, <2>1 DEF Surviving
  <2>. QED
    BY <1>3, <2>2 DEF Committed
<1>4. ASSUME log[l].txn \in Committed(n) PROVE EndedBy(log[l].txn, n)
  BY <1>4 DEF Committed, Surviving, EndedBy
<1>. QED
  BY <1>3, <1>4 DEF EndedBy

RecoveryInv == CoreInv /\ EntriesInv /\ CkptInv /\ SeedInv /\ GoneInv /\ ImageInv

\* An LN that an image holds past the committed version of the record is on disk,
\* and the version before it is the committed one.
LEMMA UndoLeads ==
    ASSUME TypeInv, RecoveryInv, NEW n \in durable .. Len(log), NEW k \in Key, NEW m, IsCur(m, k, n),
           NEW e \in 1 .. n, Usable(e), NEW b \in 1 .. n, BaseOf(b, e), Is(b, "BIN"),
           NEW x, x = log[b].slots[k], m < x
    PROVE  /\ x \in 1 .. n /\ IsLN(x) /\ Survives(x, n) /\ ~EndedBy(log[x].txn, n)
           /\ log[x].abort = m
<1>0. LogType
  BY Parts
<1>1. n \in Nat /\ n <= Len(log) /\ Len(log) \in Nat /\ b \in 1 .. Len(log) /\ e \in 1 .. Len(log)
      /\ n \in 0 .. Len(log)
  BY <1>0, LenIs
<1>2. m \in 1 .. n /\ IsLN(m) /\ log[m].key = k /\ EndedBy(log[m].txn, n)
  BY DEF IsCur, Vers
<1>3. IsVersion(x, k) /\ x \in 1 .. n
  <2>1. IsVersion(x, k)
    BY <1>1 DEF RecoveryInv, EntriesInv, EntryOk, Is
  <2>2. log[b].slots \in [Key -> 0 .. b - 1]
    BY <1>0, <1>1, EntryIs DEF Is
  <2>3. x \in 0 .. b - 1
    BY <2>2
  <2>. QED
    BY <1>1, <2>1, <2>3 DEF IsVersion, Is
<1>4. IsLN(x) /\ log[x].key = k /\ x \in 1 .. Len(log)
  BY <1>3 DEF IsVersion, Is, IsLN
<1>5. x \notin Vers(k, n)
  BY <1>2, <1>3 DEF IsCur
<1>6. ~EndedBy(log[x].txn, n)
  BY <1>3, <1>4, <1>5 DEF Vers
<1>7. Survives(x, n)
  <2>1. ASSUME FileOf(x) \in gone PROVE FALSE
    BY <1>1, <1>5, <2>1 DEF RecoveryInv, ImageInv, Kept
  <2>. QED
    BY <1>3, <2>1 DEF Survives
<1>8. log[x].abort = m
  <2>1. EndedBy(log[m].txn, Len(log)) /\ m \in 1 .. x - 1 /\ IsVersion(m, k)
    <3>1. Len(log) \in n .. Len(log)
      BY <1>1
    <3>2. EndedBy(log[m].txn, Len(log))
      BY <1>0, <1>1, <1>2, <3>1, VersMono
    <3>. QED
      BY <1>1, <1>2, <1>3, <3>2 DEF IsVersion, Is, IsLN
  <2>2. EndedBy(log[m].txn, x - 1)
    BY <1>2, <1>4, <1>6, <2>1 DEF RecoveryInv, CoreInv, OrderInv
  <2>3. m \in Vers(k, x - 1)
    BY <1>2, <2>1, <2>2 DEF Vers
  <2>4. IsCur(log[x].abort, k, x - 1)
    BY <1>4, <2>3 DEF RecoveryInv, CoreInv, AbortInv
  <2>5. PICK a : a = log[x].abort
    OBVIOUS
  <2>6. a \in Vers(k, x - 1) /\ m <= a
    BY <2>3, <2>4, <2>5 DEF IsCur
  <2>7. a \in Vers(k, n)
    <3>1. x - 1 \in 0 .. Len(log) /\ n \in x - 1 .. Len(log)
      BY <1>1, <1>3
    <3>. QED
      BY <1>0, <2>6, <3>1, VersMono
  <2>8. a <= m /\ a \in Nat
    BY <2>7 DEF IsCur, Vers
  <2>. QED
    BY <1>2, <2>5, <2>6, <2>8
<1>. QED
  BY <1>3, <1>4, <1>6, <1>7, <1>8

\* Redo and undo leave every slot at the record's committed version, and its LN and
\* the image are on disk.
LEMMA Recovered ==
    ASSUME TypeInv, SelInv, RecoveryInv, ~CommitRecordLost, ~SettledSinceCkpt,
           NEW n \in durable .. Len(log), NEW k \in Key
    PROVE  /\ IsCur(RecoveredSlot(k, n), k, n) /\ Survives(RecoveredSlot(k, n), n)
           /\ BaseImage(n, LastCkpt(n)) # None /\ Survives(BaseImage(n, LastCkpt(n)), n)
<1>0. LogType
  BY Parts
<1>1. n \in Nat /\ n <= Len(log) /\ Len(log) \in Nat /\ n \in 0 .. Len(log)
  BY <1>0, LenIs
<1>2. PICK e \in 1 .. n :
         /\ Usable(e) /\ LastCkpt(n) = log[e] /\ log[e].type = "CkptEnd"
         /\ Is(log[e].start, "CkptStart") /\ log[e].root # None
         /\ BaseOf(BaseImage(n, log[e]), e)
         /\ BaseImage(n, log[e]) \in 1 .. n /\ Survives(BaseImage(n, log[e]), n)
         /\ Is(BaseImage(n, log[e]), "BIN")
  BY RecoveryBase DEF RecoveryInv
<1>3. PICK m \in 1 .. n : IsCur(m, k, n)
  BY CurExists DEF RecoveryInv
<1>4. Survives(m, n)
  BY <1>3, CurSurvives DEF RecoveryInv
<1>5. PICK b : b = BaseImage(n, log[e])
  OBVIOUS
<1>6. PICK C : C = Committed(n)
  OBVIOUS
<1>7. PICK x0 : x0 = log[b].slots[k]
  OBVIOUS
<1>8. b \in 1 .. n /\ b # None /\ Is(b, "BIN") /\ BaseOf(b, e) /\ Survives(b, n)
  BY <1>2, <1>5 DEF None
<1>9. m \in Vers(k, n) /\ IsLN(m) /\ log[m].key = k /\ EndedBy(log[m].txn, n) /\ \A y \in Vers(k, n) : y <= m
  BY <1>3 DEF IsCur, Vers
<1>10. log[m].txn \in C \cup {None}
  BY <1>4, <1>6, <1>9, CommittedIs
<1> DEFINE R == {l \in EligibleForRedo(n, C) : l >= log[e].start /\ log[l].key = k}
           x == Latest({x0} \cup R)
<1>11. RecoveredSlot(k, n) = Undone(x, n, C)
  <2>1. RedoFrom(log[e]) = log[e].start
    BY <1>2 DEF RedoFrom
  <2>2. Redone(k, n, log[e], C) = x
    BY <1>5, <1>7, <1>8, <2>1 DEF Redone
  <2>3. RecoveredSlot(k, n) = Undone(Redone(k, n, LastCkpt(n), Committed(n)), n, Committed(n))
    BY Zenon DEF RecoveredSlot
  <2>. QED
    BY <1>2, <1>6, <2>2, <2>3
<1>12. \A l \in R : l \in 1 .. n /\ l <= m
  <2>1. ASSUME NEW l \in R PROVE l \in 1 .. n /\ l <= m
    <3>1. l \in 1 .. n /\ IsLN(l) /\ Survives(l, n) /\ log[l].txn \in C \cup {None} /\ log[l].key = k
      BY DEF EligibleForRedo, Surviving, IsLN, Survives
    <3>2. EndedBy(log[l].txn, n)
      BY <1>6, <3>1, CommittedIs
    <3>3. l \in Vers(k, n)
      BY <3>1, <3>2 DEF Vers
    <3>. QED
      BY <1>9, <3>1, <3>3
  <2>. QED
    BY <2>1
<1>13. x0 \in 0 .. n
  <2>1. b \in 1 .. Len(log) /\ log[b].type = "BIN"
    BY <1>8 DEF Is
  <2>2. log[b].slots \in [Key -> 0 .. b - 1]
    BY <1>0, <2>1, EntryIs
  <2>3. x0 \in 0 .. b - 1
    BY <1>7, <2>2
  <2>. QED
    BY <1>1, <1>8, <2>3
<1>14. x \in {x0} \cup R /\ x \in 0 .. n /\ \A y \in {x0} \cup R : y <= x
  <2> DEFINE S == {x0} \cup R
  <2>1. S \subseteq 0 .. n /\ S # {}
    BY <1>1, <1>12, <1>13
  <2>2. Latest(S) \in S /\ Latest(S) \in 0 .. n /\ \A y \in S : y <= Latest(S)
    <3>. HIDE DEF S
    <3>. QED
      BY <1>1, <2>1, LatestIs
  <2>. QED
    BY <2>2
<1>15. m <= x
  <2>1. CASE m >= log[e].start
    <3>1. m \in R
      BY <1>4, <1>9, <1>10, <2>1 DEF EligibleForRedo, Surviving, Survives, IsLN
    <3>. QED
      BY <1>14, <3>1
  <2>2. CASE ~(m >= log[e].start)
    <3>1. m < log[e].start
      BY <1>2, <2>2 DEF Is
    <3>2. EndedBy(log[m].txn, Len(log))
      <4>1. Len(log) \in n .. Len(log)
        BY <1>1
      <4>. QED
        BY <1>0, <1>1, <1>9, <4>1, VersMono
    <3>3. Alive(m)
      BY <1>1, <1>9, <3>2 DEF Alive, Is, IsLN
    <3>4. m <= log[b].slots[KeyOf(m)]
      BY <1>2, <1>8, <3>1, <3>3, BaseHolds DEF RecoveryInv
    <3>5. m <= x0
      BY <1>7, <1>9, <3>4 DEF KeyOf
    <3>. QED
      BY <1>1, <1>13, <1>14, <3>5
  <2>. QED
    BY <2>1, <2>2
<1>. HIDE DEF x
<1>16. Undone(m, n, C) = m
  BY <1>0, <1>1, <1>10, UndoneIs
<1>17. Undone(x, n, C) = m
  <2>1. CASE x = m
    BY <1>16, <2>1
  <2>2. CASE x # m
    <3>1. m < x
      BY <1>1, <1>14, <1>15, <2>2
    <3>2. x = x0
      BY <1>1, <1>12, <1>14, <3>1
    <3>3. /\ x \in 1 .. n /\ IsLN(x) /\ Survives(x, n) /\ ~EndedBy(log[x].txn, n)
          /\ log[x].abort = m
      <4>1. x0 \in 1 .. n /\ IsLN(x0) /\ Survives(x0, n) /\ ~EndedBy(log[x0].txn, n) /\ log[x0].abort = m
        BY <1>2, <1>3, <1>7, <1>8, <3>1, <3>2, UndoLeads
      <4>. QED
        BY <3>2, <4>1
    <3>4. log[x].txn \notin C \cup {None}
      BY <1>6, <3>3, CommittedIs
    <3>5. Undone(x, n, C) = IF Survives(log[x].abort, n) THEN Undone(log[x].abort, n, C) ELSE None
      BY <1>0, <1>1, <1>14, <3>3, <3>4, UndoneIs
    <3>. QED
      BY <1>4, <1>16, <3>3, <3>5
  <2>. QED
    BY <2>1, <2>2
<1>. QED
  BY <1>2, <1>3, <1>4, <1>5, <1>8, <1>11, <1>17

-----------------------------------------------------------------------------
(* A crash *)

\* What a crash leaves.
LEMMA CrashIs ==
    ASSUME TypeInv, SelInv, RecoveryInv, NEW n \in durable .. Len(log), Crash(n), exposed' = {}
    PROVE  /\ n \in Nat /\ 1 <= n /\ n <= Len(log) /\ Len(log) \in Nat /\ Len(log') = n /\ durable' = n
           /\ \A j \in 1 .. n : j \in 1 .. Len(log) /\ log'[j] = log[j]
           /\ \A k \in Key : \E x : slot'[k] = x /\ IsCur(x, k, n) /\ FileOf(x) \notin gone
           /\ (\E r \in 1 .. n : root' = r /\ FileOf(r) \notin gone) /\ (dirty' = TRUE)
           /\ \A k \in Key : writer'[k] = None /\ before'[k] = None /\ unpub'[k] = None
           /\ \A t \in Txn : txn'[t] # "active" /\ (txn[t] = "done" => txn'[t] = "done")
                             /\ (txn[t] # "idle" => txn'[t] # "idle")
           /\ Kept' = gone /\ Processed' = gone /\ being' = {} /\ cleaned' = {} /\ snap' = {} /\ gone' = gone
           /\ \A a \in Agent : pc'[a] = "idle"
           /\ \A f \in File : settled'[f] = None
<1>0. LogType
  BY Parts
<1>1. n \in Nat /\ 1 <= n /\ n <= Len(log) /\ Len(log) \in Nat /\ n \in 0 .. Len(log)
  BY <1>0, LenIs
<1>2. log' = SubSeq(log, 1, n)
  BY DEF Crash
<1>10. ~CommitRecordLost /\ ~SettledSinceCkpt
  BY DEF Crash
<1>3. Len(log') = n /\ \A j \in 1 .. n : j \in 1 .. Len(log) /\ log'[j] = log[j]
  BY <1>0, <1>1, <1>2, Truncated
<1>4. \A k \in Key : \E x : slot'[k] = x /\ IsCur(x, k, n) /\ FileOf(x) \notin gone
  <2>1. ASSUME NEW k \in Key PROVE \E x : slot'[k] = x /\ IsCur(x, k, n) /\ FileOf(x) \notin gone
    <3>1. slot'[k] = RecoveredSlot(k, n)
      BY DEF Crash
    <3>2. IsCur(RecoveredSlot(k, n), k, n) /\ Survives(RecoveredSlot(k, n), n)
      BY <1>10, Recovered
    <3>. QED
      BY <3>1, <3>2 DEF Survives
  <2>. QED
    BY <2>1
<1>5. \E r \in 1 .. n : root' = r /\ FileOf(r) \notin gone
  <2>1. PICK e \in 1 .. n :
           LastCkpt(n) = log[e] /\ BaseImage(n, log[e]) \in 1 .. n /\ Survives(BaseImage(n, log[e]), n)
    BY RecoveryBase DEF RecoveryInv
  <2>2. root' = BaseImage(n, LastCkpt(n))
    BY DEF Crash
  <2>. QED
    BY <2>1, <2>2 DEF Survives
<1>6. \A t \in Txn : /\ txn'[t] # "active" /\ (txn[t] = "done" => txn'[t] = "done")
                     /\ (txn[t] # "idle" => txn'[t] # "idle")
  BY DEF Crash
<1>7. Kept' = gone /\ Processed' = gone /\ being' = {} /\ cleaned' = {} /\ snap' = {} /\ gone' = gone
  BY DEF Crash, Kept, Processed
<1>8. \A k \in Key : writer'[k] = None /\ before'[k] = None /\ unpub'[k] = None
  BY DEF Crash
<1>9. (\A a \in Agent : pc'[a] = "idle") /\ (\A f \in File : settled'[f] = None) /\ durable' = n /\ (dirty' = TRUE)
  BY DEF Crash
<1>. QED
  BY <1>1, <1>3, <1>4, <1>5, <1>6, <1>7, <1>8, <1>9

LEMMA CrashEnded ==
    ASSUME TypeInv, NEW n \in durable .. Len(log), Crash(n), NEW j \in 0 .. n
    PROVE  /\ \A t : EndedBy(t, j)' <=> EndedBy(t, j)
           /\ \A k : Vers(k, j)' = Vers(k, j)
           /\ \A l, k : IsCur(l, k, j)' <=> IsCur(l, k, j)
           /\ \A t : EndedBy(t, j) => EndedBy(t, Len(log))
<1>0. LogType
  BY Parts
<1>1. log' = SubSeq(log, 1, n)
  BY DEF Crash
<1>2. j \in 0 .. Len(log) /\ Len(log) \in j .. Len(log)
  BY <1>0, LenIs
<1>. QED
  BY <1>0, <1>1, <1>2, VersTruncated, VersMono

LEMMA CrashCore ==
    ASSUME TypeInv, SelInv, RecoveryInv, NEW n \in durable .. Len(log), Crash(n), exposed' = {}
    PROVE  CoreInv'
<1>0. LogType /\ CoreInv
  BY Parts DEF RecoveryInv
<1>1. /\ n \in Nat /\ 1 <= n /\ n <= Len(log) /\ Len(log) \in Nat /\ Len(log') = n
      /\ \A j \in 1 .. n : j \in 1 .. Len(log) /\ log'[j] = log[j]
  BY CrashIs
<1>2. AbortInv'
  <2>1. ASSUME NEW i \in 1 .. n, log[i].type = "LN"
        PROVE  /\ log'[i].abort = None => Vers(log[i].key, i - 1)' = {}
               /\ log'[i].abort # None => IsCur(log[i].abort, log[i].key, i - 1)'
    <3>1. PICK k, a : k = log[i].key /\ a = log[i].abort
      OBVIOUS
    <3>2. i - 1 \in 0 .. n /\ log'[i] = log[i] /\ i \in 1 .. Len(log)
      BY <1>1
    <3>3. Vers(k, i - 1)' = Vers(k, i - 1) /\ (IsCur(a, k, i - 1)' <=> IsCur(a, k, i - 1))
      BY <3>2, CrashEnded
    <3>4. (a = None => Vers(k, i - 1) = {}) /\ (a # None => IsCur(a, k, i - 1))
      BY <1>0, <2>1, <3>1, <3>2 DEF CoreInv, AbortInv, IsLN
    <3>5. (a = None => Vers(k, i - 1)' = {}) /\ (a # None => IsCur(a, k, i - 1)')
      BY <3>3, <3>4
    <3>. QED
      BY <3>1, <3>2, <3>5 DEF IsCur, Vers, EndedBy
  <2>. QED
    BY <1>1, <2>1 DEF AbortInv, IsLN
<1>3. OrderInv'
  <2>1. ASSUME NEW i \in 1 .. n, IsLN(i)', NEW x \in 1 .. i - 1, IsVersion(x, log[i].key)',
               EndedBy(log[x].txn, Len(log))', log'[x].txn # log'[i].txn
        PROVE  EndedBy(log[x].txn, i - 1)'
    <3>1. PICK u : u = log[x].txn
      OBVIOUS
    <3>2. i - 1 \in 0 .. n /\ n \in 0 .. n /\ log'[i] = log[i] /\ log'[x] = log[x] /\ i \in 1 .. Len(log) /\ x \in 1 .. Len(log)
      BY <1>1
    <3>3. EndedBy(u, n)'
      BY <1>1, <2>1, <3>1, <3>2 DEF EndedBy
    <3>4. EndedBy(u, Len(log))
      BY <3>2, <3>3, CrashEnded
    <3>5. IsLN(i) /\ IsVersion(x, log[i].key)
      BY <1>1, <2>1, <3>2 DEF IsLN, IsVersion, Is
    <3>6. EndedBy(u, i - 1)
      BY <1>0, <2>1, <3>1, <3>2, <3>4, <3>5 DEF CoreInv, OrderInv
    <3>7. EndedBy(u, i - 1)'
      BY <3>2, <3>6, CrashEnded
    <3>. QED
      BY <3>1, <3>2, <3>7 DEF EndedBy
  <2>. QED
    BY <1>1, <2>1 DEF OrderInv
<1>4. OwnerInv'
  <2>1. ASSUME NEW i \in 1 .. n, log[i].type = "LN", log[i].txn # None
        PROVE  txn'[log[i].txn] # "idle" /\ txn'[log[i].txn] # "active"
    <3>1. log[i].txn \in Txn
      BY <1>0, <1>1, <2>1, EntryIs
    <3>2. txn[log[i].txn] # "idle"
      BY <1>0, <1>1, <2>1 DEF CoreInv, OwnerInv, IsLN
    <3>. QED
      BY <3>1, <3>2, CrashIs
  <2>. QED
    BY <1>1, <2>1 DEF OwnerInv, IsLN
<1>5. DoneInv'
  <2>1. ASSUME NEW c \in 1 .. n, log[c].type = "Commit" PROVE txn'[log[c].txn] = "done"
    <3>1. log[c].txn \in Txn
      BY <1>0, <1>1, <2>1, EntryIs
    <3>2. txn[log[c].txn] = "done"
      BY <1>0, <1>1, <2>1 DEF CoreInv, DoneInv
    <3>. QED
      BY <3>1, <3>2, CrashIs
  <2>. QED
    BY <1>1, <2>1 DEF DoneInv
<1>6. ASSUME NEW k \in Key PROVE MemAt(k)' /\ IsVersion(slot[k], k)'
  <2>1. PICK x : slot'[k] = x /\ IsCur(x, k, n)
    BY CrashIs
  <2>2. IsCur(x, k, n) /\ n \in 0 .. n
    BY <1>1, <2>1
  <2>3. IsCur(x, k, n)'
    BY <2>2, CrashEnded
  <2>4. IsCur(x, k, Len(log))'
    BY <1>1, <2>3, AtEnd
  <2>5. writer'[k] = None /\ before'[k] = None /\ unpub'[k] = None
    BY CrashIs
  <2>6. x \in 1 .. n /\ log[x].type = "LN" /\ log[x].key = k
    BY <2>2 DEF IsCur, Vers, IsLN
  <2>7. IsCur(slot[k], k, Len(log))'
    BY <2>1, <2>4 DEF IsCur
  <2>. QED
    BY <1>1, <2>1, <2>5, <2>6, <2>7 DEF MemAt, IsVersion, Is
<1>7. root' # None
  <2>1. \E r \in 1 .. n : root' = r
    BY CrashIs
  <2>. QED
    BY <2>1 DEF None
<1>. QED
  BY <1>2, <1>3, <1>4, <1>5, <1>6, <1>7 DEF CoreInv, MemInv, SlotsInv

LEMMA CrashEntries ==
    ASSUME TypeInv, SelInv, RecoveryInv, NEW n \in durable .. Len(log), Crash(n), exposed' = {}
    PROVE  EntriesInv'
<1>0. LogType /\ EntriesInv
  BY Parts DEF RecoveryInv
<1>1. /\ n \in Nat /\ 1 <= n /\ n <= Len(log) /\ Len(log) \in Nat /\ Len(log') = n /\ durable' = n
      /\ \A j \in 1 .. n : j \in 1 .. Len(log) /\ log'[j] = log[j]
  BY CrashIs
<1>2. ASSUME NEW i \in 1 .. n PROVE EntryOk(i)'
  <2>1. i \in 1 .. Len(log) /\ log'[i] = log[i] /\ EntryOk(i)
    BY <1>0, <1>1 DEF EntriesInv
  <2>2. ASSUME log[i].type = "BIN", NEW k \in Key PROVE IsVersion(log[i].slots[k], k)'
    <3>1. PICK x : x = log[i].slots[k]
      OBVIOUS
    <3>2. log[i].slots \in [Key -> 0 .. i - 1]
      BY <1>0, <2>1, <2>2, EntryIs
    <3>3. x \in 0 .. i - 1 /\ IsVersion(x, k)
      BY <2>1, <2>2, <3>1, <3>2 DEF EntryOk
    <3>4. x \in 1 .. n /\ log'[x] = log[x]
      BY <1>1, <3>3 DEF IsVersion, Is
    <3>. QED
      BY <1>1, <2>1, <3>1, <3>3, <3>4 DEF IsVersion, Is
  <2>3. ASSUME log[i].type = "CkptEnd" PROVE Is(log[i].start, "CkptStart")' /\ log'[i].root # None
    <3>1. PICK x : x = log[i].start
      OBVIOUS
    <3>2. x \in 1 .. i - 1 /\ Is(x, "CkptStart") /\ log[i].root # None
      BY <1>0, <2>1, <2>3, <3>1, EntryIs DEF EntryOk
    <3>3. x \in 1 .. n /\ log'[x] = log[x]
      BY <1>1, <3>2
    <3>. QED
      BY <1>1, <2>1, <3>1, <3>2, <3>3 DEF Is
  <2>. QED
    BY <2>1, <2>2, <2>3 DEF EntryOk
<1>3. ASSUME NEW k \in Key PROVE \E l \in 1 .. durable' : IsLN(l)' /\ log'[l].key = k /\ log'[l].txn = None
  <2>1. PICK l \in 1 .. durable : IsLN(l) /\ log[l].key = k /\ log[l].txn = None
    BY <1>0 DEF EntriesInv
  <2>2. l \in 1 .. n
    BY <1>0, <1>1, LenIs
  <2>. QED
    BY <1>1, <2>1, <2>2 DEF IsLN
<1>4. \A f \in File : settled'[f] <= Len(log')
  <2>1. \A f \in File : settled'[f] = None
    BY CrashIs
  <2>. QED
    BY <1>1, <2>1 DEF None
<1>. QED
  BY <1>1, <1>2, <1>3, <1>4 DEF EntriesInv

LEMMA CrashUsable ==
    ASSUME TypeInv, SelInv, RecoveryInv, NEW n \in durable .. Len(log), Crash(n), exposed' = {}, NEW e, Usable(e)'
    PROVE  Usable(e) /\ e \in 1 .. n /\ log'[e] = log[e]
<1>0. LogType
  BY Parts
<1>1. /\ n \in Nat /\ n <= Len(log) /\ Len(log) \in Nat /\ Len(log') = n /\ durable' = n
      /\ \A j \in 1 .. n : j \in 1 .. Len(log) /\ log'[j] = log[j]
  BY CrashIs
<1>2. e \in 1 .. n /\ log'[e].type = "CkptEnd" /\ \A d \in 1 .. n : log'[d].type = "CkptEnd" => d <= e
  BY <1>1 DEF Usable, Is
<1>3. \A d \in 1 .. durable : d \in 1 .. n
  BY <1>0, <1>1, LenIs
<1>. QED
  BY <1>1, <1>2, <1>3 DEF Usable, Is

LEMMA CrashFiles ==
    ASSUME TypeInv, SelInv, RecoveryInv, NEW n \in durable .. Len(log), Crash(n), exposed' = {}
    PROVE  FileInv' /\ TreeInv' /\ LookInv' /\ LiveInv' /\ RootInv'
<1>0. LogType
  BY Parts
<1>1. /\ n \in Nat /\ 1 <= n /\ n <= Len(log) /\ Len(log) \in Nat /\ Len(log') = n
      /\ \A j \in 1 .. n : j \in 1 .. Len(log) /\ log'[j] = log[j]
  BY CrashIs
<1>2. Kept' = gone /\ Processed' = gone /\ being' = {} /\ cleaned' = {} /\ snap' = {} /\ gone' = gone
  BY CrashIs
<1>3. \A a \in Agent : pc'[a] = "idle"
  BY CrashIs
<1>4. \A l \in 1 .. n : ~Active(l)'
  <2>1. ASSUME NEW l \in 1 .. n, log[l].type = "LN", log[l].txn # None PROVE txn'[log[l].txn] # "active"
    <3>1. log[l].txn \in Txn
      BY <1>0, <1>1, <2>1, EntryIs
    <3>. QED
      BY <3>1, CrashIs
  <2>. QED
    BY <1>1, <2>1 DEF Active, Is
<1>5. OldInv'
  <2>1. PICK e \in 1 .. n : Usable(e) /\ log[e].type = "CkptEnd"
    BY RecoveryBase DEF RecoveryInv
  <2>2. log[e].start \in 1 .. e - 1
    BY <1>0, <1>1, <2>1, EntryIs
  <2>3. log[e].start \in Nat \ {0} /\ n \in Nat \ {0} /\ log[e].start <= n
    BY <1>1, <2>2
  <2>4. FileOf(log[e].start) <= FileOf(n) /\ FileOf(log[e].start) \in Nat /\ FileOf(n) \in Nat
    BY <2>3, FileOfType
  <2>5. \A f \in gone : f < FileOf(log[e].start)
    BY <1>1, <2>1 DEF RecoveryInv, CkptInv, Kept
  <2>6. \A f \in gone : f \in Nat
    BY <1>0, CleanerAssumption DEF LogType, File
  <2>7. \A f \in gone : f < FileOf(n)
    BY <2>4, <2>5, <2>6
  <2>8. Newest' = FileOf(n)
    BY <1>1 DEF Newest, FileOf
  <2>. QED
    BY <1>2, <2>7, <2>8 DEF OldInv
<1>6. QueueInv' /\ ClampInv'
  BY <1>3, AgentsAre DEF QueueInv, ClampInv
<1>7. ClosedInv'
  BY <1>1, <1>4 DEF ClosedInv
<1>8. TreeInv' /\ LookInv'
  BY <1>3 DEF TreeInv, LookInv
<1>9. LiveInv'
  <2>1. ASSUME NEW k \in Key, NEW l, Live(k, l)' PROVE FileOf(l) \notin gone
    <3>1. PICK x : slot'[k] = x /\ FileOf(x) \notin gone
      BY CrashIs
    <3>2. before'[k] = None
      BY CrashIs
    <3>3. l = x
      BY <2>1, <3>1, <3>2 DEF Live
    <3>. QED
      BY <3>1, <3>3
  <2>2. ~Scanning'
    BY <1>3, AgentsAre DEF Scanning
  <2>. QED
    BY <1>2, <2>1, <2>2 DEF LiveInv, FileOf
<1>10. RootInv'
  <2>1. \E r \in 1 .. n : root' = r /\ FileOf(r) \notin gone
    BY CrashIs
  <2>2. dirty' = TRUE
    BY CrashIs
  <2>3. FileOf(root)' \notin gone
    BY <2>1 DEF FileOf
  <2>4. ~Scanning' /\ pc'["checkpointer"] = "idle"
    BY <1>3, AgentsAre DEF Scanning
  <2>. QED
    BY <1>2, <2>2, <2>3, <2>4 DEF RootInv
<1>. QED
  BY <1>5, <1>6, <1>7, <1>8, <1>9, <1>10 DEF FileInv

LEMMA CrashCkpt ==
    ASSUME TypeInv, SelInv, RecoveryInv, NEW n \in durable .. Len(log), Crash(n), exposed' = {}
    PROVE  CkptInv' /\ SeedInv' /\ GoneInv' /\ ImageInv'
<1>0. LogType /\ CkptInv /\ SeedInv /\ GoneInv /\ ImageInv /\ EntriesInv
  BY Parts DEF RecoveryInv
<1>1. /\ n \in Nat /\ 1 <= n /\ n <= Len(log) /\ Len(log) \in Nat /\ Len(log') = n /\ durable' = n
      /\ \A j \in 1 .. n : j \in 1 .. Len(log) /\ log'[j] = log[j]
  BY CrashIs
<1>2. Kept' = gone /\ gone \subseteq Kept
  BY CrashIs DEF Kept
<1>3. pc'["checkpointer"] = "idle" /\ ~Ckpting'
  <2>1. pc'["checkpointer"] = "idle"
    BY CrashIs, AgentsAre
  <2>. QED
    BY <2>1 DEF Ckpting
<1>4. CkptInv'
  <2>1. \E e \in 1 .. durable' : log'[e].type = "CkptEnd"
    <3>1. PICK e \in 1 .. durable : log[e].type = "CkptEnd"
      BY <1>0 DEF CkptInv
    <3>2. e \in 1 .. n
      BY <1>0, <1>1, LenIs
    <3>. QED
      BY <1>1, <3>1, <3>2
  <2>2. ASSUME NEW e, NEW f \in Kept', Usable(e)'
        PROVE  f < FileOf(log[e].start)' /\ FileOf(log[e].root)' # f
    <3>1. Usable(e) /\ e \in 1 .. Len(log) /\ log'[e] = log[e]
      BY <1>1, <2>2, CrashUsable
    <3>2. f < FileOf(log[e].start) /\ FileOf(log[e].root) # f
      BY <1>0, <1>2, <2>2, <3>1 DEF CkptInv
    <3>. QED
      BY <3>1, <3>2 DEF FileOf
  <2>. QED
    BY <1>3, <2>1, <2>2 DEF CkptInv
<1>5. SeedInv'
  <2>1. ASSUME NEW c \in 1 .. n, Alive(c)' PROVE Alive(c) /\ KeyOf(c)' = KeyOf(c)
    <3>1. PICK u : u = log[c].txn
      OBVIOUS
    <3>2. log'[c] = log[c] /\ c \in 1 .. Len(log) /\ log[c].type = "LN"
      BY <1>1, <2>1 DEF Alive, Is
    <3>3. ~Active(c)'
      <4>1. ASSUME log[c].txn # None PROVE txn'[log[c].txn] # "active"
        <5>1. log[c].txn \in Txn
          BY <1>0, <3>2, <4>1, EntryIs
        <5>. QED
          BY <5>1, CrashIs
      <4>. QED
        BY <3>2, <4>1 DEF Active
    <3>4. EndedBy(u, n)'
      BY <1>1, <2>1, <3>1, <3>2, <3>3 DEF Alive, EndedBy
    <3>5. EndedBy(u, Len(log))
      <4>1. n \in 0 .. n
        BY <1>1
      <4>. QED
        BY <3>4, <4>1, CrashEnded
    <3>. QED
      BY <3>1, <3>2, <3>5 DEF Alive, Is, KeyOf
  <2>2. ASSUME NEW c \in 1 .. n, Alive(c), NEW b \in c + 1 .. n, log'[b].type = "BIN"
        PROVE  \/ c <= log'[b].slots[KeyOf(c)]
               \/ \A s \in 1 .. b : log'[s].type = "CkptStart" => s < c
    <3>1. b \in c + 1 .. Len(log) /\ log'[b] = log[b] /\ \A s \in 1 .. b : log'[s] = log[s]
      BY <1>1
    <3>. QED
      BY <1>0, <1>1, <2>2, <3>1 DEF SeedInv
  <2>3. ASSUME NEW c \in 1 .. n, Alive(c), NEW e \in 1 .. n, log'[e].type = "CkptEnd", c < log'[e].start
        PROVE  c <= log'[log'[e].root].slots[KeyOf(c)]
    <3>1. log[e] = log'[e] /\ EntryOk(e) /\ e \in 1 .. Len(log)
      BY <1>0, <1>1 DEF EntriesInv
    <3>2. log[e].root \in 1 .. n
      <4>1. log[e].root \in 0 .. e - 1
        BY <1>0, <2>3, <3>1, EntryIs
      <4>. QED
        BY <1>1, <2>3, <3>1, <4>1 DEF EntryOk, None
    <3>. QED
      BY <1>0, <1>1, <2>3, <3>1, <3>2 DEF SeedInv
  <2>. QED
    BY <1>1, <1>3, <2>1, <2>2, <2>3 DEF SeedInv
<1>6. GoneInv'
  <2>1. ASSUME NEW k \in Key, NEW l, NEW i \in n .. n, IsCur(l, k, i)' PROVE FileOf(l) \notin gone
    <3>1. i = n /\ n \in 0 .. n
      BY <1>1
    <3>2. IsCur(l, k, n)
      BY <2>1, <3>1, CrashEnded
    <3>3. Survives(l, n)
      BY <1>0, <3>2, CurSurvives DEF Crash
    <3>. QED
      BY <3>3 DEF Survives
  <2>. QED
    BY <1>1, <1>2, <1>3, <2>1 DEF GoneInv, FileOf
<1>7. ImageInv'
  <2>1. ASSUME NEW k \in Key, NEW e \in 1 .. n, NEW b \in 1 .. n, NEW i \in n .. n, Usable(e)', BaseOf(b, e)',
               e <= i, b <= i, NEW x, x = log'[b].slots[k], FileOf(x) \in gone
        PROVE  x \in Vers(k, i)'
    <3>1. i = n /\ n \in 0 .. n /\ n \in durable .. Len(log) /\ b \in 1 .. Len(log) /\ e \in 1 .. Len(log)
      BY <1>1
    <3>2. Usable(e) /\ log'[e] = log[e] /\ x = log[b].slots[k]
      BY <1>1, <2>1, CrashUsable
    <3>3. BaseOf(b, e)
      BY <1>1, <2>1, <3>1, <3>2 DEF BaseOf, Is
    <3>4. x \in Vers(k, n)
      BY <1>0, <1>2, <2>1, <3>1, <3>2, <3>3 DEF ImageInv
    <3>. QED
      BY <3>1, <3>4, CrashEnded
  <2>2. ASSUME NEW k \in Key, NEW e \in 1 .. Len(log'), NEW b \in 1 .. Len(log'), NEW i \in durable' .. Len(log'),
               Usable(e)', BaseOf(b, e)', e <= i, b <= i, FileOf(log[b].slots[k])' \in Kept'
        PROVE  log'[b].slots[k] \in Vers(k, i)'
    <3>1. PICK x : x = log'[b].slots[k]
      OBVIOUS
    <3>2. FileOf(x) \in gone /\ e \in 1 .. n /\ b \in 1 .. n /\ i \in n .. n
      BY <1>1, <1>2, <2>2, <3>1 DEF FileOf
    <3>. QED
      BY <2>1, <2>2, <3>1, <3>2
  <2>. QED
    BY <1>3, <2>2 DEF ImageInv
<1>. QED
  BY <1>4, <1>5, <1>6, <1>7

-----------------------------------------------------------------------------
(* The invariant and its theorems *)

DeepInv ==
    /\ CoreInv /\ EntriesInv /\ FileInv /\ TreeInv /\ LookInv /\ LiveInv
    /\ RootInv /\ CkptInv /\ SeedInv /\ GoneInv /\ ImageInv

LEMMA InitIs ==
    ASSUME Init
    PROVE  /\ Loaded \in Nat /\ Len(log) = Loaded + 3 /\ durable = Loaded + 3
           /\ \A i \in 1 .. Loaded : /\ log[i].type = "LN" /\ log[i].key = Keys[i]
                                     /\ log[i].txn = None /\ log[i].abort = None
           /\ log[Loaded + 1].type = "CkptStart"
           /\ log[Loaded + 2].type = "BIN" /\ log[Loaded + 2].slots = slot
           /\ log[Loaded + 3].type = "CkptEnd" /\ log[Loaded + 3].start = Loaded + 1
           /\ log[Loaded + 3].root = Loaded + 2
           /\ \A k \in Key : slot[k] \in 1 .. Loaded /\ log[slot[k]].key = k
           /\ \A i \in 1 .. Loaded : log[i].key \in Key /\ slot[log[i].key] = i
<1>1. log = InitLog /\ durable = Len(InitLog) /\ slot = InitSlots
  BY DEF Init
<1>2. \A i \in 1 .. Loaded : /\ log[i].type = "LN" /\ log[i].key = Keys[i]
                             /\ log[i].txn = None /\ log[i].abort = None
  <2>1. ASSUME NEW i \in 1 .. Loaded
        PROVE  log[i].type = "LN" /\ log[i].key = Keys[i] /\ log[i].txn = None /\ log[i].abort = None
    <3>1. log[i] = [type |-> "LN", key |-> Keys[i], txn |-> None, abort |-> None, val |-> i]
      BY <1>1, InitLogIs
    <3>. QED
      BY <3>1
  <2>. QED
    BY <2>1
<1>3. /\ log[Loaded + 1].type = "CkptStart"
      /\ log[Loaded + 2].type = "BIN" /\ log[Loaded + 2].slots = slot
      /\ log[Loaded + 3].type = "CkptEnd" /\ log[Loaded + 3].start = Loaded + 1
      /\ log[Loaded + 3].root = Loaded + 2
  BY <1>1, InitLogIs
<1>4. \A k \in Key : slot[k] \in 1 .. Loaded /\ log[slot[k]].key = k
  BY <1>1, <1>2, LoadedKeys
<1>5. \A i \in 1 .. Loaded : log[i].key \in Key /\ slot[log[i].key] = i
  <2>1. ASSUME NEW i \in 1 .. Loaded PROVE log[i].key \in Key /\ slot[log[i].key] = i
    <3>1. log[i].key = Keys[i] /\ Keys[i] \in Key
      BY <1>2, LoadedKeys
    <3>2. slot[Keys[i]] \in 1 .. Loaded /\ Keys[slot[Keys[i]]] = Keys[i]
      BY <1>1, <3>1, LoadedKeys
    <3>. QED
      BY <3>1, <3>2, LoadedKeys
  <2>. QED
    BY <2>1
<1>. QED
  BY <1>1, <1>2, <1>3, <1>4, <1>5, InitLogIs, LoadedKeys

LEMMA InitKinds ==
    ASSUME Init, NEW i \in 1 .. Len(log)
    PROVE  /\ log[i].type = "LN" => i \in 1 .. Loaded
           /\ log[i].type = "CkptStart" => i = Loaded + 1
           /\ log[i].type = "BIN" => i = Loaded + 2
           /\ log[i].type = "CkptEnd" => i = Loaded + 3
           /\ log[i].type # "Commit"
<1>1. Loaded \in Nat /\ Len(log) = Loaded + 3
  BY InitIs
<1>2. i \in 1 .. Loaded \/ i = Loaded + 1 \/ i = Loaded + 2 \/ i = Loaded + 3
  BY <1>1
<1>. QED
  BY <1>1, <1>2, InitIs

LEMMA InitCore ==
    ASSUME Init
    PROVE  CoreInv /\ EntriesInv
<1>1. Loaded \in Nat /\ Len(log) = Loaded + 3 /\ durable = Loaded + 3
  BY InitIs
<1>2. \A i \in 1 .. Len(log) : IsLN(i) => /\ i \in 1 .. Loaded /\ log[i].txn = None /\ log[i].abort = None
                                          /\ log[i].key \in Key /\ slot[log[i].key] = i
  BY InitKinds, InitIs DEF IsLN
<1>3. \A k \in Key : IsVersion(slot[k], k) /\ IsLN(slot[k]) /\ log[slot[k]].txn = None /\ slot[k] \in 1 .. Loaded
  BY <1>1, InitIs DEF IsVersion, Is, IsLN
<1>4. AbortInv
  <2>1. ASSUME NEW i \in 1 .. Len(log), IsLN(i), NEW l \in Vers(log[i].key, i - 1) PROVE FALSE
    <3>1. l \in 1 .. i - 1 /\ IsLN(l) /\ log[l].key = log[i].key
      BY DEF Vers
    <3>2. l \in 1 .. Len(log)
      BY <1>1, <3>1
    <3>3. l = i
      BY <1>2, <2>1, <3>1, <3>2
    <3>. QED
      BY <3>1, <3>3
  <2>. QED
    BY <1>2, <2>1 DEF AbortInv
<1>5. OrderInv
  <2>1. ASSUME NEW i \in 1 .. Len(log), NEW x \in 1 .. i - 1, IsVersion(x, log[i].key) PROVE EndedBy(log[x].txn, i - 1)
    BY <1>2, <2>1 DEF IsVersion, Is, IsLN, EndedBy
  <2>. QED
    BY <2>1 DEF OrderInv
<1>6. OwnerInv
  BY <1>2 DEF OwnerInv
<1>7. DoneInv
  BY InitKinds DEF DoneInv
<1>8. ASSUME NEW k \in Key PROVE MemAt(k)
  <2>1. writer[k] = None /\ before[k] = None /\ unpub[k] = None
    BY DEF Init
  <2>2. slot[k] \in Vers(k, Len(log))
    BY <1>1, <1>3 DEF Vers, IsVersion, Is, EndedBy
  <2>3. ASSUME NEW x \in Vers(k, Len(log)) PROVE x <= slot[k]
    <3>1. x \in 1 .. Len(log) /\ IsLN(x) /\ log[x].key = k
      BY DEF Vers
    <3>. QED
      BY <1>2, <3>1
  <2>. QED
    BY <2>1, <2>2, <2>3 DEF MemAt, IsCur
<1>9. root # None
  BY <1>1 DEF Init, None
<1>10. CoreInv
  BY <1>3, <1>4, <1>5, <1>6, <1>7, <1>8, <1>9 DEF CoreInv, MemInv, SlotsInv
<1>11. ASSUME NEW i \in 1 .. Len(log) PROVE EntryOk(i)
  <2>1. ASSUME log[i].type = "BIN" PROVE \A k \in Key : IsVersion(log[i].slots[k], k)
    BY <1>3, <2>1, InitKinds, InitIs
  <2>2. ASSUME log[i].type = "CkptEnd" PROVE Is(log[i].start, "CkptStart") /\ log[i].root # None
    <3>1. log[i].start = Loaded + 1 /\ log[i].root = Loaded + 2 /\ log[Loaded + 1].type = "CkptStart"
      BY <2>2, InitKinds, InitIs
    <3>. QED
      BY <1>1, <3>1 DEF Is, None
  <2>. QED
    BY <2>1, <2>2 DEF EntryOk
<1>12. ASSUME NEW k \in Key PROVE \E l \in 1 .. durable : IsLN(l) /\ log[l].key = k /\ log[l].txn = None
  BY <1>1, <1>3 DEF IsVersion, Is
<1>13. \A f \in File : settled[f] <= Len(log)
  BY <1>1 DEF Init, None
<1>. QED
  BY <1>10, <1>11, <1>12, <1>13 DEF EntriesInv

LEMMA InitDeep ==
    ASSUME Init
    PROVE  DeepInv
<1>1. Loaded \in Nat /\ Len(log) = Loaded + 3 /\ durable = Loaded + 3
  BY InitIs
<1>2. being = {} /\ Processed = {} /\ Kept = {} /\ cleaned = {} /\ snap = {}
  BY DEF Init, Processed, Kept
<1>3. pc["cleaner"] = "idle" /\ pc["checkpointer"] = "idle" /\ (\A a \in Agent : pc[a] = "idle")
  BY AgentsAre DEF Init
<1>4. FileInv /\ TreeInv /\ LookInv /\ LiveInv
  <2>1. ~Scanning
    BY <1>3 DEF Scanning
  <2>. QED
    BY <1>2, <1>3, <2>1 DEF FileInv, OldInv, QueueInv, ClampInv, ClosedInv, TreeInv, LookInv, LiveInv
<1>5. RootInv
  <2>1. log[root].slots = slot
    BY InitIs DEF Init
  <2>. QED
    BY <1>2, <1>3, <2>1 DEF RootInv
<1>6. CkptInv
  <2>1. \E e \in 1 .. durable : log[e].type = "CkptEnd"
    BY <1>1, InitIs
  <2>2. ~Ckpting
    BY <1>3 DEF Ckpting
  <2>. QED
    BY <1>2, <1>3, <2>1, <2>2 DEF CkptInv
<1>7. SeedInv
  <2>1. ASSUME NEW c \in 1 .. Len(log), Alive(c)
        PROVE  /\ \A b \in c + 1 .. Len(log) : log[b].type = "BIN" => c <= log[b].slots[KeyOf(c)]
               /\ \A e \in 1 .. Len(log) : log[e].type = "CkptEnd" => c <= log[log[e].root].slots[KeyOf(c)]
    <3>1. c \in 1 .. Loaded
      BY <2>1, InitKinds DEF Alive, Is
    <3>2. c <= log[Loaded + 2].slots[KeyOf(c)]
      BY <1>1, <3>1, InitIs DEF KeyOf
    <3>3. \A b \in c + 1 .. Len(log) : b \in 1 .. Len(log)
      BY <1>1
    <3>4. \A e \in 1 .. Len(log) : log[e].type = "CkptEnd" => log[e].root = Loaded + 2
      BY InitKinds, InitIs
    <3>. QED
      BY <3>2, <3>3, <3>4, InitKinds
  <2>. QED
    BY <1>3, <2>1 DEF SeedInv
<1>8. GoneInv /\ ImageInv
  BY <1>2, <1>3 DEF GoneInv, ImageInv, Ckpting
<1>. QED
  BY <1>4, <1>5, <1>6, <1>7, <1>8, InitCore DEF DeepInv

\* Every step keeps the invariant: those of the two agents and of the transactions,
\* and a crash, after which recovery has to re-establish it from the log alone.
LEMMA DeepNext ==
    ASSUME TypeInv, SelInv, DeepInv, [Next]_vars, exposed' = {}
    PROVE  DeepInv'
<1>0. /\ CoreInv /\ EntriesInv /\ FileInv /\ TreeInv /\ LookInv /\ LiveInv
      /\ RootInv /\ CkptInv /\ SeedInv /\ GoneInv /\ ImageInv
  BY DEF DeepInv
<1>1. TypeInv' /\ SelInv'
  BY NextTypes, NextSel
<1>2. CASE NoCrash
  <2>1. CoreInv' /\ EntriesInv'
    BY <1>0, <1>2, CoreNext, EntriesNext
  <2>2. OldInv' /\ QueueInv' /\ ClosedInv' /\ ClampInv'
    BY <1>0, <1>2, OldNext, QueueNext, ClosedNext, ClampNext
  <2>3. TreeInv' /\ LookInv'
    BY <1>0, <1>2, TreeNext, LookNext
  <2>4. LiveInv'
    BY <1>0, <1>1, <1>2, <2>1, <2>2, LiveNext
  <2>5. RootInv' /\ CkptInv'
    BY <1>0, <1>2, RootNext, CkptNext
  <2>6. SeedInv' /\ ImageInv'
    BY <1>0, <1>1, <1>2, SeedNext, ImageNext
  <2>7. GoneInv'
    BY <1>0, <1>1, <1>2, <2>1, GoneNext
  <2>. QED
    BY <2>1, <2>2, <2>3, <2>4, <2>5, <2>6, <2>7 DEF DeepInv, FileInv
<1>3. ASSUME NEW n \in durable .. Len(log), Crash(n) PROVE DeepInv'
  <2>1. RecoveryInv
    BY <1>0 DEF RecoveryInv
  <2>. QED
    BY <1>3, <2>1, CrashCore, CrashEntries, CrashFiles, CrashCkpt DEF DeepInv
<1>. QED
  BY <1>2, <1>3 DEF NoCrash

LEMMA DeepAlways ==
    ASSUME Loaded + 3 <= MaxLog
    PROVE  Spec => [](TypeInv /\ SelInv /\ (exposed = {} => DeepInv))
<1>1. Init => TypeInv /\ SelInv /\ (exposed = {} => DeepInv)
  <2>1. ASSUME Init PROVE SelInv
    <3>1. /\ being = {} /\ locked = {} /\ pending = {} /\ pc = [a \in Agent |-> "idle"]
      BY <2>1 DEF Init
    <3>2. pc["cleaner"] = "idle"
      BY <3>1, AgentsAre
    <3>. QED
      BY <3>1, <3>2 DEF SelInv, BeingInv, PendingInv, Cleaning, Scanning
  <2>. QED
    BY <2>1, InitTypes, InitDeep
<1>2. TypeInv /\ SelInv /\ (exposed = {} => DeepInv) /\ [Next]_vars
         => (TypeInv /\ SelInv /\ (exposed = {} => DeepInv))'
  <2>1. ASSUME TypeInv, SelInv, exposed = {} => DeepInv, [Next]_vars, exposed' = {} PROVE DeepInv'
    <3>1. exposed = {}
      BY <2>1, ExposedSteps
    <3>. QED
      BY <2>1, <3>1, DeepNext
  <2>. QED
    BY <2>1, NextTypes, NextSel
<1>. QED
  BY <1>1, <1>2, PTL DEF Spec

\* LiveVersionsKept: delete_safe_files removes no file that a slot, a before-image or
\* the tree's root LSN still refers to, for every number of records, transactions
\* and log entries, in every history that fell into none of the four windows.
THEOREM LiveVersionsAreKept ==
    ASSUME Loaded + 3 <= MaxLog
    PROVE  Spec => []LiveVersionsKept
<1>1. ASSUME TypeInv, SelInv, exposed = {} => DeepInv PROVE LiveVersionsKept
  <2>. SUFFICES ASSUME exposed = {} PROVE \A k \in Key : \A l \in {slot[k], before[k], root} \ {None} : FileOf(l) \notin gone
    BY DEF LiveVersionsKept
  <2>0. CoreInv /\ LiveInv /\ RootInv
    BY <1>1 DEF DeepInv
  <2>1. ASSUME NEW k \in Key, NEW l, Live(k, l) PROVE FileOf(l) \notin gone
    <3>1. l \in 1 .. Len(log)
      BY <1>1, <2>0, <2>1, LiveIs
    <3>2. FileOf(l) \in Processed => l \in pending
      BY <2>0, <2>1, <3>1 DEF LiveInv
    <3>. QED
      BY <1>1, <3>2 DEF SelInv, PendingInv, Processed
  <2>2. FileOf(root) \notin gone
    BY <2>0 DEF RootInv, Kept
  <2>. QED
    BY <2>1, <2>2 DEF Live
<1>. QED
  BY <1>1, DeepAlways, PTL

\* SeededUnlessLapped: the image recovery seeds its tree from holds every committed
\* LN logged before the checkpoint began, which eligible_for_redo_static relies on,
\* unless the history fell into one of the four windows.
THEOREM SeededTreesAreComplete ==
    ASSUME Loaded + 3 <= MaxLog
    PROVE  Spec => []SeededUnlessLapped
<1>1. ASSUME TypeInv, SelInv, DeepInv PROVE SeededTreeIsComplete
  <2>0. LogType /\ EntriesInv /\ CkptInv /\ SeedInv
    BY <1>1, Parts DEF DeepInv
  <2>1. durable \in durable .. Len(log) /\ durable \in Nat /\ durable <= Len(log) /\ Len(log) \in Nat
    BY <2>0, LenIs
  <2>2. PICK e \in 1 .. durable :
           /\ LastCkpt(durable) = log[e] /\ log[e].type = "CkptEnd" /\ Is(log[e].start, "CkptStart")
           /\ BaseOf(BaseImage(durable, log[e]), e) /\ BaseImage(durable, log[e]) \in 1 .. durable
    BY <1>1, <2>0, <2>1, RecoveryBase
  <2>3. PICK b : b = BaseImage(durable, log[e])
    OBVIOUS
  <2>4. ASSUME NEW l \in EligibleForRedo(durable, Committed(durable)), l < log[e].start
        PROVE  log[b].slots[KeyOf(l)] >= l
    <3>1. l \in 1 .. durable /\ log[l].type = "LN" /\ log[l].txn \in Committed(durable) \cup {None}
      BY DEF EligibleForRedo, Surviving
    <3>2. EndedBy(log[l].txn, Len(log))
      <4>1. EndedBy(log[l].txn, durable)
        BY <3>1 DEF Committed, Surviving, EndedBy
      <4>. QED
        BY <2>1, <4>1 DEF EndedBy
    <3>3. Alive(l)
      BY <2>1, <3>1, <3>2 DEF Alive, Is
    <3>4. l <= log[b].slots[KeyOf(l)]
      BY <1>1, <2>0, <2>1, <2>2, <2>3, <2>4, <3>1, <3>3, BaseHolds
    <3>5. log[b].slots[KeyOf(l)] \in Nat
      <4>1. Is(b, "BIN")
        <5>1. b \in 0 .. durable /\ (b # None => Is(b, "BIN"))
          BY <2>0, <2>1, <2>2, <2>3, BaseImageIs
        <5>. QED
          BY <2>2, <2>3, <5>1 DEF None
      <4>2. log[b].slots \in [Key -> 0 .. b - 1]
        BY <2>0, <4>1, EntryIs DEF Is
      <4>3. KeyOf(l) \in Key
        BY <2>0, <2>1, <3>1, EntryIs DEF KeyOf
      <4>. QED
        BY <4>2, <4>3
    <3>. QED
      BY <2>1, <3>1, <3>4, <3>5
  <2>. QED
    BY <2>2, <2>3, <2>4 DEF SeededTreeIsComplete
<1>2. TypeInv /\ SelInv /\ (exposed = {} => DeepInv) => SeededUnlessLapped
  BY <1>1 DEF SeededUnlessLapped
<1>. QED
  BY <1>2, DeepAlways, PTL

LEMMA FaithfulNow ==
    ASSUME TypeInv, SelInv, RecoveryInv, ~CommitRecordLost, ~SettledSinceCkpt
    PROVE  Faithful
<1>0. LogType
  BY Parts
<1>. SUFFICES ASSUME NEW n \in durable .. Len(log), NEW k \in Key
              PROVE  RecoveredValue(k, n) = CommittedValue(k, n)
  BY DEF Faithful
<1>1. n \in Nat
  BY <1>0, LenIs
<1>2. PICK l : l = RecoveredSlot(k, n)
  OBVIOUS
<1>3. /\ IsCur(l, k, n) /\ Survives(l, n)
      /\ BaseImage(n, LastCkpt(n)) # None /\ Survives(BaseImage(n, LastCkpt(n)), n)
  BY <1>2, Recovered
<1>4. l \in 1 .. n /\ l # None
  BY <1>3 DEF Survives, None
<1>5. RecoveredValue(k, n) = log[l].val
  BY <1>2, <1>3, <1>4 DEF RecoveredValue
<1> DEFINE ended == {log[c].txn : c \in {m \in 1 .. n : log[m].type = "Commit"}} \cup {None}
           lns == {x \in 1 .. n : IsLN(x) /\ log[x].key = k /\ log[x].txn \in ended}
<1>6. \A u : u \in ended <=> EndedBy(u, n)
  BY DEF EndedBy
<1>7. lns = Vers(k, n)
  BY <1>6 DEF Vers
<1>8. CommittedValue(k, n) = IF lns = {} THEN None ELSE log[Max(lns)].val
  BY DEF CommittedValue
<1>. HIDE DEF lns
<1>9. Max(lns) = l
  <2>1. l \in lns /\ lns \subseteq 0 .. n /\ \A x \in lns : x <= l
    BY <1>3, <1>7 DEF IsCur, Vers
  <2>2. Max(lns) \in lns /\ \A x \in lns : x <= Max(lns)
    BY <1>1, <2>1, MaxIs
  <2>3. PICK x : x = Max(lns)
    OBVIOUS
  <2>4. x \in 0 .. n /\ x <= l /\ l <= x
    BY <2>1, <2>2, <2>3
  <2>. QED
    BY <1>4, <2>3, <2>4
<1>. QED
  BY <1>3, <1>5, <1>7, <1>8, <1>9 DEF IsCur

\* RecoversCommitted: at every moment recover_all would rebuild the committed values
\* from the log files that are left, outside the exceptions the property names.
THEOREM CommittedAreRecovered ==
    ASSUME Loaded + 3 <= MaxLog
    PROVE  Spec => []RecoversCommitted
<1>1. ASSUME TypeInv, SelInv, exposed = {} => DeepInv PROVE RecoversCommitted
  <2>1. ASSUME exposed = {} PROVE RecoveryInv
    BY <1>1, <2>1 DEF DeepInv, RecoveryInv
  <2>. QED
    BY <1>1, <2>1, FaithfulNow DEF RecoversCommitted
<1>. QED
  BY <1>1, DeepAlways, PTL
=============================================================================
