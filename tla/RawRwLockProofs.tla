-------------------------- MODULE RawRwLockProofs --------------------------
(***************************************************************************)
(* Exclusion, the gate bits and the wake-ups of the reader-writer lock,    *)
(* for every number of threads.                                            *)
(*                                                                         *)
(* Exclusion says nothing of the word the threads decide by: it needs that *)
(* the reader count of the word is the number of threads inside (CountInv) *)
(* and that WRITE_LOCKED is set for exactly one thread, with a reservation *)
(* or the lock (LockInv).  That no wake-up is lost needs what a thread     *)
(* knows between its last look at the word and its sleep: the word a       *)
(* reader is to sleep on, and a generation sample that is still current,   *)
(* both say that the mark is set or its reader has yet to bump.            *)
(***************************************************************************)
EXTENDS RawRwLock, FiniteSetTheorems, TLAPS

\* The readers inside, and the places of a writer that set WRITE_LOCKED.
Inside == {t \in Thread : pc[t] = "reading"}
Reserved == Draining \cup Holding

\* The reader count is the number of readers inside.
CountInv == word.readers = Cardinality(Inside)

\* WRITE_LOCKED belongs to one writer, and no reader is inside once it holds the lock.
LockInv ==
  /\ word.locked <=> \E t \in Thread : pc[t] \in Reserved
  /\ \A t, s \in Thread : pc[t] \in Reserved /\ pc[s] \in Reserved => t = s
  /\ \A t \in Thread : pc[t] \in Holding => word.readers = 0

\* A reader about to sleep does so on a word that carries its mark.
ReadersInv ==
  /\ ReadersWillWake
  /\ \A t \in Thread : pc[t] = "rwait" => seen[t].locked /\ seen[t].rparked

\* A reserved writer whose sample of drain_futex is current has readers before it, or the
\* last of them has still to bump.
DrainInv ==
  /\ DrainWillWake
  /\ \A t \in Thread : pc[t] = "dwait" /\ t \in dfresh =>
       word.readers > 0 \/ \E s \in Thread : pc[s] = "dbump"

\* The same of a writer without a reservation and its sample of write_futex.
WritersInv ==
  /\ WritersWillWake
  /\ \A t \in Thread : pc[t] = "wwait" /\ t \in wfresh =>
       (word.locked /\ word.wparked) \/ \E s \in Thread : pc[s] = "bump"

IInv == TypeOK /\ CountInv /\ LockInv /\ GatesNeedReservation /\ ReadersInv /\ DrainInv

-----------------------------------------------------------------------------
\* Finitely many threads, so finitely many readers inside.
LEMMA InsideFinite == IsFiniteSet(Inside)
  BY RwLockAssumption, FS_Subset DEF Inside


\* lock_shared keeps the inductive invariant.
LEMMA Lock_sharedKeeps ==
  ASSUME IInv, NEW t \in Thread, lock_shared(t) PROVE IInv'
<1> USE RwLockAssumption DEF IInv
<1>type. TypeOK'
  BY DEF TypeOK, Word, Free, Places, Draining, Holding, None, lock_shared, Goto
<1>count. CountInv'
  <2>1. Inside' = Inside
    BY DEF TypeOK, Inside, lock_shared, Goto
  <2>2. QED
    BY <2>1 DEF CountInv, TypeOK, Word, Free, lock_shared, Goto
<1>lock. LockInv'
  BY DEF LockInv, TypeOK, Word, Free, Reserved, Draining, Holding, lock_shared, Goto
<1>gates. GatesNeedReservation'
  BY DEF GatesNeedReservation, LockInv, TypeOK, Word, Free, lock_shared, Goto
<1>readers. ReadersInv'
  BY DEF ReadersInv, ReadersWillWake, TypeOK, Word, Free, lock_shared, Goto
<1>drain. DrainInv'
  BY DEF DrainInv, DrainWillWake, LockInv, Reserved, Draining, Holding, TypeOK, Word, Free,
     lock_shared, Goto
<1> QED
  BY <1>type, <1>count, <1>lock, <1>gates, <1>readers, <1>drain

\* lock_shared keeps the chain that wakes the writers.
LEMMA Lock_sharedKeepsWriters ==
  ASSUME IInv, WritersInv, NEW t \in Thread, lock_shared(t) PROVE WritersInv'
  BY DEF IInv, WritersInv, WritersWillWake, LockInv, Reserved, Draining, Holding, TypeOK,
     Word, Free, lock_shared, Goto

\* lock_exclusive keeps the inductive invariant.
LEMMA Lock_exclusiveKeeps ==
  ASSUME IInv, NEW t \in Thread, lock_exclusive(t) PROVE IInv'
<1> USE RwLockAssumption DEF IInv
<1>type. TypeOK'
  BY DEF TypeOK, Word, Free, Places, Draining, Holding, None, lock_exclusive, Goto
<1>count. CountInv'
  <2>1. Inside' = Inside
    BY DEF TypeOK, Inside, lock_exclusive, Goto
  <2>2. QED
    BY <2>1 DEF CountInv, TypeOK, Word, Free, lock_exclusive, Goto
<1>lock. LockInv'
  BY DEF LockInv, TypeOK, Word, Free, Reserved, Draining, Holding, lock_exclusive, Goto
<1>gates. GatesNeedReservation'
  BY DEF GatesNeedReservation, LockInv, TypeOK, Word, Free, lock_exclusive, Goto
<1>readers. ReadersInv'
  BY DEF ReadersInv, ReadersWillWake, TypeOK, Word, Free, lock_exclusive, Goto
<1>drain. DrainInv'
  BY DEF DrainInv, DrainWillWake, LockInv, Reserved, Draining, Holding, TypeOK, Word, Free,
     lock_exclusive, Goto
<1> QED
  BY <1>type, <1>count, <1>lock, <1>gates, <1>readers, <1>drain

\* lock_exclusive keeps the chain that wakes the writers.
LEMMA Lock_exclusiveKeepsWriters ==
  ASSUME IInv, WritersInv, NEW t \in Thread, lock_exclusive(t) PROVE WritersInv'
  BY DEF IInv, WritersInv, WritersWillWake, LockInv, Reserved, Draining, Holding, TypeOK,
     Word, Free, lock_exclusive, Goto

\* Admit keeps the inductive invariant.
LEMMA AdmitKeeps ==
  ASSUME IInv, NEW t \in Thread, Admit(t) PROVE IInv'
<1> USE RwLockAssumption DEF IInv
<1>type. TypeOK'
  BY DEF TypeOK, Word, Free, Places, Draining, Holding, None, Admit, Goto
<1>count. CountInv'
  <2>1. Inside' = Inside \cup {t} /\ t \notin Inside
    BY DEF TypeOK, Inside, Admit, Goto
  <2>2. Cardinality(Inside') = Cardinality(Inside) + 1
    BY <2>1, InsideFinite, FS_AddElement
  <2>3. word'.readers = word.readers + 1
    BY DEF TypeOK, Word, Admit
  <2>4. QED
    BY <2>2, <2>3 DEF CountInv
<1>lock. LockInv'
  BY DEF LockInv, TypeOK, Word, Free, Reserved, Draining, Holding, Admit, Goto
<1>gates. GatesNeedReservation'
  BY DEF GatesNeedReservation, LockInv, TypeOK, Word, Free, Admit, Goto
<1>readers. ReadersInv'
  BY DEF ReadersInv, ReadersWillWake, TypeOK, Word, Free, Admit, Goto
<1>drain. DrainInv'
  BY DEF DrainInv, DrainWillWake, LockInv, Reserved, Draining, Holding, TypeOK, Word, Free,
     Admit, Goto
<1> QED
  BY <1>type, <1>count, <1>lock, <1>gates, <1>readers, <1>drain

\* Admit keeps the chain that wakes the writers.
LEMMA AdmitKeepsWriters ==
  ASSUME IInv, WritersInv, NEW t \in Thread, Admit(t) PROVE WritersInv'
  BY DEF IInv, WritersInv, WritersWillWake, LockInv, Reserved, Draining, Holding, TypeOK,
     Word, Free, Admit, Goto

\* AnnounceReader keeps the inductive invariant.
LEMMA AnnounceReaderKeeps ==
  ASSUME IInv, NEW t \in Thread, AnnounceReader(t) PROVE IInv'
<1> USE RwLockAssumption DEF IInv
<1>type. TypeOK'
  BY DEF TypeOK, Word, Free, Places, Draining, Holding, None, AnnounceReader, Goto
<1>count. CountInv'
  <2>1. Inside' = Inside
    BY DEF TypeOK, Inside, AnnounceReader, Goto
  <2>2. QED
    BY <2>1 DEF CountInv, TypeOK, Word, Free, AnnounceReader, Goto
<1>lock. LockInv'
  BY DEF LockInv, TypeOK, Word, Free, Reserved, Draining, Holding, AnnounceReader, Goto
<1>gates. GatesNeedReservation'
  BY DEF GatesNeedReservation, LockInv, TypeOK, Word, Free, AnnounceReader, Goto
<1>readers. ReadersInv'
  BY DEF ReadersInv, ReadersWillWake, TypeOK, Word, Free, AnnounceReader, Goto
<1>drain. DrainInv'
  BY DEF DrainInv, DrainWillWake, LockInv, Reserved, Draining, Holding, TypeOK, Word, Free,
     AnnounceReader, Goto
<1> QED
  BY <1>type, <1>count, <1>lock, <1>gates, <1>readers, <1>drain

\* AnnounceReader keeps the chain that wakes the writers.
LEMMA AnnounceReaderKeepsWriters ==
  ASSUME IInv, WritersInv, NEW t \in Thread, AnnounceReader(t) PROVE WritersInv'
  BY DEF IInv, WritersInv, WritersWillWake, LockInv, Reserved, Draining, Holding, TypeOK,
     Word, Free, AnnounceReader, Goto

\* ParkReader keeps the inductive invariant.
LEMMA ParkReaderKeeps ==
  ASSUME IInv, NEW t \in Thread, ParkReader(t) PROVE IInv'
<1> USE RwLockAssumption DEF IInv
<1>type. TypeOK'
  BY DEF TypeOK, Word, Free, Places, Draining, Holding, None, ParkReader, Goto
<1>count. CountInv'
  <2>1. Inside' = Inside
    BY DEF TypeOK, Inside, ParkReader, Goto
  <2>2. QED
    BY <2>1 DEF CountInv, TypeOK, Word, Free, ParkReader, Goto
<1>lock. LockInv'
  BY DEF LockInv, TypeOK, Word, Free, Reserved, Draining, Holding, ParkReader, Goto
<1>gates. GatesNeedReservation'
  BY DEF GatesNeedReservation, LockInv, TypeOK, Word, Free, ParkReader, Goto
<1>readers. ReadersInv'
  BY DEF ReadersInv, ReadersWillWake, TypeOK, Word, Free, ParkReader, Goto
<1>drain. DrainInv'
  BY DEF DrainInv, DrainWillWake, LockInv, Reserved, Draining, Holding, TypeOK, Word, Free,
     ParkReader, Goto
<1> QED
  BY <1>type, <1>count, <1>lock, <1>gates, <1>readers, <1>drain

\* ParkReader keeps the chain that wakes the writers.
LEMMA ParkReaderKeepsWriters ==
  ASSUME IInv, WritersInv, NEW t \in Thread, ParkReader(t) PROVE WritersInv'
  BY DEF IInv, WritersInv, WritersWillWake, LockInv, Reserved, Draining, Holding, TypeOK,
     Word, Free, ParkReader, Goto

\* ReaderAgain keeps the inductive invariant.
LEMMA ReaderAgainKeeps ==
  ASSUME IInv, NEW t \in Thread, ReaderAgain(t) PROVE IInv'
<1> USE RwLockAssumption DEF IInv
<1>type. TypeOK'
  BY DEF TypeOK, Word, Free, Places, Draining, Holding, None, ReaderAgain, Goto
<1>count. CountInv'
  <2>1. Inside' = Inside
    BY DEF TypeOK, Inside, ReaderAgain, Goto
  <2>2. QED
    BY <2>1 DEF CountInv, TypeOK, Word, Free, ReaderAgain, Goto
<1>lock. LockInv'
  BY DEF LockInv, TypeOK, Word, Free, Reserved, Draining, Holding, ReaderAgain, Goto
<1>gates. GatesNeedReservation'
  BY DEF GatesNeedReservation, LockInv, TypeOK, Word, Free, ReaderAgain, Goto
<1>readers. ReadersInv'
  BY DEF ReadersInv, ReadersWillWake, TypeOK, Word, Free, ReaderAgain, Goto
<1>drain. DrainInv'
  BY DEF DrainInv, DrainWillWake, LockInv, Reserved, Draining, Holding, TypeOK, Word, Free,
     ReaderAgain, Goto
<1> QED
  BY <1>type, <1>count, <1>lock, <1>gates, <1>readers, <1>drain

\* ReaderAgain keeps the chain that wakes the writers.
LEMMA ReaderAgainKeepsWriters ==
  ASSUME IInv, WritersInv, NEW t \in Thread, ReaderAgain(t) PROVE WritersInv'
  BY DEF IInv, WritersInv, WritersWillWake, LockInv, Reserved, Draining, Holding, TypeOK,
     Word, Free, ReaderAgain, Goto

\* unlock_shared keeps the inductive invariant.
LEMMA Unlock_sharedKeeps ==
  ASSUME IInv, NEW t \in Thread, unlock_shared(t) PROVE IInv'
<1> USE RwLockAssumption DEF IInv
<1>inside. word.readers > 0
  <2>1. t \in Inside /\ word.readers \in Nat
    BY DEF Inside, unlock_shared, TypeOK, Word
  <2>2. Cardinality(Inside) # 0
    BY <2>1, InsideFinite, FS_EmptySet
  <2>3. QED
    BY <2>1, <2>2 DEF CountInv
<1>type. TypeOK'
  BY <1>inside DEF TypeOK, Word, Free, Places, Draining, Holding, None, unlock_shared, Goto
<1>count. CountInv'
  <2>1. Inside' = Inside \ {t} /\ t \in Inside
    BY DEF TypeOK, Places, Draining, Holding, Inside, unlock_shared, Goto
  <2>2. QED
    BY <2>1, InsideFinite, FS_RemoveElement DEF CountInv, TypeOK, Word, unlock_shared
<1>lock. LockInv'
  BY <1>inside DEF LockInv, TypeOK, Word, Free, Reserved, Draining, Holding, unlock_shared,
     Goto
<1>gates. GatesNeedReservation'
  BY DEF GatesNeedReservation, LockInv, TypeOK, Word, Free, unlock_shared, Goto
<1>readers. ReadersInv'
  BY DEF ReadersInv, ReadersWillWake, TypeOK, Word, Free, unlock_shared, Goto
<1>drain. DrainInv'
  BY DEF DrainInv, DrainWillWake, LockInv, Reserved, Draining, Holding, TypeOK, Word, Free,
     unlock_shared, Goto
<1> QED
  BY <1>type, <1>count, <1>lock, <1>gates, <1>readers, <1>drain

\* unlock_shared keeps the chain that wakes the writers.
LEMMA Unlock_sharedKeepsWriters ==
  ASSUME IInv, WritersInv, NEW t \in Thread, unlock_shared(t) PROVE WritersInv'
  BY DEF IInv, WritersInv, WritersWillWake, LockInv, Reserved, Draining, Holding, TypeOK,
     Word, Free, unlock_shared, Goto

\* BumpDrain keeps the inductive invariant.
LEMMA BumpDrainKeeps ==
  ASSUME IInv, NEW t \in Thread, BumpDrain(t) PROVE IInv'
<1> USE RwLockAssumption DEF IInv
<1>type. TypeOK'
  BY DEF TypeOK, Word, Free, Places, Draining, Holding, None, BumpDrain, Goto
<1>count. CountInv'
  <2>1. Inside' = Inside
    BY DEF TypeOK, Inside, BumpDrain, Goto
  <2>2. QED
    BY <2>1 DEF CountInv, TypeOK, Word, Free, BumpDrain, Goto
<1>lock. LockInv'
  BY DEF LockInv, TypeOK, Word, Free, Reserved, Draining, Holding, BumpDrain, Goto
<1>gates. GatesNeedReservation'
  BY DEF GatesNeedReservation, LockInv, TypeOK, Word, Free, BumpDrain, Goto
<1>readers. ReadersInv'
  BY DEF ReadersInv, ReadersWillWake, TypeOK, Word, Free, BumpDrain, Goto
<1>drain. DrainInv'
  BY DEF DrainInv, DrainWillWake, LockInv, Reserved, Draining, Holding, TypeOK, Word, Free,
     BumpDrain, Goto
<1> QED
  BY <1>type, <1>count, <1>lock, <1>gates, <1>readers, <1>drain

\* BumpDrain keeps the chain that wakes the writers.
LEMMA BumpDrainKeepsWriters ==
  ASSUME IInv, WritersInv, NEW t \in Thread, BumpDrain(t) PROVE WritersInv'
  BY DEF IInv, WritersInv, WritersWillWake, LockInv, Reserved, Draining, Holding, TypeOK,
     Word, Free, BumpDrain, Goto

\* WakeDrain keeps the inductive invariant.
LEMMA WakeDrainKeeps ==
  ASSUME IInv, NEW t \in Thread, WakeDrain(t) PROVE IInv'
<1> USE RwLockAssumption DEF IInv
<1>type. TypeOK'
  BY DEF TypeOK, Word, Free, Places, Draining, Holding, None, WakeDrain
<1>count. CountInv'
  <2>1. Inside' = Inside
    BY DEF TypeOK, Inside, WakeDrain
  <2>2. QED
    BY <2>1 DEF CountInv, TypeOK, Word, Free, WakeDrain
<1>lock. LockInv'
  BY DEF LockInv, TypeOK, Word, Free, Reserved, Draining, Holding, WakeDrain
<1>gates. GatesNeedReservation'
  BY DEF GatesNeedReservation, LockInv, TypeOK, Word, Free, WakeDrain
<1>readers. ReadersInv'
  BY DEF ReadersInv, ReadersWillWake, TypeOK, Word, Free, WakeDrain
<1>drain. DrainInv'
  BY DEF DrainInv, DrainWillWake, LockInv, Reserved, Draining, Holding, TypeOK, Word, Free,
     WakeDrain
<1> QED
  BY <1>type, <1>count, <1>lock, <1>gates, <1>readers, <1>drain

\* WakeDrain keeps the chain that wakes the writers.
LEMMA WakeDrainKeepsWriters ==
  ASSUME IInv, WritersInv, NEW t \in Thread, WakeDrain(t) PROVE WritersInv'
  BY DEF IInv, WritersInv, WritersWillWake, LockInv, Reserved, Draining, Holding, TypeOK,
     Word, Free, WakeDrain

\* SpinAcquire keeps the inductive invariant.
LEMMA SpinAcquireKeeps ==
  ASSUME IInv, NEW t \in Thread, SpinAcquire(t) PROVE IInv'
<1> USE RwLockAssumption DEF IInv
<1>type. TypeOK'
  BY DEF TypeOK, Word, Free, Places, Draining, Holding, None, SpinAcquire, Goto
<1>count. CountInv'
  <2>1. Inside' = Inside
    BY DEF TypeOK, Inside, SpinAcquire, Goto
  <2>2. QED
    BY <2>1 DEF CountInv, TypeOK, Word, Free, SpinAcquire, Goto
<1>lock. LockInv'
  BY DEF LockInv, TypeOK, Word, Free, Reserved, Draining, Holding, SpinAcquire, Goto
<1>gates. GatesNeedReservation'
  BY DEF GatesNeedReservation, LockInv, TypeOK, Word, Free, SpinAcquire, Goto
<1>readers. ReadersInv'
  BY DEF ReadersInv, ReadersWillWake, TypeOK, Word, Free, SpinAcquire, Goto
<1>drain. DrainInv'
  BY DEF DrainInv, DrainWillWake, LockInv, Reserved, Draining, Holding, TypeOK, Word, Free,
     SpinAcquire, Goto
<1> QED
  BY <1>type, <1>count, <1>lock, <1>gates, <1>readers, <1>drain

\* SpinAcquire keeps the chain that wakes the writers.
LEMMA SpinAcquireKeepsWriters ==
  ASSUME IInv, WritersInv, NEW t \in Thread, SpinAcquire(t) PROVE WritersInv'
  BY DEF IInv, WritersInv, WritersWillWake, LockInv, Reserved, Draining, Holding, TypeOK,
     Word, Free, SpinAcquire, Goto

\* SpinEnds keeps the inductive invariant.
LEMMA SpinEndsKeeps ==
  ASSUME IInv, NEW t \in Thread, SpinEnds(t) PROVE IInv'
<1> USE RwLockAssumption DEF IInv
<1>type. TypeOK'
  BY DEF TypeOK, Word, Free, Places, Draining, Holding, None, SpinEnds, Goto
<1>count. CountInv'
  <2>1. Inside' = Inside
    BY DEF TypeOK, Inside, SpinEnds, Goto
  <2>2. QED
    BY <2>1 DEF CountInv, TypeOK, Word, Free, SpinEnds, Goto
<1>lock. LockInv'
  BY DEF LockInv, TypeOK, Word, Free, Reserved, Draining, Holding, SpinEnds, Goto
<1>gates. GatesNeedReservation'
  BY DEF GatesNeedReservation, LockInv, TypeOK, Word, Free, SpinEnds, Goto
<1>readers. ReadersInv'
  BY DEF ReadersInv, ReadersWillWake, TypeOK, Word, Free, SpinEnds, Goto
<1>drain. DrainInv'
  BY DEF DrainInv, DrainWillWake, LockInv, Reserved, Draining, Holding, TypeOK, Word, Free,
     SpinEnds, Goto
<1> QED
  BY <1>type, <1>count, <1>lock, <1>gates, <1>readers, <1>drain

\* SpinEnds keeps the chain that wakes the writers.
LEMMA SpinEndsKeepsWriters ==
  ASSUME IInv, WritersInv, NEW t \in Thread, SpinEnds(t) PROVE WritersInv'
  BY DEF IInv, WritersInv, WritersWillWake, LockInv, Reserved, Draining, Holding, TypeOK,
     Word, Free, SpinEnds, Goto

\* SampleWriters keeps the inductive invariant.
LEMMA SampleWritersKeeps ==
  ASSUME IInv, NEW t \in Thread, SampleWriters(t) PROVE IInv'
<1> USE RwLockAssumption DEF IInv
<1>type. TypeOK'
  BY DEF TypeOK, Word, Free, Places, Draining, Holding, None, SampleWriters, Goto
<1>count. CountInv'
  <2>1. Inside' = Inside
    BY DEF TypeOK, Inside, SampleWriters, Goto
  <2>2. QED
    BY <2>1 DEF CountInv, TypeOK, Word, Free, SampleWriters, Goto
<1>lock. LockInv'
  BY DEF LockInv, TypeOK, Word, Free, Reserved, Draining, Holding, SampleWriters, Goto
<1>gates. GatesNeedReservation'
  BY DEF GatesNeedReservation, LockInv, TypeOK, Word, Free, SampleWriters, Goto
<1>readers. ReadersInv'
  BY DEF ReadersInv, ReadersWillWake, TypeOK, Word, Free, SampleWriters, Goto
<1>drain. DrainInv'
  BY DEF DrainInv, DrainWillWake, LockInv, Reserved, Draining, Holding, TypeOK, Word, Free,
     SampleWriters, Goto
<1> QED
  BY <1>type, <1>count, <1>lock, <1>gates, <1>readers, <1>drain

\* SampleWriters keeps the chain that wakes the writers.
LEMMA SampleWritersKeepsWriters ==
  ASSUME IInv, WritersInv, NEW t \in Thread, SampleWriters(t) PROVE WritersInv'
  BY DEF IInv, WritersInv, WritersWillWake, LockInv, Reserved, Draining, Holding, TypeOK,
     Word, Free, SampleWriters, Goto

\* Reserve keeps the inductive invariant.
LEMMA ReserveKeeps ==
  ASSUME IInv, NEW t \in Thread, Reserve(t) PROVE IInv'
<1> USE RwLockAssumption DEF IInv
<1>type. TypeOK'
  BY DEF TypeOK, Word, Free, Places, Draining, Holding, None, Reserve, Goto
<1>count. CountInv'
  <2>1. Inside' = Inside
    BY DEF TypeOK, Inside, Reserve, Goto
  <2>2. QED
    BY <2>1 DEF CountInv, TypeOK, Word, Free, Reserve, Goto
<1>lock. LockInv'
  BY DEF LockInv, TypeOK, Word, Free, Reserved, Draining, Holding, Reserve, Goto
<1>gates. GatesNeedReservation'
  BY DEF GatesNeedReservation, LockInv, TypeOK, Word, Free, Reserve, Goto
<1>readers. ReadersInv'
  BY DEF ReadersInv, ReadersWillWake, TypeOK, Word, Free, Reserve, Goto
<1>drain. DrainInv'
  BY DEF DrainInv, DrainWillWake, LockInv, Reserved, Draining, Holding, TypeOK, Word, Free,
     Reserve, Goto
<1> QED
  BY <1>type, <1>count, <1>lock, <1>gates, <1>readers, <1>drain

\* Reserve keeps the chain that wakes the writers.
LEMMA ReserveKeepsWriters ==
  ASSUME IInv, WritersInv, NEW t \in Thread, Reserve(t) PROVE WritersInv'
  BY DEF IInv, WritersInv, WritersWillWake, LockInv, Reserved, Draining, Holding, TypeOK,
     Word, Free, Reserve, Goto

\* AnnounceWriter keeps the inductive invariant.
LEMMA AnnounceWriterKeeps ==
  ASSUME IInv, NEW t \in Thread, AnnounceWriter(t) PROVE IInv'
<1> USE RwLockAssumption DEF IInv
<1>type. TypeOK'
  BY DEF TypeOK, Word, Free, Places, Draining, Holding, None, AnnounceWriter, Goto
<1>count. CountInv'
  <2>1. Inside' = Inside
    BY DEF TypeOK, Inside, AnnounceWriter, Goto
  <2>2. QED
    BY <2>1 DEF CountInv, TypeOK, Word, Free, AnnounceWriter, Goto
<1>lock. LockInv'
  BY DEF LockInv, TypeOK, Word, Free, Reserved, Draining, Holding, AnnounceWriter, Goto
<1>gates. GatesNeedReservation'
  BY DEF GatesNeedReservation, LockInv, TypeOK, Word, Free, AnnounceWriter, Goto
<1>readers. ReadersInv'
  BY DEF ReadersInv, ReadersWillWake, TypeOK, Word, Free, AnnounceWriter, Goto
<1>drain. DrainInv'
  BY DEF DrainInv, DrainWillWake, LockInv, Reserved, Draining, Holding, TypeOK, Word, Free,
     AnnounceWriter, Goto
<1> QED
  BY <1>type, <1>count, <1>lock, <1>gates, <1>readers, <1>drain

\* AnnounceWriter keeps the chain that wakes the writers.
LEMMA AnnounceWriterKeepsWriters ==
  ASSUME IInv, WritersInv, NEW t \in Thread, AnnounceWriter(t) PROVE WritersInv'
  BY DEF IInv, WritersInv, WritersWillWake, LockInv, Reserved, Draining, Holding, TypeOK,
     Word, Free, AnnounceWriter, Goto

\* ParkWriter keeps the inductive invariant.
LEMMA ParkWriterKeeps ==
  ASSUME IInv, NEW t \in Thread, ParkWriter(t) PROVE IInv'
<1> USE RwLockAssumption DEF IInv
<1>type. TypeOK'
  BY DEF TypeOK, Word, Free, Places, Draining, Holding, None, ParkWriter, Goto
<1>count. CountInv'
  <2>1. Inside' = Inside
    BY DEF TypeOK, Inside, ParkWriter, Goto
  <2>2. QED
    BY <2>1 DEF CountInv, TypeOK, Word, Free, ParkWriter, Goto
<1>lock. LockInv'
  BY DEF LockInv, TypeOK, Word, Free, Reserved, Draining, Holding, ParkWriter, Goto
<1>gates. GatesNeedReservation'
  BY DEF GatesNeedReservation, LockInv, TypeOK, Word, Free, ParkWriter, Goto
<1>readers. ReadersInv'
  BY DEF ReadersInv, ReadersWillWake, TypeOK, Word, Free, ParkWriter, Goto
<1>drain. DrainInv'
  BY DEF DrainInv, DrainWillWake, LockInv, Reserved, Draining, Holding, TypeOK, Word, Free,
     ParkWriter, Goto
<1> QED
  BY <1>type, <1>count, <1>lock, <1>gates, <1>readers, <1>drain

\* ParkWriter keeps the chain that wakes the writers.
LEMMA ParkWriterKeepsWriters ==
  ASSUME IInv, WritersInv, NEW t \in Thread, ParkWriter(t) PROVE WritersInv'
  BY DEF IInv, WritersInv, WritersWillWake, LockInv, Reserved, Draining, Holding, TypeOK,
     Word, Free, ParkWriter, Goto

\* WriterAgain keeps the inductive invariant.
LEMMA WriterAgainKeeps ==
  ASSUME IInv, NEW t \in Thread, WriterAgain(t) PROVE IInv'
<1> USE RwLockAssumption DEF IInv
<1>type. TypeOK'
  BY DEF TypeOK, Word, Free, Places, Draining, Holding, None, WriterAgain, Goto
<1>count. CountInv'
  <2>1. Inside' = Inside
    BY DEF TypeOK, Inside, WriterAgain, Goto
  <2>2. QED
    BY <2>1 DEF CountInv, TypeOK, Word, Free, WriterAgain, Goto
<1>lock. LockInv'
  BY DEF LockInv, TypeOK, Word, Free, Reserved, Draining, Holding, WriterAgain, Goto
<1>gates. GatesNeedReservation'
  BY DEF GatesNeedReservation, LockInv, TypeOK, Word, Free, WriterAgain, Goto
<1>readers. ReadersInv'
  BY DEF ReadersInv, ReadersWillWake, TypeOK, Word, Free, WriterAgain, Goto
<1>drain. DrainInv'
  BY DEF DrainInv, DrainWillWake, LockInv, Reserved, Draining, Holding, TypeOK, Word, Free,
     WriterAgain, Goto
<1> QED
  BY <1>type, <1>count, <1>lock, <1>gates, <1>readers, <1>drain

\* WriterAgain keeps the chain that wakes the writers.
LEMMA WriterAgainKeepsWriters ==
  ASSUME IInv, WritersInv, NEW t \in Thread, WriterAgain(t) PROVE WritersInv'
  BY DEF IInv, WritersInv, WritersWillWake, LockInv, Reserved, Draining, Holding, TypeOK,
     Word, Free, WriterAgain, Goto

\* SampleDrain keeps the inductive invariant.
LEMMA SampleDrainKeeps ==
  ASSUME IInv, NEW t \in Thread, SampleDrain(t) PROVE IInv'
<1> USE RwLockAssumption DEF IInv
<1>type. TypeOK'
  BY DEF TypeOK, Word, Free, Places, Draining, Holding, None, SampleDrain, Goto
<1>count. CountInv'
  <2>1. Inside' = Inside
    BY DEF TypeOK, Inside, SampleDrain, Goto
  <2>2. QED
    BY <2>1 DEF CountInv, TypeOK, Word, Free, SampleDrain, Goto
<1>lock. LockInv'
  BY DEF LockInv, TypeOK, Word, Free, Reserved, Draining, Holding, SampleDrain, Goto
<1>gates. GatesNeedReservation'
  BY DEF GatesNeedReservation, LockInv, TypeOK, Word, Free, SampleDrain, Goto
<1>readers. ReadersInv'
  BY DEF ReadersInv, ReadersWillWake, TypeOK, Word, Free, SampleDrain, Goto
<1>drain. DrainInv'
  BY DEF DrainInv, DrainWillWake, LockInv, Reserved, Draining, Holding, TypeOK, Word, Free,
     SampleDrain, Goto
<1> QED
  BY <1>type, <1>count, <1>lock, <1>gates, <1>readers, <1>drain

\* SampleDrain keeps the chain that wakes the writers.
LEMMA SampleDrainKeepsWriters ==
  ASSUME IInv, WritersInv, NEW t \in Thread, SampleDrain(t) PROVE WritersInv'
  BY DEF IInv, WritersInv, WritersWillWake, LockInv, Reserved, Draining, Holding, TypeOK,
     Word, Free, SampleDrain, Goto

\* Drained keeps the inductive invariant.
LEMMA DrainedKeeps ==
  ASSUME IInv, NEW t \in Thread, Drained(t) PROVE IInv'
<1> USE RwLockAssumption DEF IInv
<1>type. TypeOK'
  BY DEF TypeOK, Word, Free, Places, Draining, Holding, None, Drained, Goto
<1>count. CountInv'
  <2>1. Inside' = Inside
    BY DEF TypeOK, Inside, Drained, Goto
  <2>2. QED
    BY <2>1 DEF CountInv, TypeOK, Word, Free, Drained, Goto
<1>lock. LockInv'
  BY DEF LockInv, TypeOK, Word, Free, Reserved, Draining, Holding, Drained, Goto
<1>gates. GatesNeedReservation'
  BY DEF GatesNeedReservation, LockInv, TypeOK, Word, Free, Drained, Goto
<1>readers. ReadersInv'
  BY DEF ReadersInv, ReadersWillWake, TypeOK, Word, Free, Drained, Goto
<1>drain. DrainInv'
  BY DEF DrainInv, DrainWillWake, LockInv, Reserved, Draining, Holding, TypeOK, Word, Free,
     Drained, Goto
<1> QED
  BY <1>type, <1>count, <1>lock, <1>gates, <1>readers, <1>drain

\* Drained keeps the chain that wakes the writers.
LEMMA DrainedKeepsWriters ==
  ASSUME IInv, WritersInv, NEW t \in Thread, Drained(t) PROVE WritersInv'
  BY DEF IInv, WritersInv, WritersWillWake, LockInv, Reserved, Draining, Holding, TypeOK,
     Word, Free, Drained, Goto

\* NotDrained keeps the inductive invariant.
LEMMA NotDrainedKeeps ==
  ASSUME IInv, NEW t \in Thread, NotDrained(t) PROVE IInv'
<1> USE RwLockAssumption DEF IInv
<1>type. TypeOK'
  BY DEF TypeOK, Word, Free, Places, Draining, Holding, None, NotDrained, Goto
<1>count. CountInv'
  <2>1. Inside' = Inside
    BY DEF TypeOK, Inside, NotDrained, Goto
  <2>2. QED
    BY <2>1 DEF CountInv, TypeOK, Word, Free, NotDrained, Goto
<1>lock. LockInv'
  BY DEF LockInv, TypeOK, Word, Free, Reserved, Draining, Holding, NotDrained, Goto
<1>gates. GatesNeedReservation'
  BY DEF GatesNeedReservation, LockInv, TypeOK, Word, Free, NotDrained, Goto
<1>readers. ReadersInv'
  BY DEF ReadersInv, ReadersWillWake, TypeOK, Word, Free, NotDrained, Goto
<1>drain. DrainInv'
  BY DEF DrainInv, DrainWillWake, LockInv, Reserved, Draining, Holding, TypeOK, Word, Free,
     NotDrained, Goto
<1> QED
  BY <1>type, <1>count, <1>lock, <1>gates, <1>readers, <1>drain

\* NotDrained keeps the chain that wakes the writers.
LEMMA NotDrainedKeepsWriters ==
  ASSUME IInv, WritersInv, NEW t \in Thread, NotDrained(t) PROVE WritersInv'
  BY DEF IInv, WritersInv, WritersWillWake, LockInv, Reserved, Draining, Holding, TypeOK,
     Word, Free, NotDrained, Goto

\* ParkDrain keeps the inductive invariant.
LEMMA ParkDrainKeeps ==
  ASSUME IInv, NEW t \in Thread, ParkDrain(t) PROVE IInv'
<1> USE RwLockAssumption DEF IInv
<1>type. TypeOK'
  BY DEF TypeOK, Word, Free, Places, Draining, Holding, None, ParkDrain, Goto
<1>count. CountInv'
  <2>1. Inside' = Inside
    BY DEF TypeOK, Inside, ParkDrain, Goto
  <2>2. QED
    BY <2>1 DEF CountInv, TypeOK, Word, Free, ParkDrain, Goto
<1>lock. LockInv'
  BY DEF LockInv, TypeOK, Word, Free, Reserved, Draining, Holding, ParkDrain, Goto
<1>gates. GatesNeedReservation'
  BY DEF GatesNeedReservation, LockInv, TypeOK, Word, Free, ParkDrain, Goto
<1>readers. ReadersInv'
  BY DEF ReadersInv, ReadersWillWake, TypeOK, Word, Free, ParkDrain, Goto
<1>drain. DrainInv'
  BY DEF DrainInv, DrainWillWake, LockInv, Reserved, Draining, Holding, TypeOK, Word, Free,
     ParkDrain, Goto
<1> QED
  BY <1>type, <1>count, <1>lock, <1>gates, <1>readers, <1>drain

\* ParkDrain keeps the chain that wakes the writers.
LEMMA ParkDrainKeepsWriters ==
  ASSUME IInv, WritersInv, NEW t \in Thread, ParkDrain(t) PROVE WritersInv'
  BY DEF IInv, WritersInv, WritersWillWake, LockInv, Reserved, Draining, Holding, TypeOK,
     Word, Free, ParkDrain, Goto

\* GiveUp keeps the inductive invariant.
LEMMA GiveUpKeeps ==
  ASSUME IInv, NEW t \in Thread, GiveUp(t) PROVE IInv'
<1> USE RwLockAssumption DEF IInv
<1>type. TypeOK'
  BY DEF TypeOK, Word, Free, Places, Draining, Holding, None, GiveUp, Goto, AfterClear
<1>count. CountInv'
  <2>1. Inside' = Inside
    BY DEF TypeOK, Inside, GiveUp, Goto, AfterClear
  <2>2. QED
    BY <2>1 DEF CountInv, TypeOK, Word, Free, GiveUp, Goto, AfterClear
<1>lock. LockInv'
  BY DEF LockInv, TypeOK, Word, Free, Reserved, Draining, Holding, GiveUp, Goto, AfterClear
<1>gates. GatesNeedReservation'
  BY DEF GatesNeedReservation, LockInv, TypeOK, Word, Free, GiveUp, Goto, AfterClear
<1>readers. ReadersInv'
  BY DEF ReadersInv, ReadersWillWake, TypeOK, Word, Free, GiveUp, Goto, AfterClear
<1>drain. DrainInv'
  BY DEF DrainInv, DrainWillWake, LockInv, Reserved, Draining, Holding, TypeOK, Word, Free,
     GiveUp, Goto, AfterClear
<1> QED
  BY <1>type, <1>count, <1>lock, <1>gates, <1>readers, <1>drain

\* GiveUp keeps the chain that wakes the writers.
LEMMA GiveUpKeepsWriters ==
  ASSUME IInv, WritersInv, NEW t \in Thread, GiveUp(t) PROVE WritersInv'
  BY DEF IInv, WritersInv, WritersWillWake, LockInv, Reserved, Draining, Holding, TypeOK,
     Word, Free, GiveUp, Goto, AfterClear

\* SetOwner keeps the inductive invariant.
LEMMA SetOwnerKeeps ==
  ASSUME IInv, NEW t \in Thread, SetOwner(t) PROVE IInv'
<1> USE RwLockAssumption DEF IInv
<1>type. TypeOK'
  BY DEF TypeOK, Word, Free, Places, Draining, Holding, None, SetOwner, Goto
<1>count. CountInv'
  <2>1. Inside' = Inside
    BY DEF TypeOK, Inside, SetOwner, Goto
  <2>2. QED
    BY <2>1 DEF CountInv, TypeOK, Word, Free, SetOwner, Goto
<1>lock. LockInv'
  BY DEF LockInv, TypeOK, Word, Free, Reserved, Draining, Holding, SetOwner, Goto
<1>gates. GatesNeedReservation'
  BY DEF GatesNeedReservation, LockInv, TypeOK, Word, Free, SetOwner, Goto
<1>readers. ReadersInv'
  BY DEF ReadersInv, ReadersWillWake, TypeOK, Word, Free, SetOwner, Goto
<1>drain. DrainInv'
  BY DEF DrainInv, DrainWillWake, LockInv, Reserved, Draining, Holding, TypeOK, Word, Free,
     SetOwner, Goto
<1> QED
  BY <1>type, <1>count, <1>lock, <1>gates, <1>readers, <1>drain

\* SetOwner keeps the chain that wakes the writers.
LEMMA SetOwnerKeepsWriters ==
  ASSUME IInv, WritersInv, NEW t \in Thread, SetOwner(t) PROVE WritersInv'
  BY DEF IInv, WritersInv, WritersWillWake, LockInv, Reserved, Draining, Holding, TypeOK,
     Word, Free, SetOwner, Goto

\* ClearOwner keeps the inductive invariant.
LEMMA ClearOwnerKeeps ==
  ASSUME IInv, NEW t \in Thread, ClearOwner(t) PROVE IInv'
<1> USE RwLockAssumption DEF IInv
<1>type. TypeOK'
  BY DEF TypeOK, Word, Free, Places, Draining, Holding, None, ClearOwner, Goto
<1>count. CountInv'
  <2>1. Inside' = Inside
    BY DEF TypeOK, Inside, ClearOwner, Goto
  <2>2. QED
    BY <2>1 DEF CountInv, TypeOK, Word, Free, ClearOwner, Goto
<1>lock. LockInv'
  BY DEF LockInv, TypeOK, Word, Free, Reserved, Draining, Holding, ClearOwner, Goto
<1>gates. GatesNeedReservation'
  BY DEF GatesNeedReservation, LockInv, TypeOK, Word, Free, ClearOwner, Goto
<1>readers. ReadersInv'
  BY DEF ReadersInv, ReadersWillWake, TypeOK, Word, Free, ClearOwner, Goto
<1>drain. DrainInv'
  BY DEF DrainInv, DrainWillWake, LockInv, Reserved, Draining, Holding, TypeOK, Word, Free,
     ClearOwner, Goto
<1> QED
  BY <1>type, <1>count, <1>lock, <1>gates, <1>readers, <1>drain

\* ClearOwner keeps the chain that wakes the writers.
LEMMA ClearOwnerKeepsWriters ==
  ASSUME IInv, WritersInv, NEW t \in Thread, ClearOwner(t) PROVE WritersInv'
  BY DEF IInv, WritersInv, WritersWillWake, LockInv, Reserved, Draining, Holding, TypeOK,
     Word, Free, ClearOwner, Goto

\* unlock_exclusive keeps the inductive invariant.
LEMMA Unlock_exclusiveKeeps ==
  ASSUME IInv, NEW t \in Thread, unlock_exclusive(t) PROVE IInv'
<1> USE RwLockAssumption DEF IInv
<1>type. TypeOK'
  BY DEF TypeOK, Word, Free, Places, Draining, Holding, None, unlock_exclusive, Goto,
     AfterClear
<1>count. CountInv'
  <2>1. Inside' = Inside
    BY DEF TypeOK, Inside, unlock_exclusive, Goto, AfterClear
  <2>2. QED
    BY <2>1 DEF CountInv, TypeOK, Word, Free, unlock_exclusive, Goto, AfterClear
<1>lock. LockInv'
  BY DEF LockInv, TypeOK, Word, Free, Reserved, Draining, Holding, unlock_exclusive, Goto,
     AfterClear
<1>gates. GatesNeedReservation'
  BY DEF GatesNeedReservation, LockInv, TypeOK, Word, Free, unlock_exclusive, Goto,
     AfterClear
<1>readers. ReadersInv'
  BY DEF ReadersInv, ReadersWillWake, TypeOK, Word, Free, unlock_exclusive, Goto, AfterClear
<1>drain. DrainInv'
  BY DEF DrainInv, DrainWillWake, LockInv, Reserved, Draining, Holding, TypeOK, Word, Free,
     unlock_exclusive, Goto, AfterClear
<1> QED
  BY <1>type, <1>count, <1>lock, <1>gates, <1>readers, <1>drain

\* unlock_exclusive keeps the chain that wakes the writers.
LEMMA Unlock_exclusiveKeepsWriters ==
  ASSUME IInv, WritersInv, NEW t \in Thread, unlock_exclusive(t) PROVE WritersInv'
  BY DEF IInv, WritersInv, WritersWillWake, LockInv, Reserved, Draining, Holding, TypeOK,
     Word, Free, unlock_exclusive, Goto, AfterClear

\* BumpWriters keeps the inductive invariant.
LEMMA BumpWritersKeeps ==
  ASSUME IInv, NEW t \in Thread, BumpWriters(t) PROVE IInv'
<1> USE RwLockAssumption DEF IInv
<1>type. TypeOK'
  BY DEF TypeOK, Word, Free, Places, Draining, Holding, None, BumpWriters, Goto
<1>count. CountInv'
  <2>1. Inside' = Inside
    BY DEF TypeOK, Inside, BumpWriters, Goto
  <2>2. QED
    BY <2>1 DEF CountInv, TypeOK, Word, Free, BumpWriters, Goto
<1>lock. LockInv'
  BY DEF LockInv, TypeOK, Word, Free, Reserved, Draining, Holding, BumpWriters, Goto
<1>gates. GatesNeedReservation'
  BY DEF GatesNeedReservation, LockInv, TypeOK, Word, Free, BumpWriters, Goto
<1>readers. ReadersInv'
  BY DEF ReadersInv, ReadersWillWake, TypeOK, Word, Free, BumpWriters, Goto
<1>drain. DrainInv'
  BY DEF DrainInv, DrainWillWake, LockInv, Reserved, Draining, Holding, TypeOK, Word, Free,
     BumpWriters, Goto
<1> QED
  BY <1>type, <1>count, <1>lock, <1>gates, <1>readers, <1>drain

\* BumpWriters keeps the chain that wakes the writers.
LEMMA BumpWritersKeepsWriters ==
  ASSUME IInv, WritersInv, NEW t \in Thread, BumpWriters(t) PROVE WritersInv'
  BY DEF IInv, WritersInv, WritersWillWake, LockInv, Reserved, Draining, Holding, TypeOK,
     Word, Free, BumpWriters, Goto

\* WakeWriter keeps the inductive invariant.
LEMMA WakeWriterKeeps ==
  ASSUME IInv, NEW t \in Thread, WakeWriter(t) PROVE IInv'
<1> USE RwLockAssumption DEF IInv
<1>type. TypeOK'
  BY DEF TypeOK, Word, Free, Places, Draining, Holding, None, WakeWriter, Goto
<1>count. CountInv'
  <2>1. Inside' = Inside
    BY DEF TypeOK, Inside, WakeWriter, Goto
  <2>2. QED
    BY <2>1 DEF CountInv, TypeOK, Word, Free, WakeWriter, Goto
<1>lock. LockInv'
  BY DEF LockInv, TypeOK, Word, Free, Reserved, Draining, Holding, WakeWriter, Goto
<1>gates. GatesNeedReservation'
  BY DEF GatesNeedReservation, LockInv, TypeOK, Word, Free, WakeWriter, Goto
<1>readers. ReadersInv'
  BY DEF ReadersInv, ReadersWillWake, TypeOK, Word, Free, WakeWriter, Goto
<1>drain. DrainInv'
  BY DEF DrainInv, DrainWillWake, LockInv, Reserved, Draining, Holding, TypeOK, Word, Free,
     WakeWriter, Goto
<1> QED
  BY <1>type, <1>count, <1>lock, <1>gates, <1>readers, <1>drain

\* WakeWriter keeps the chain that wakes the writers.
LEMMA WakeWriterKeepsWriters ==
  ASSUME IInv, WritersInv, NEW t \in Thread, WakeWriter(t) PROVE WritersInv'
  BY DEF IInv, WritersInv, WritersWillWake, LockInv, Reserved, Draining, Holding, TypeOK,
     Word, Free, WakeWriter, Goto

\* WakeReaders keeps the inductive invariant.
LEMMA WakeReadersKeeps ==
  ASSUME IInv, NEW t \in Thread, WakeReaders(t) PROVE IInv'
<1> USE RwLockAssumption DEF IInv
<1>type. TypeOK'
  BY DEF TypeOK, Word, Free, Places, Draining, Holding, None, WakeReaders
<1>count. CountInv'
  <2>1. Inside' = Inside
    BY DEF TypeOK, Inside, WakeReaders
  <2>2. QED
    BY <2>1 DEF CountInv, TypeOK, Word, Free, WakeReaders
<1>lock. LockInv'
  BY DEF LockInv, TypeOK, Word, Free, Reserved, Draining, Holding, WakeReaders
<1>gates. GatesNeedReservation'
  BY DEF GatesNeedReservation, LockInv, TypeOK, Word, Free, WakeReaders
<1>readers. ReadersInv'
  BY DEF ReadersInv, ReadersWillWake, TypeOK, Word, Free, WakeReaders
<1>drain. DrainInv'
  BY DEF DrainInv, DrainWillWake, LockInv, Reserved, Draining, Holding, TypeOK, Word, Free,
     WakeReaders
<1> QED
  BY <1>type, <1>count, <1>lock, <1>gates, <1>readers, <1>drain

\* WakeReaders keeps the chain that wakes the writers.
LEMMA WakeReadersKeepsWriters ==
  ASSUME IInv, WritersInv, NEW t \in Thread, WakeReaders(t) PROVE WritersInv'
  BY DEF IInv, WritersInv, WritersWillWake, LockInv, Reserved, Draining, Holding, TypeOK,
     Word, Free, WakeReaders

\* ReaderTimeout keeps the inductive invariant.
LEMMA ReaderTimeoutKeeps ==
  ASSUME IInv, NEW t \in Thread, ReaderTimeout(t) PROVE IInv'
<1> USE RwLockAssumption DEF IInv
<1>type. TypeOK'
  BY DEF TypeOK, Word, Free, Places, Draining, Holding, None, ReaderTimeout, Goto
<1>count. CountInv'
  <2>1. Inside' = Inside
    BY DEF TypeOK, Inside, ReaderTimeout, Goto
  <2>2. QED
    BY <2>1 DEF CountInv, TypeOK, Word, Free, ReaderTimeout, Goto
<1>lock. LockInv'
  BY DEF LockInv, TypeOK, Word, Free, Reserved, Draining, Holding, ReaderTimeout, Goto
<1>gates. GatesNeedReservation'
  BY DEF GatesNeedReservation, LockInv, TypeOK, Word, Free, ReaderTimeout, Goto
<1>readers. ReadersInv'
  BY DEF ReadersInv, ReadersWillWake, TypeOK, Word, Free, ReaderTimeout, Goto
<1>drain. DrainInv'
  BY DEF DrainInv, DrainWillWake, LockInv, Reserved, Draining, Holding, TypeOK, Word, Free,
     ReaderTimeout, Goto
<1> QED
  BY <1>type, <1>count, <1>lock, <1>gates, <1>readers, <1>drain

\* ReaderTimeout keeps the chain that wakes the writers.
LEMMA ReaderTimeoutKeepsWriters ==
  ASSUME IInv, WritersInv, NEW t \in Thread, ReaderTimeout(t) PROVE WritersInv'
  BY DEF IInv, WritersInv, WritersWillWake, LockInv, Reserved, Draining, Holding, TypeOK,
     Word, Free, ReaderTimeout, Goto

\* WriterTimeout keeps the inductive invariant.
LEMMA WriterTimeoutKeeps ==
  ASSUME IInv, NEW t \in Thread, WriterTimeout(t) PROVE IInv'
<1> USE RwLockAssumption DEF IInv
<1>type. TypeOK'
  BY DEF TypeOK, Word, Free, Places, Draining, Holding, None, WriterTimeout, Goto
<1>count. CountInv'
  <2>1. Inside' = Inside
    BY DEF TypeOK, Inside, WriterTimeout, Goto
  <2>2. QED
    BY <2>1 DEF CountInv, TypeOK, Word, Free, WriterTimeout, Goto
<1>lock. LockInv'
  BY DEF LockInv, TypeOK, Word, Free, Reserved, Draining, Holding, WriterTimeout, Goto
<1>gates. GatesNeedReservation'
  BY DEF GatesNeedReservation, LockInv, TypeOK, Word, Free, WriterTimeout, Goto
<1>readers. ReadersInv'
  BY DEF ReadersInv, ReadersWillWake, TypeOK, Word, Free, WriterTimeout, Goto
<1>drain. DrainInv'
  BY DEF DrainInv, DrainWillWake, LockInv, Reserved, Draining, Holding, TypeOK, Word, Free,
     WriterTimeout, Goto
<1> QED
  BY <1>type, <1>count, <1>lock, <1>gates, <1>readers, <1>drain

\* WriterTimeout keeps the chain that wakes the writers.
LEMMA WriterTimeoutKeepsWriters ==
  ASSUME IInv, WritersInv, NEW t \in Thread, WriterTimeout(t) PROVE WritersInv'
  BY DEF IInv, WritersInv, WritersWillWake, LockInv, Reserved, Draining, Holding, TypeOK,
     Word, Free, WriterTimeout, Goto

\* DrainTimeout keeps the inductive invariant.
LEMMA DrainTimeoutKeeps ==
  ASSUME IInv, NEW t \in Thread, DrainTimeout(t) PROVE IInv'
<1> USE RwLockAssumption DEF IInv
<1>type. TypeOK'
  BY DEF TypeOK, Word, Free, Places, Draining, Holding, None, DrainTimeout, Goto
<1>count. CountInv'
  <2>1. Inside' = Inside
    BY DEF TypeOK, Inside, DrainTimeout, Goto
  <2>2. QED
    BY <2>1 DEF CountInv, TypeOK, Word, Free, DrainTimeout, Goto
<1>lock. LockInv'
  BY DEF LockInv, TypeOK, Word, Free, Reserved, Draining, Holding, DrainTimeout, Goto
<1>gates. GatesNeedReservation'
  BY DEF GatesNeedReservation, LockInv, TypeOK, Word, Free, DrainTimeout, Goto
<1>readers. ReadersInv'
  BY DEF ReadersInv, ReadersWillWake, TypeOK, Word, Free, DrainTimeout, Goto
<1>drain. DrainInv'
  BY DEF DrainInv, DrainWillWake, LockInv, Reserved, Draining, Holding, TypeOK, Word, Free,
     DrainTimeout, Goto
<1> QED
  BY <1>type, <1>count, <1>lock, <1>gates, <1>readers, <1>drain

\* DrainTimeout keeps the chain that wakes the writers.
LEMMA DrainTimeoutKeepsWriters ==
  ASSUME IInv, WritersInv, NEW t \in Thread, DrainTimeout(t) PROVE WritersInv'
  BY DEF IInv, WritersInv, WritersWillWake, LockInv, Reserved, Draining, Holding, TypeOK,
     Word, Free, DrainTimeout, Goto

\* The inductive invariant holds at the start and every step keeps it.
LEMMA IInvHolds == Spec => []IInv
<1>1. Init => IInv
  <2> SUFFICES ASSUME Init PROVE IInv
    OBVIOUS
  <2>1. Inside = {}
    BY DEF Init, Inside
  <2>2. TypeOK
    BY RwLockAssumption DEF Init, TypeOK, Word, Free, Places, None
  <2>3. CountInv
    BY <2>1, FS_EmptySet DEF Init, CountInv, Free
  <2>4. QED
    BY <2>2, <2>3 DEF Init, IInv, LockInv, GatesNeedReservation, ReadersInv,
       ReadersWillWake,
      DrainInv, DrainWillWake, Free, Reserved, Draining, Holding
<1>2. IInv /\ [Next]_vars => IInv'
  <2> SUFFICES ASSUME IInv, [Next]_vars PROVE IInv'
    OBVIOUS
  <2>1. CASE UNCHANGED vars
    BY <2>1 DEF IInv, vars, TypeOK, CountInv, Inside, LockInv, GatesNeedReservation,
       ReadersInv,
      ReadersWillWake, DrainInv, DrainWillWake
  <2>2. ASSUME NEW t \in Thread, lock_shared(t) \/ lock_exclusive(t) \/ Step(t) \/ Timeout(t)
        PROVE IInv'
    BY <2>2, Lock_sharedKeeps, Lock_exclusiveKeeps, AdmitKeeps, AnnounceReaderKeeps,
      ParkReaderKeeps, ReaderAgainKeeps, Unlock_sharedKeeps, BumpDrainKeeps,
      WakeDrainKeeps, SpinAcquireKeeps, SpinEndsKeeps, SampleWritersKeeps, ReserveKeeps,
      AnnounceWriterKeeps, ParkWriterKeeps, WriterAgainKeeps, SampleDrainKeeps,
      DrainedKeeps, NotDrainedKeeps, ParkDrainKeeps, GiveUpKeeps, SetOwnerKeeps,
      ClearOwnerKeeps, Unlock_exclusiveKeeps, BumpWritersKeeps, WakeWriterKeeps,
      WakeReadersKeeps, ReaderTimeoutKeeps, WriterTimeoutKeeps, DrainTimeoutKeeps DEF Step, Timeout
  <2>3. QED
    BY <2>1, <2>2 DEF Next
<1>3. QED
  BY <1>1, <1>2, PTL DEF Spec

\* So does the chain that wakes the writers, broken only by a swallowed wake-up.
LEMMA WritersInvHolds == Spec => []WritersInv
<1>1. Init => WritersInv
  BY DEF Init, WritersInv, WritersWillWake
<1>2. IInv /\ WritersInv /\ [Next]_vars => WritersInv'
  <2> SUFFICES ASSUME IInv, WritersInv, [Next]_vars PROVE WritersInv'
    OBVIOUS
  <2>1. CASE UNCHANGED vars
    BY <2>1 DEF vars, WritersInv, WritersWillWake
  <2>2. ASSUME NEW t \in Thread, lock_shared(t) \/ lock_exclusive(t) \/ Step(t) \/ Timeout(t)
        PROVE WritersInv'
    BY <2>2, Lock_sharedKeepsWriters, Lock_exclusiveKeepsWriters, AdmitKeepsWriters,
      AnnounceReaderKeepsWriters, ParkReaderKeepsWriters, ReaderAgainKeepsWriters,
      Unlock_sharedKeepsWriters, BumpDrainKeepsWriters, WakeDrainKeepsWriters,
      SpinAcquireKeepsWriters, SpinEndsKeepsWriters, SampleWritersKeepsWriters,
      ReserveKeepsWriters, AnnounceWriterKeepsWriters, ParkWriterKeepsWriters,
      WriterAgainKeepsWriters, SampleDrainKeepsWriters, DrainedKeepsWriters,
      NotDrainedKeepsWriters, ParkDrainKeepsWriters, GiveUpKeepsWriters,
      SetOwnerKeepsWriters, ClearOwnerKeepsWriters, Unlock_exclusiveKeepsWriters,
      BumpWritersKeepsWriters, WakeWriterKeepsWriters, WakeReadersKeepsWriters,
      ReaderTimeoutKeepsWriters, WriterTimeoutKeepsWriters, DrainTimeoutKeepsWriters DEF Step, Timeout
  <2>3. QED
    BY <2>1, <2>2 DEF Next
<1>3. QED
  BY <1>1, <1>2, IInvHolds, PTL DEF Spec

-----------------------------------------------------------------------------
\* Every reachable state of the lock is typed.
THEOREM TypeCorrect == Spec => []TypeOK
  BY IInvHolds, PTL DEF IInv

\* A writer that returned from lock_exclusive is alone with the data until it clears the
\* word, whatever path it took there: spin, reservation, drain, or a late give-up.
THEOREM ExclusionHolds == Spec => []Exclusion
<1>1. IInv => Exclusion
  <2> SUFFICES ASSUME IInv, NEW t \in Thread, NEW s \in Thread, t # s, pc[t] \in Holding,
                      pc[s] \in Holding \cup {"reading"}
               PROVE FALSE
    BY DEF Exclusion
  <2>1. pc[s] = "reading"
    BY DEF IInv, LockInv, Reserved
  <2>2. Inside = {}
    BY InsideFinite, FS_EmptySet DEF IInv, CountInv, LockInv
  <2>3. QED
    BY <2>1, <2>2 DEF Inside
<1>2. QED
  BY <1>1, IInvHolds, PTL

\* A parked bit is set only while WRITE_LOCKED is.
THEOREM GatesHold == Spec => []GatesNeedReservation
  BY IInvHolds, PTL DEF IInv

\* No wake-up is lost, with deadlines that pass at any moment: sleeping readers and the
\* sleeping reserved writer always have one to come, and so have parked writers, until a
\* writer that was woken leaves at its deadline and before the next one contends.
THEOREM NoWakeIsLost == Spec => []NoLostWake
<1>1. IInv /\ WritersInv => NoLostWake
  BY DEF IInv, WritersInv, NoLostWake, ReadersInv, DrainInv
<1>2. QED
  BY <1>1, IInvHolds, WritersInvHolds, PTL
=============================================================================
