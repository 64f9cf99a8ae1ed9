------------------------------ MODULE RawRwLock ------------------------------
(***************************************************************************)
(* The futex reader-writer lock of noxu-sync (NoxuRawRwLock), under every  *)
(* shared latch of the B-tree (noxu-latch, SharedLatch).  A writer that    *)
(* finds no free window reserves the lock, which shuts out new readers,    *)
(* and waits for those inside to drain.  Threads sleep on three words:     *)
(* readers on the state word, writers without a reservation on write_futex,*)
(* the one with it on drain_futex.                                         *)
(*                                                                         *)
(* One action is one atomic access, or one futex call.  A load followed by *)
(* the compare-exchange on what it loaded is one action: when the exchange *)
(* fails, the code loads again.  A generation counter is represented by    *)
(* the set of threads whose sample of it is still current.  The fast paths *)
(* are the first turn of the slow ones, a try_lock that fails changes      *)
(* nothing, and the counters of waiters are statistics.                    *)
(***************************************************************************)
EXTENDS Integers, FiniteSets

CONSTANTS
    Thread,          \* threads, named by a number that is not 0 (thread_id)
    Reader, Writer,  \* threads that take the lock shared, exclusive
    Timed            \* threads that pass a deadline

ASSUME RwLockAssumption ==
    /\ Thread \subseteq Nat \ {0} /\ IsFiniteSet(Thread)
    /\ Reader \subseteq Thread /\ Writer \subseteq Thread /\ Timed \subseteq Thread

None == 0

\* The state word: reader count, WRITE_LOCKED, READERS_PARKED, WRITERS_PARKED.
Word == [readers : Nat, locked : BOOLEAN, rparked : BOOLEAN, wparked : BOOLEAN]
Free == [readers |-> 0, locked |-> FALSE, rparked |-> FALSE, wparked |-> FALSE]

VARIABLES
    word,     \* state
    wfresh,   \* threads whose sample of write_futex is current
    dfresh,   \* threads whose sample of drain_futex is current
    seen,     \* the state word a reader is about to sleep on
    owner,    \* exclusive_owner
    more,     \* threads that wake the readers after they woke a writer
    swallowed,  \* history: writers that were woken, left at their deadline, and no writer
                \* has set the mark of parked writers since
    pc

vars == <<word, wfresh, dfresh, seen, owner, more, swallowed, pc>>

\* Where a thread is.  Reader: read, rwait, rparked, rwoke, reading.  Writer: spin,
\* sample, test, wwait, wparked, wwoke, then with a reservation drain, dtest, dlate,
\* dwait, dparked, then own, writing, clear.  After a release: bump, wake, wakeall,
\* dbump, dwake.
Draining == {"drain", "dtest", "dlate", "dwait", "dparked"}
Holding == {"own", "writing", "clear"}
Places == Draining \cup Holding
            \cup {"idle", "read", "rwait", "rparked", "rwoke", "reading", "spin", "sample", "test",
                  "wwait", "wparked", "wwoke", "bump", "wake", "wakeall", "dbump", "dwake"}

Init ==
    /\ word = Free
    /\ wfresh = {} /\ dfresh = {}
    /\ seen = [t \in Thread |-> Free]
    /\ owner = None
    /\ more = {}
    /\ swallowed = {}
    /\ pc = [t \in Thread |-> "idle"]

Goto(t, p) == pc' = [pc EXCEPT ![t] = p]

-----------------------------------------------------------------------------
(* Shared *)

lock_shared(t) ==
    /\ t \in Reader /\ pc[t] = "idle"
    /\ Goto(t, "read")
    /\ UNCHANGED <<word, wfresh, dfresh, seen, owner, more, swallowed>>

\* Faulty variant: a reservation that is still draining does not shut readers out.
Admit_WhileDraining(t) ==
    /\ pc[t] = "read" /\ ~(word.locked /\ word.readers = 0)
    /\ word' = [word EXCEPT !.readers = @ + 1]
    /\ Goto(t, "reading")
    /\ UNCHANGED <<wfresh, dfresh, seen, owner, more, swallowed>>

\* try_lock_shared_fast, and the same test in lock_shared_slow.
Admit(t) ==
    /\ pc[t] = "read" /\ ~word.locked
    /\ word' = [word EXCEPT !.readers = @ + 1]
    /\ Goto(t, "reading")
    /\ UNCHANGED <<wfresh, dfresh, seen, owner, more, swallowed>>

\* The reader records in the word that it is about to sleep on it.
AnnounceReader(t) ==
    /\ pc[t] = "read" /\ word.locked
    /\ word' = [word EXCEPT !.rparked = TRUE]
    /\ seen' = [seen EXCEPT ![t] = word']
    /\ Goto(t, "rwait")
    /\ UNCHANGED <<wfresh, dfresh, owner, more, swallowed>>

\* futex_wait on the state word sleeps only if the word is still the one seen.
ParkReader(t) ==
    /\ pc[t] = "rwait"
    /\ Goto(t, IF word = seen[t] THEN "rparked" ELSE "read")
    /\ seen' = [seen EXCEPT ![t] = Free]
    /\ UNCHANGED <<word, wfresh, dfresh, owner, more, swallowed>>

ReaderAgain(t) ==
    /\ pc[t] = "rwoke"
    /\ Goto(t, "read")
    /\ UNCHANGED <<word, wfresh, dfresh, seen, owner, more, swallowed>>

\* The deadline is looked at before and after the sleep; the bit stays.
ReaderTimeout(t) ==
    /\ t \in Timed /\ pc[t] \in {"rwait", "rparked", "rwoke"}
    /\ Goto(t, "idle")
    /\ seen' = [seen EXCEPT ![t] = Free]
    /\ UNCHANGED <<word, wfresh, dfresh, owner, more, swallowed>>

\* The last reader before a reserved writer tells it.  (The code has a second branch,
\* for WRITERS_PARKED without WRITE_LOCKED: GatesNeedReservation.)
unlock_shared(t) ==
    /\ pc[t] = "reading"
    /\ word' = [word EXCEPT !.readers = @ - 1]
    /\ Goto(t, IF word.readers = 1 /\ word.locked THEN "dbump" ELSE "idle")
    /\ UNCHANGED <<wfresh, dfresh, seen, owner, more, swallowed>>

\* notify_drain
BumpDrain(t) ==
    /\ pc[t] = "dbump"
    /\ dfresh' = {}
    /\ Goto(t, "dwake")
    /\ UNCHANGED <<word, wfresh, seen, owner, more, swallowed>>

WakeDrain(t) ==
    /\ pc[t] = "dwake"
    /\ pc' = [s \in Thread |-> IF s = t THEN "idle"
                               ELSE IF pc[s] = "dparked" THEN "drain" ELSE pc[s]]
    /\ UNCHANGED <<word, wfresh, dfresh, seen, owner, more, swallowed>>

-----------------------------------------------------------------------------
(* Exclusive, before the reservation *)

lock_exclusive(t) ==
    /\ t \in Writer /\ pc[t] = "idle"
    /\ Goto(t, "spin")
    /\ UNCHANGED <<word, wfresh, dfresh, seen, owner, more, swallowed>>

\* The fast path and the spin take a free lock and leave the parked bits alone.
SpinAcquire(t) ==
    /\ pc[t] = "spin" /\ word.readers = 0 /\ ~word.locked
    /\ word' = [word EXCEPT !.locked = TRUE]
    /\ Goto(t, "own")
    /\ UNCHANGED <<wfresh, dfresh, seen, owner, more, swallowed>>

SpinEnds(t) ==
    /\ pc[t] = "spin"
    /\ Goto(t, "sample")
    /\ UNCHANGED <<word, wfresh, dfresh, seen, owner, more, swallowed>>

\* The generation of write_futex is sampled before the state is tested.
SampleWriters(t) ==
    /\ pc[t] = "sample"
    /\ wfresh' = wfresh \cup {t}
    /\ Goto(t, "test")
    /\ UNCHANGED <<word, dfresh, seen, owner, more, swallowed>>

\* Faulty variant: the reservation does not mark that writers may be parked behind it.
Reserve_Unmarked(t) ==
    /\ pc[t] = "test" /\ ~word.locked
    /\ word' = [word EXCEPT !.locked = TRUE]
    /\ Goto(t, IF word.readers = 0 THEN "own" ELSE "drain")
    /\ wfresh' = wfresh \ {t}
    /\ swallowed' = {}
    /\ UNCHANGED <<dfresh, seen, owner, more>>

\* Faulty variant: the reservation is taken for the lock.
Reserve_NoDrain(t) ==
    /\ pc[t] = "test" /\ ~word.locked
    /\ word' = [word EXCEPT !.locked = TRUE, !.wparked = TRUE]
    /\ Goto(t, "own")
    /\ wfresh' = wfresh \ {t}
    /\ swallowed' = {}
    /\ UNCHANGED <<dfresh, seen, owner, more>>

\* Reserve whatever the reader count; the mark of parked writers is set again, since
\* the release that woke this writer took it from those it did not wake.
Reserve(t) ==
    /\ pc[t] = "test" /\ ~word.locked
    /\ word' = [word EXCEPT !.locked = TRUE, !.wparked = TRUE]
    /\ Goto(t, IF word.readers = 0 THEN "own" ELSE "drain")
    /\ wfresh' = wfresh \ {t}
    /\ swallowed' = {}
    /\ UNCHANGED <<dfresh, seen, owner, more>>

AnnounceWriter(t) ==
    /\ pc[t] = "test" /\ word.locked
    /\ word' = [word EXCEPT !.wparked = TRUE]
    /\ Goto(t, "wwait")
    /\ swallowed' = {}
    /\ UNCHANGED <<wfresh, dfresh, seen, owner, more>>

ParkWriter(t) ==
    /\ pc[t] = "wwait"
    /\ Goto(t, IF t \in wfresh THEN "wparked" ELSE "sample")
    /\ wfresh' = wfresh \ {t}
    /\ UNCHANGED <<word, dfresh, seen, owner, more, swallowed>>

WriterAgain(t) ==
    /\ pc[t] = "wwoke"
    /\ Goto(t, "sample")
    /\ UNCHANGED <<word, wfresh, dfresh, seen, owner, more, swallowed>>

\* abandon_before_reserving: the deadline is looked at before and after the sleep.  A
\* writer that leaves after it was woken passes the wake-up on to nobody.
WriterTimeout(t) ==
    /\ t \in Timed /\ pc[t] \in {"wwait", "wparked", "wwoke"}
    /\ Goto(t, "idle")
    /\ wfresh' = wfresh \ {t}
    /\ swallowed' = IF pc[t] = "wwoke" THEN swallowed \cup {t} ELSE swallowed
    /\ UNCHANGED <<word, dfresh, seen, owner, more>>

-----------------------------------------------------------------------------
(* Exclusive, with the reservation (wait_for_drain) *)

SampleDrain(t) ==
    /\ pc[t] = "drain"
    /\ dfresh' = dfresh \cup {t}
    /\ Goto(t, "dtest")
    /\ UNCHANGED <<word, wfresh, seen, owner, more, swallowed>>

\* No reader is left: seen while spinning, after a wake-up, or when giving up.
Drained(t) ==
    /\ pc[t] \in {"drain", "dtest", "dlate"} /\ word.readers = 0
    /\ dfresh' = dfresh \ {t}
    /\ Goto(t, "own")
    /\ UNCHANGED <<word, wfresh, seen, owner, more, swallowed>>

NotDrained(t) ==
    /\ pc[t] = "dtest" /\ word.readers > 0
    /\ Goto(t, "dwait")
    /\ UNCHANGED <<word, wfresh, dfresh, seen, owner, more, swallowed>>

ParkDrain(t) ==
    /\ pc[t] = "dwait"
    /\ Goto(t, IF t \in dfresh THEN "dparked" ELSE "drain")
    /\ dfresh' = dfresh \ {t}
    /\ UNCHANGED <<word, wfresh, seen, owner, more, swallowed>>

\* The deadline has passed: looked at while there are readers, or it ends the sleep.
DrainTimeout(t) ==
    /\ t \in Timed
    /\ \/ pc[t] = "dtest" /\ word.readers > 0 /\ Goto(t, "dlate")
       \/ pc[t] = "dparked" /\ Goto(t, "drain")
    /\ dfresh' = dfresh \ {t}
    /\ UNCHANGED <<word, wfresh, seen, owner, more, swallowed>>

\* What a thread does after it cleared the bits of the word w.
AfterClear(t, w) ==
    /\ Goto(t, IF w.wparked THEN "bump" ELSE IF w.rparked THEN "wakeall" ELSE "idle")
    /\ more' = IF w.wparked /\ w.rparked THEN more \cup {t} ELSE more

\* Faulty variant: the word is reset, readers and all.
GiveUp_Reset(t) ==
    /\ pc[t] = "dlate" /\ word.readers > 0
    /\ word' = Free
    /\ AfterClear(t, word)
    /\ UNCHANGED <<wfresh, dfresh, seen, owner, swallowed>>

\* try_give_up_reservation: the readers stay, both populations get their chance.
GiveUp(t) ==
    /\ pc[t] = "dlate" /\ word.readers > 0
    /\ word' = [Free EXCEPT !.readers = word.readers]
    /\ AfterClear(t, word)
    /\ UNCHANGED <<wfresh, dfresh, seen, owner, swallowed>>

-----------------------------------------------------------------------------
(* Holding and releasing *)

SetOwner(t) ==
    /\ pc[t] = "own"
    /\ owner' = t
    /\ Goto(t, "writing")
    /\ UNCHANGED <<word, wfresh, dfresh, seen, more, swallowed>>

\* unlock_exclusive: the owner first, then the bits in one access.
ClearOwner(t) ==
    /\ pc[t] = "writing"
    /\ owner' = None
    /\ Goto(t, "clear")
    /\ UNCHANGED <<word, wfresh, dfresh, seen, more, swallowed>>

\* Faulty variant: the mark of the parked writers survives the release.
unlock_exclusive_KeepsMark(t) ==
    /\ pc[t] = "clear"
    /\ word' = [word EXCEPT !.locked = FALSE, !.rparked = FALSE]
    /\ AfterClear(t, word)
    /\ UNCHANGED <<wfresh, dfresh, seen, owner, swallowed>>

unlock_exclusive(t) ==
    /\ pc[t] = "clear"
    /\ word' = [word EXCEPT !.locked = FALSE, !.rparked = FALSE, !.wparked = FALSE]
    /\ AfterClear(t, word)
    /\ UNCHANGED <<wfresh, dfresh, seen, owner, swallowed>>

\* notify_one_writer: the generation, then one of those asleep.
BumpWriters(t) ==
    /\ pc[t] = "bump"
    /\ wfresh' = {}
    /\ Goto(t, "wake")
    /\ UNCHANGED <<word, dfresh, seen, owner, more, swallowed>>

WakeWriter(t) ==
    LET parked == {s \in Thread : pc[s] = "wparked"}
        next == IF t \in more THEN "wakeall" ELSE "idle"
    IN  /\ pc[t] = "wake"
        /\ \/ parked = {} /\ Goto(t, next)
           \/ \E s \in parked : pc' = [pc EXCEPT ![t] = next, ![s] = "wwoke"]
        /\ more' = more \ {t}
        /\ UNCHANGED <<word, wfresh, dfresh, seen, owner, swallowed>>

WakeReaders(t) ==
    /\ pc[t] = "wakeall"
    /\ pc' = [s \in Thread |-> IF s = t THEN "idle"
                               ELSE IF pc[s] = "rparked" THEN "rwoke" ELSE pc[s]]
    /\ UNCHANGED <<word, wfresh, dfresh, seen, owner, more, swallowed>>

-----------------------------------------------------------------------------
\* What a thread inside a call, or holding the lock, does next.
Step(t) ==
    \/ Admit(t) \/ AnnounceReader(t) \/ ParkReader(t) \/ ReaderAgain(t) \/ unlock_shared(t)
    \/ BumpDrain(t) \/ WakeDrain(t)
    \/ SpinAcquire(t) \/ SpinEnds(t) \/ SampleWriters(t) \/ Reserve(t) \/ AnnounceWriter(t)
    \/ ParkWriter(t) \/ WriterAgain(t)
    \/ SampleDrain(t) \/ Drained(t) \/ NotDrained(t) \/ ParkDrain(t) \/ GiveUp(t)
    \/ SetOwner(t) \/ ClearOwner(t) \/ unlock_exclusive(t)
    \/ BumpWriters(t) \/ WakeWriter(t) \/ WakeReaders(t)

Timeout(t) == ReaderTimeout(t) \/ WriterTimeout(t) \/ DrainTimeout(t)

Next == \E t \in Thread : lock_shared(t) \/ lock_exclusive(t) \/ Step(t) \/ Timeout(t)

Spec == Init /\ [][Next]_vars

\* A thread that is not asleep goes on, and does not hold the lock for ever.
FairSpec == Spec /\ \A t \in Thread : WF_vars(Step(t))

-----------------------------------------------------------------------------
(* Properties *)

TypeOK ==
    /\ word \in Word
    /\ wfresh \subseteq Thread /\ dfresh \subseteq Thread /\ more \subseteq Thread
    /\ swallowed \subseteq Thread
    /\ seen \in [Thread -> Word]
    /\ owner \in Thread \cup {None}
    /\ pc \in [Thread -> Places]

\* What the unsafe impl of lock_api::RawRwLock promises: a writer that returned from
\* lock_exclusive, by the spin, the reservation, the drain or a give-up that came too
\* late, is alone with the data until it clears the word.
Exclusion ==
    \A t, s \in Thread : t # s /\ pc[t] \in Holding => pc[s] \notin Holding \cup {"reading"}

\* A parked bit is set only while WRITE_LOCKED is ("the gate-bit invariant" of
\* lock_exclusive_slow): a free lock is the word 0, and the branch of unlock_shared
\* for parked writers behind readers alone is never taken.
GatesNeedReservation == word.rparked \/ word.wparked => word.locked

\* No wake-up is lost: whoever sleeps has a mark in the word that the next release
\* reads, or a thread on its way that will wake it or set the mark again.  The one
\* exception the code has: a writer that is woken and finds its deadline passed keeps
\* the wake-up to itself, and the parked writers wait for the next writer to contend.
ReadersWillWake ==
    \A t \in Thread : pc[t] = "rparked" =>
        \/ word.locked /\ word.rparked
        \/ \E s \in Thread : pc[s] = "wakeall" \/ s \in more
WritersWillWake ==
    \A t \in Thread : pc[t] = "wparked" =>
        \/ word.locked /\ word.wparked
        \/ \E s \in Thread : pc[s] \in {"bump", "wake", "wwoke", "sample", "test"}
        \/ swallowed # {}
DrainWillWake ==
    \A t \in Thread : pc[t] = "dparked" =>
        word.readers > 0 \/ \E s \in Thread : pc[s] \in {"dbump", "dwake"}
NoLostWake == ReadersWillWake /\ WritersWillWake /\ DrainWillWake

\* A reserved writer gets the lock or gives up, whatever readers keep coming: those
\* inside leave, and none is let in.
DrainEnds == \A t \in Thread : pc[t] \in Draining ~> pc[t] \notin Draining
=============================================================================
