------------------------- MODULE LockManagerProofs --------------------------
(***************************************************************************)
(* For every number of lockers and LSNs, every sharing group, every set of *)
(* requested types and both timeout settings: the lock manager's state is  *)
(* well typed and the owners of an LSN are pairwise compatible.            *)
(***************************************************************************)
EXTENDS LockManager, SequenceTheorems, TLAPS

-----------------------------------------------------------------------------
(* The matrices *)

\* A lock the matrix admits beside another admits it in return.
LEMMA ConflictSymmetric ==
  ASSUME NEW s \in LockTypes, NEW t \in LockTypes,
         get_conflict(s, t) = "Allow"
  PROVE  get_conflict(t, s) = "Allow"
BY DEF LockTypes, get_conflict, is_write_lock, causes_restart

\* A promotion is checked against the requested type, not against the type it
\* leads to; what the holder already excludes makes up for the difference.
LEMMA UpgradeKeepsCompatible ==
  ASSUME NEW o \in LockTypes, NEW h \in LockTypes, NEW t \in LockTypes,
         get_conflict(o, h) = "Allow", get_conflict(o, t) = "Allow",
         get_upgrade(h, t) # "Illegal"
  PROVE  get_conflict(o, get_upgrade(h, t)) = "Allow"
BY DEF LockTypes, get_conflict, get_upgrade, is_write_lock, causes_restart

\* A demoted write lock conflicts with nothing it did not conflict with before.
LEMMA DemoteKeepsCompatible ==
  ASSUME NEW o \in LockTypes
  PROVE  /\ get_conflict(o, "Write") = "Allow" => get_conflict(o, "Read") = "Allow"
         /\ get_conflict(o, "RangeWrite") = "Allow" => get_conflict(o, "RangeRead") = "Allow"
BY DEF LockTypes, get_conflict, is_write_lock, causes_restart

LEMMA UpgradeType ==
  ASSUME NEW h \in LockTypes, NEW t \in LockTypes, get_upgrade(h, t) # "Illegal"
  PROVE  get_upgrade(h, t) \in LockTypes
BY DEF LockTypes, get_upgrade, is_write_lock, causes_restart

LEMMA ConflictValues ==
  ASSUME NEW s \in LockTypes, NEW t \in LockTypes
  PROVE  get_conflict(s, t) \in {"Allow", "Block", "Restart"}
BY DEF LockTypes, get_conflict, is_write_lock, causes_restart

LEMMA SharesSymmetric ==
  ASSUME NEW l, NEW m, shares_fn(l, m)
  PROVE  shares_fn(m, l)
BY DEF shares_fn

-----------------------------------------------------------------------------
(* Operations on one lock: types *)

LEMMA NewType == new \in Lock
<1>1. <<>> \in Seq(WaiterInfo)
  OBVIOUS
<1> QED BY <1>1 DEF new, Lock, Opt

LEMMA AddOwnerType ==
  ASSUME NEW lk \in Lock, NEW info \in Info
  PROVE  add_owner(lk, info) \in Lock
BY DEF add_owner, Lock, Opt

LEMMA FlushOwnerType ==
  ASSUME NEW lk \in Lock, NEW l
  PROVE  flush_owner(lk, l) \in Lock
BY DEF flush_owner, Lock, Opt

LEMMA RetypeType ==
  ASSUME NEW S \in SUBSET Info, NEW l, NEW t \in LockTypes
  PROVE  Retype(S, l, t) \in SUBSET Info
BY DEF Retype, Info

LEMMA UpdateOwnerTypeType ==
  ASSUME NEW lk \in Lock, NEW l, NEW t \in LockTypes
  PROVE  update_owner_type(lk, l, t) \in Lock
<1>1. lk.first_owner \in SUBSET Info /\ lk.owner_set \in SUBSET Info
  BY DEF Lock, Opt
<1>2. Retype(lk.first_owner, l, t) \in Opt(Info)
  <2>1. CASE lk.first_owner = {}
    BY <2>1 DEF Retype, Opt
  <2>2. ASSUME NEW x \in Info, lk.first_owner = {x}
        PROVE  Retype(lk.first_owner, l, t) \in Opt(Info)
    <3>1. Retype(lk.first_owner, l, t) = {IF x.locker = l THEN [x EXCEPT !.type = t] ELSE x}
      BY <2>2 DEF Retype
    <3>2. (IF x.locker = l THEN [x EXCEPT !.type = t] ELSE x) \in Info
      BY <2>2 DEF Info
    <3> QED BY <3>1, <3>2 DEF Opt
  <2> QED BY <2>1, <2>2 DEF Lock, Opt
<1>3. Retype(lk.owner_set, l, t) \in SUBSET Info
  BY <1>1, RetypeType
<1> QED BY <1>2, <1>3 DEF update_owner_type, Lock

LEMMA DemoteType ==
  ASSUME NEW lk \in Lock, NEW l
  PROVE  demote(lk, l) \in Lock
BY UpdateOwnerTypeType DEF demote, LockTypes

LEMMA StealType ==
  ASSUME NEW lk \in Lock, NEW l, NEW P
  PROVE  steal_lock_preemptable(lk, l, P) \in Lock
<1> DEFINE Keep(S) == {o \in S : o.locker \notin StolenFrom(lk, l, P)}
<1>1. Keep(lk.first_owner) \in Opt(Info)
  BY DEF Lock, Opt
<1>2. Keep(lk.owner_set) \in SUBSET Info
  BY DEF Lock
<1>3. steal_lock_preemptable(lk, l, P) =
        [lk EXCEPT !.first_owner = Keep(lk.first_owner), !.owner_set = Keep(lk.owner_set)]
  BY DEF steal_lock_preemptable, Lock
<1> HIDE DEF Keep
<1> QED BY <1>1, <1>2, <1>3 DEF Lock

LEMMA EndOfListType ==
  ASSUME NEW lk \in Lock, NEW w \in WaiterInfo
  PROVE  add_waiter_to_end_of_list(lk, w) \in Lock
<1>1. Append(lk.waiter_list, w) \in Seq(WaiterInfo) /\ <<w>> \in Seq(WaiterInfo)
  BY AppendProperties DEF Lock
<1> QED BY <1>1 DEF add_waiter_to_end_of_list, Lock, Opt

LEMMA HeadOfListType ==
  ASSUME NEW lk \in Lock, NEW w \in WaiterInfo
  PROVE  add_waiter_to_head_of_list(lk, w) \in Lock
<1> DEFINE f == CHOOSE x \in lk.first_waiter : TRUE
           s == IF lk.first_waiter = {} THEN lk.waiter_list ELSE <<f>> \o lk.waiter_list
<1>1. lk.first_waiter # {} => f \in WaiterInfo
  BY DEF Lock, Opt
<1>2. s \in Seq(WaiterInfo)
  <2>1. CASE lk.first_waiter = {}
    BY <2>1 DEF Lock
  <2>2. CASE lk.first_waiter # {}
    <3>1. <<f>> \in Seq(WaiterInfo) /\ lk.waiter_list \in Seq(WaiterInfo)
      BY <1>1, <2>2 DEF Lock
    <3> QED BY <3>1, <2>2, ConcatProperties
  <2> QED BY <2>1, <2>2
<1>3. add_waiter_to_head_of_list(lk, w) =
        [lk EXCEPT !.waiter_list = s, !.list_made = @ \/ lk.first_waiter # {},
                   !.first_waiter = {w}]
  BY DEF add_waiter_to_head_of_list, Lock
<1> HIDE DEF s
<1>4. (lk.list_made \/ lk.first_waiter # {}) \in BOOLEAN
  BY DEF Lock
<1> QED BY <1>2, <1>3, <1>4 DEF Lock, Opt

LEMMA FlushWaiterType ==
  ASSUME NEW lk \in Lock, NEW l
  PROVE  flush_waiter(lk, l) \in Lock
<1>1. CASE \E w \in lk.first_waiter : w.locker = l
  BY <1>1 DEF flush_waiter, Lock, Opt
<1>2. CASE /\ ~ \E w \in lk.first_waiter : w.locker = l
           /\ \E i \in 1 .. Len(lk.waiter_list) : lk.waiter_list[i].locker = l
  <2> DEFINE i == CHOOSE i \in 1 .. Len(lk.waiter_list) : lk.waiter_list[i].locker = l
             s == SubSeq(lk.waiter_list, 1, i - 1)
                    \o SubSeq(lk.waiter_list, i + 1, Len(lk.waiter_list))
  <2>1. i \in 1 .. Len(lk.waiter_list)
    BY <1>2
  <2>2. lk.waiter_list \in Seq(WaiterInfo) /\ Len(lk.waiter_list) \in Nat
    BY DEF Lock
  <2>3. /\ SubSeq(lk.waiter_list, 1, i - 1) \in Seq(WaiterInfo)
        /\ SubSeq(lk.waiter_list, i + 1, Len(lk.waiter_list)) \in Seq(WaiterInfo)
    <3> HIDE DEF i
    <3>1. i \in Nat /\ 1 <= i /\ i <= Len(lk.waiter_list)
      BY <2>1, <2>2
    <3>2. \A j \in 1 .. i - 1 : lk.waiter_list[j] \in WaiterInfo
      BY <3>1, <2>2, ElementOfSeq
    <3>3. \A j \in i + 1 .. Len(lk.waiter_list) : lk.waiter_list[j] \in WaiterInfo
      BY <3>1, <2>2, ElementOfSeq
    <3> QED BY <3>1, <3>2, <3>3, <2>2, SubSeqProperties
  <2>4. s \in Seq(WaiterInfo)
    BY <2>3, ConcatProperties
  <2>5. flush_waiter(lk, l) = [lk EXCEPT !.waiter_list = s]
    BY <1>2 DEF flush_waiter, Lock
  <2> HIDE DEF s
  <2> QED BY <2>4, <2>5 DEF Lock
<1>3. CASE /\ ~ \E w \in lk.first_waiter : w.locker = l
           /\ ~ \E i \in 1 .. Len(lk.waiter_list) : lk.waiter_list[i].locker = l
  BY <1>3 DEF flush_waiter
<1> QED BY <1>1, <1>2, <1>3

LEMMA PopWaiterType ==
  ASSUME NEW lk \in Lock, NextWaiter(lk) # {}
  PROVE  PopWaiter(lk) \in Lock
<1>1. CASE lk.first_waiter # {}
  BY <1>1 DEF PopWaiter, Lock, Opt
<1>2. CASE lk.first_waiter = {}
  <2>1. lk.waiter_list \in Seq(WaiterInfo) /\ lk.waiter_list # <<>>
    BY <1>2 DEF NextWaiter, Lock
  <2>2. Tail(lk.waiter_list) \in Seq(WaiterInfo)
    BY <2>1, HeadTailProperties
  <2> QED BY <1>2, <2>2 DEF PopWaiter, Lock
<1> QED BY <1>1, <1>2

LEMMA NextWaiterType ==
  ASSUME NEW lk \in Lock, NEW w \in NextWaiter(lk)
  PROVE  w \in WaiterInfo
<1>1. CASE lk.first_waiter # {}
  BY <1>1 DEF NextWaiter, Lock, Opt
<1>2. CASE lk.first_waiter = {}
  <2>1. lk.waiter_list \in Seq(WaiterInfo) /\ lk.waiter_list # <<>>
        /\ w = Head(lk.waiter_list)
    BY <1>2 DEF NextWaiter, Lock
  <2> QED BY <2>1, HeadTailProperties
<1> QED BY <1>1, <1>2

-----------------------------------------------------------------------------
(* Operations on one lock: the owners stay compatible *)

LEMMA FewerOwners ==
  ASSUME NEW lk, NEW left, Compatible(lk), Owners(left) \subseteq Owners(lk)
  PROVE  Compatible(left)
BY DEF Compatible

LEMMA AddOwnerOwners ==
  ASSUME NEW lk \in Lock, NEW info
  PROVE  Owners(add_owner(lk, info)) = Owners(lk) \cup {info}
BY DEF add_owner, Owners, Lock, Opt

LEMMA UpdateOwnerTypeOwners ==
  ASSUME NEW lk \in Lock, NEW l, NEW t
  PROVE  Owners(update_owner_type(lk, l, t)) = Retype(Owners(lk), l, t)
<1>1. /\ update_owner_type(lk, l, t).first_owner = Retype(lk.first_owner, l, t)
      /\ update_owner_type(lk, l, t).owner_set = Retype(lk.owner_set, l, t)
  BY DEF update_owner_type, Lock
<1> QED BY <1>1 DEF Owners, Retype

LEMMA OwnersAreInfo ==
  ASSUME NEW lk \in Lock
  PROVE  Owners(lk) \subseteq Info
BY DEF Owners, Lock, Opt

\* A new owner that no foreign owner conflicts with.
LEMMA AddCompatible ==
  ASSUME NEW lk \in Lock, Compatible(lk),
         NEW l \in Locker, NEW t \in LockTypes,
         Owned(lk, l) = {},
         \A o \in Foreign(lk, l, Sharers(l)) : get_conflict(o.type, t) = "Allow"
  PROVE  Compatible(add_owner(lk, [locker |-> l, type |-> t]))
<1> DEFINE info == [locker |-> l, type |-> t]
<1>1. \A o \in Owners(lk) :
        /\ o.locker # l /\ o.locker \in Locker /\ o.type \in LockTypes
        /\ \/ shares_fn(l, o.locker) /\ shares_fn(o.locker, l)
           \/ get_conflict(o.type, t) = "Allow" /\ get_conflict(t, o.type) = "Allow"
  <2> TAKE o \in Owners(lk)
  <2>1. o.locker # l
    BY DEF Owned
  <2>2. o.locker \in Locker /\ o.type \in LockTypes
    BY OwnersAreInfo DEF Info
  <2>3. CASE shares_fn(l, o.locker)
    BY <2>1, <2>2, <2>3, SharesSymmetric
  <2>4. CASE ~ shares_fn(l, o.locker)
    <3>1. o \in Foreign(lk, l, Sharers(l))
      BY <2>1, <2>4 DEF Foreign, Sharers
    <3> QED BY <2>1, <2>2, <3>1, ConflictSymmetric
  <2> QED BY <2>3, <2>4
<1>2. Owners(add_owner(lk, info)) = Owners(lk) \cup {info}
  BY AddOwnerOwners
<1>3. info.locker = l /\ info.type = t
  OBVIOUS
<1> HIDE DEF info
<1>4. ASSUME NEW o1 \in Owners(lk) \cup {info}, NEW o2 \in Owners(lk) \cup {info}, o1 # o2
      PROVE  /\ o1.locker # o2.locker
             /\ \/ shares_fn(o1.locker, o2.locker)
                \/ get_conflict(o1.type, o2.type) = "Allow"
  <2>1. CASE o1 \in Owners(lk) /\ o2 \in Owners(lk)
    BY <1>4, <2>1 DEF Compatible
  <2>2. CASE o1 = info /\ o2 \in Owners(lk)
    BY <1>1, <1>3, <2>2
  <2>3. CASE o2 = info /\ o1 \in Owners(lk)
    BY <1>1, <1>3, <2>3
  <2> QED BY <1>4, <2>1, <2>2, <2>3
<1> QED BY <1>2, <1>4 DEF Compatible, info

\* An owner whose type changes to one that no foreign owner conflicts with.
LEMMA RetypeCompatible ==
  ASSUME NEW lk \in Lock, Compatible(lk),
         NEW l \in Locker, NEW t \in LockTypes,
         \A o \in Owners(lk) : o.locker # l =>
            \/ shares_fn(l, o.locker)
            \/ get_conflict(o.type, t) = "Allow"
  PROVE  Compatible(update_owner_type(lk, l, t))
<1> DEFINE new_(o) == IF o.locker = l THEN [o EXCEPT !.type = t] ELSE o
<1>1. Owners(update_owner_type(lk, l, t)) = {new_(o) : o \in Owners(lk)}
  BY UpdateOwnerTypeOwners DEF Retype
<1>2. \A o \in Owners(lk) :
        /\ o \in Info
        /\ new_(o).locker = o.locker
        /\ new_(o).type = IF o.locker = l THEN t ELSE o.type
  BY OwnersAreInfo DEF Info
<1>3. ASSUME NEW o1 \in Owners(lk), NEW o2 \in Owners(lk), new_(o1) # new_(o2)
      PROVE  /\ new_(o1).locker # new_(o2).locker
             /\ \/ shares_fn(new_(o1).locker, new_(o2).locker)
                \/ get_conflict(new_(o1).type, new_(o2).type) = "Allow"
  <2>0. o1 # o2
    BY <1>3
  <2>1. o1.locker # o2.locker
    BY <2>0 DEF Compatible
  <2>2. CASE o1.locker # l /\ o2.locker # l
    BY <1>2, <2>0, <2>1, <2>2 DEF Compatible
  <2>3. CASE o1.locker = l
    <3>1. o2.locker # l
      BY <2>1, <2>3
    <3>2. o2.type \in LockTypes
      BY <1>2 DEF Info
    <3>3. shares_fn(l, o2.locker) \/ get_conflict(t, o2.type) = "Allow"
      BY <3>1, <3>2, ConflictSymmetric
    <3> HIDE DEF new_
    <3> QED BY <1>2, <2>1, <2>3, <3>1, <3>3
  <2>4. CASE o2.locker = l
    <3>1. o1.locker # l
      BY <2>1, <2>4
    <3>3. shares_fn(o1.locker, l) \/ get_conflict(o1.type, t) = "Allow"
      BY <3>1, SharesSymmetric
    <3> HIDE DEF new_
    <3> QED BY <1>2, <2>1, <2>4, <3>1, <3>3
  <2> QED BY <2>2, <2>3, <2>4
<1> HIDE DEF new_
<1> QED BY <1>1, <1>3 DEF Compatible

\* The type l holds, when it holds one.
LEMMA HeldType ==
  ASSUME NEW lk \in Lock, NEW l, Owned(lk, l) # {}
  PROVE  LET o == CHOOSE o \in Owned(lk, l) : TRUE
         IN o \in Owners(lk) /\ o.locker = l /\ o.type \in LockTypes
BY OwnersAreInfo DEF Owned, Info

\* Whatever try_lock grants leaves the owners compatible: for a request (the
\* requester's sharers are exempt) and for a waiter (nobody is).
LEMMA GrantCompatible ==
  ASSUME NEW lk \in Lock, Compatible(lk),
         NEW l \in Locker, NEW t \in LockTypes,
         NEW inLine, NEW ownFirst \in BOOLEAN,
         NEW sharers, sharers \subseteq Sharers(l),
         GrantOf(lk, l, t, inLine, sharers, ownFirst) \in Granted
  PROVE  LET g == GrantOf(lk, l, t, inLine, sharers, ownFirst)
         IN Grant(lk, l, t, g) \in Lock /\ Compatible(Grant(lk, l, t, g))
<1> DEFINE g == GrantOf(lk, l, t, inLine, sharers, ownFirst)
           foreign == Foreign(lk, l, sharers)
           restarts == \E o \in foreign : get_conflict(o.type, t) = "Restart"
           blocked  == \E o \in foreign : get_conflict(o.type, t) = "Block"
           has == (CHOOSE o \in Owned(lk, l) : TRUE).type
           upgrade == get_upgrade(has, t)
<1>1. \A o \in foreign : get_conflict(o.type, t) \in {"Allow", "Block", "Restart"}
  BY ConflictValues, OwnersAreInfo DEF Foreign, Info
<1>2. CASE g = "New"
  <2>1. Owners(lk) = {} \/ (Owned(lk, l) = {} /\ ~ restarts /\ ~ blocked)
    BY <1>2 DEF GrantOf
  <2>2. Owned(lk, l) = {}
    BY <2>1 DEF Owned
  <2>3. \A o \in Foreign(lk, l, Sharers(l)) : get_conflict(o.type, t) = "Allow"
    BY <1>1, <2>1 DEF Foreign
  <2>4. [locker |-> l, type |-> t] \in Info
    BY DEF Info
  <2>5. Grant(lk, l, t, g) = add_owner(lk, [locker |-> l, type |-> t])
    BY <1>2 DEF Grant
  <2> QED BY <2>2, <2>3, <2>4, <2>5, AddCompatible, AddOwnerType
<1>3. CASE g \in {"Existing", "Promotion"}
  <2>1. /\ Owned(lk, l) # {}
        /\ upgrade # "Illegal"
        /\ upgrade = has \/ (~ restarts /\ ~ blocked)
    BY <1>3 DEF GrantOf
  <2>2. PICK o \in Owners(lk) : o.locker = l /\ o.type = has /\ has \in LockTypes
    BY <2>1, HeldType
  <2>3. upgrade \in LockTypes
    BY <2>1, <2>2, UpgradeType
  <2>4. \A p \in Owners(lk) : p.locker # l =>
          \/ shares_fn(l, p.locker)
          \/ get_conflict(p.type, upgrade) = "Allow"
    <3> SUFFICES ASSUME NEW p \in Owners(lk), p.locker # l, ~ shares_fn(l, p.locker)
                 PROVE  get_conflict(p.type, upgrade) = "Allow"
      OBVIOUS
    <3>1. p.type \in LockTypes
      BY OwnersAreInfo DEF Info
    <3>2. get_conflict(p.type, has) = "Allow"
      <4>1. p # o
        BY <2>2
      <4>2. ~ shares_fn(p.locker, o.locker)
        BY <2>2, SharesSymmetric
      <4> QED BY <2>2, <4>1, <4>2 DEF Compatible
    <3>3. CASE upgrade = has
      BY <3>2, <3>3
    <3>4. CASE ~ restarts /\ ~ blocked
      <4>1. p \in foreign
        BY DEF Foreign, Sharers
      <4>2. get_conflict(p.type, t) = "Allow"
        BY <1>1, <3>4, <4>1
      <4> QED BY <2>1, <2>2, <3>1, <3>2, <4>2, UpgradeKeepsCompatible
    <3> QED BY <2>1, <3>3, <3>4
  <2>5. Grant(lk, l, t, g) = update_owner_type(lk, l, upgrade)
    BY <1>3 DEF Grant
  <2> QED BY <2>3, <2>4, <2>5, RetypeCompatible, UpdateOwnerTypeType
<1> QED BY <1>2, <1>3 DEF Granted

\* Operators that touch the waiters leave the owners alone.
LEMMA WaiterOwners ==
  ASSUME NEW lk \in Lock, NEW w, NEW l
  PROVE  /\ Owners(add_waiter_to_end_of_list(lk, w)) = Owners(lk)
         /\ Owners(add_waiter_to_head_of_list(lk, w)) = Owners(lk)
         /\ Owners(flush_waiter(lk, l)) = Owners(lk)
         /\ Owners(PopWaiter(lk)) = Owners(lk)
<1>1. Owners(add_waiter_to_end_of_list(lk, w)) = Owners(lk)
  BY DEF Owners, add_waiter_to_end_of_list, Lock
<1>2. Owners(add_waiter_to_head_of_list(lk, w)) = Owners(lk)
  BY DEF Owners, add_waiter_to_head_of_list, Lock
<1>3. Owners(flush_waiter(lk, l)) = Owners(lk)
  BY DEF Owners, flush_waiter, Lock
<1>4. Owners(PopWaiter(lk)) = Owners(lk)
  BY DEF Owners, PopWaiter, Lock
<1> QED BY <1>1, <1>2, <1>3, <1>4

\* What both invariants together say of one lock.
Sound(lk) == lk \in Lock /\ Compatible(lk)

LEMMA NewSound == Sound(new)
BY NewType DEF Sound, Compatible, Owners, new

LEMMA FlushWaiterSound ==
  ASSUME NEW lk, Sound(lk), NEW l
  PROVE  Sound(flush_waiter(lk, l))
BY FlushWaiterType, WaiterOwners, FewerOwners DEF Sound

LEMMA FlushOwnerSound ==
  ASSUME NEW lk, Sound(lk), NEW l
  PROVE  Sound(flush_owner(lk, l))
<1>1. lk \in Lock
  BY DEF Sound
<1>2. Owners(flush_owner(lk, l)) \subseteq Owners(lk)
  BY <1>1 DEF flush_owner, Owners, Lock
<1> QED BY <1>1, <1>2, FlushOwnerType, FewerOwners DEF Sound

LEMMA StealSound ==
  ASSUME NEW lk, Sound(lk), NEW l, NEW P
  PROVE  Sound(steal_lock_preemptable(lk, l, P))
<1>1. lk \in Lock
  BY DEF Sound
<1>2. Owners(steal_lock_preemptable(lk, l, P)) \subseteq Owners(lk)
  BY <1>1 DEF steal_lock_preemptable, Owners, Lock
<1> QED BY <1>1, <1>2, StealType, FewerOwners DEF Sound

LEMMA StoredSound ==
  ASSUME NEW lk, Sound(lk)
  PROVE  Sound(Stored(lk))
BY NewSound DEF Stored

LEMMA DemoteSound ==
  ASSUME NEW lk, Sound(lk), NEW l \in Locker
  PROVE  Sound(demote(lk, l))
<1>1. lk \in Lock /\ Compatible(lk)
  BY DEF Sound
<1>2. ASSUME NEW s \in LockTypes, NEW t \in LockTypes, is_owner(lk, l, s),
             \A x \in LockTypes : get_conflict(x, s) = "Allow" => get_conflict(x, t) = "Allow"
      PROVE  Compatible(update_owner_type(lk, l, t))
  <2>1. PICK o \in Owners(lk) : o.locker = l /\ o.type = s
    BY <1>2 DEF is_owner, Owned
  <2>2. ASSUME NEW p \in Owners(lk), p.locker # l
        PROVE  shares_fn(l, p.locker) \/ get_conflict(p.type, t) = "Allow"
    <3>1. shares_fn(p.locker, l) \/ get_conflict(p.type, s) = "Allow"
      BY <1>1, <2>1, <2>2 DEF Compatible
    <3>2. p.type \in LockTypes
      BY <1>1, OwnersAreInfo DEF Info
    <3> QED BY <3>1, <3>2, <1>2, SharesSymmetric
  <2> QED BY <1>1, <2>2, RetypeCompatible
<1>3. {"Read", "Write", "RangeRead", "RangeWrite"} \subseteq LockTypes
  BY DEF LockTypes
<1>4. Compatible(demote(lk, l))
  <2>1. CASE is_owner(lk, l, "RangeWrite")
    BY <1>2, <1>3, <2>1, DemoteKeepsCompatible DEF demote
  <2>2. CASE ~ is_owner(lk, l, "RangeWrite") /\ is_owner(lk, l, "Write")
    BY <1>2, <1>3, <2>2, DemoteKeepsCompatible DEF demote
  <2>3. CASE ~ is_owner(lk, l, "RangeWrite") /\ ~ is_owner(lk, l, "Write")
    BY <1>1, <2>3 DEF demote
  <2> QED BY <2>1, <2>2, <2>3
<1> QED BY <1>1, <1>4, DemoteType DEF Sound

\* A request is answered soundly, whether it is granted, queued or refused.
LEMMA AnswerSound ==
  ASSUME NEW lk, Sound(lk), NEW l \in Locker, NEW t \in LockTypes,
         NEW ownFirst \in BOOLEAN, NEW nonBlocking
  PROVE  Sound(AfterAnswer(lk, l, t, Answer(lk, l, t, ownFirst), nonBlocking))
<1> DEFINE g == GrantOf(lk, l, t, NoWaiters(lk), Sharers(l), ownFirst)
           a == Answer(lk, l, t, ownFirst)
<1>1. lk \in Lock /\ Compatible(lk)
  BY DEF Sound
<1>2. CASE a \in Waits
  <2>1. /\ [locker |-> l, type |-> t] \in WaiterInfo
        /\ [locker |-> l, type |-> "Restart"] \in WaiterInfo
    BY DEF WaiterInfo
  <2> HIDE DEF a
  <2>2. Sound(Enqueue(lk, l, t, a))
    <3>1. Enqueue(lk, l, t, a) \in Lock
      BY <1>1, <2>1, EndOfListType, HeadOfListType DEF Enqueue
    <3>2. Owners(Enqueue(lk, l, t, a)) = Owners(lk)
      BY <1>1, WaiterOwners DEF Enqueue
    <3> QED BY <1>1, <3>1, <3>2, FewerOwners DEF Sound
  <2>3. Sound(AfterAnswer(lk, l, t, a, nonBlocking))
    BY <1>2, <2>2 DEF AfterAnswer
  <2> QED BY <2>3 DEF a
<1>3. CASE a \notin Waits
  <2>1. a = g
    BY <1>3 DEF Answer, Waits
  <2>2. AfterAnswer(lk, l, t, a, nonBlocking) = Grant(lk, l, t, a)
    BY <1>3 DEF AfterAnswer
  <2>3. CASE g \in Granted
    BY <1>1, <2>1, <2>2, <2>3, GrantCompatible DEF Sound
  <2>4. CASE g \notin Granted
    <3> HIDE DEF g
    <3>1. Grant(lk, l, t, g) = lk
      BY <2>4 DEF Grant, Granted
    <3> QED BY <2>1, <2>2, <3>1
  <2> QED BY <2>3, <2>4
<1> QED BY <1>2, <1>3

\* A hand-over by the release loop is sound.
LEMMA GrantWaiterSound ==
  ASSUME NEW lk, Sound(lk), NEW w \in NextWaiter(lk), NEW releaser,
         NEW ownFirst \in BOOLEAN,
         WaiterGrant(lk, w, releaser, ownFirst) \in Granted
  PROVE  Sound(GrantWaiter(lk, w, WaiterGrant(lk, w, releaser, ownFirst)))
<1> DEFINE g == WaiterGrant(lk, w, releaser, ownFirst)
           given == IF w.type = "Restart" THEN lk ELSE Grant(lk, w.locker, w.type, g)
<1>1. lk \in Lock /\ Compatible(lk)
  BY DEF Sound
<1>2. w.locker \in Locker /\ w.type \in LockTypes \cup {"Restart"}
  BY <1>1, NextWaiterType DEF WaiterInfo
<1>3. given \in Lock /\ Compatible(given)
  <2>1. CASE w.type = "Restart"
    BY <1>1, <2>1
  <2>2. CASE w.type # "Restart"
    <3>1. g = GrantOf(lk, w.locker, w.type, TRUE, {}, ownFirst)
      BY <2>2 DEF WaiterGrant
    <3>2. GrantOf(lk, w.locker, w.type, TRUE, {}, ownFirst) \in Granted
      BY <3>1
    <3>3. {} \subseteq Sharers(w.locker)
      OBVIOUS
    <3>4. w.type \in LockTypes
      BY <1>2, <2>2
    <3> QED BY <1>1, <1>2, <2>2, <3>1, <3>2, <3>3, <3>4, GrantCompatible
  <2> QED BY <2>1, <2>2
<1>4. NextWaiter(given) = NextWaiter(lk)
  <2> HIDE DEF g
  <2> QED BY <1>1 DEF NextWaiter, Grant, add_owner, update_owner_type, Lock
<1>5. PopWaiter(given) \in Lock
  BY <1>3, <1>4, PopWaiterType
<1>6. Owners(PopWaiter(given)) = Owners(given)
  BY <1>3, WaiterOwners
<1>7. GrantWaiter(lk, w, g) = PopWaiter(given)
  BY DEF GrantWaiter
<1> HIDE DEF given
<1> QED BY <1>3, <1>5, <1>6, <1>7, FewerOwners DEF Sound

-----------------------------------------------------------------------------
(* The inductive invariant and its preservation, one lemma per action *)

Inv == TypeOK /\ OwnersCompatible

\* The caller's two sets of recorded LSNs.
RecordedType ==
  /\ read_locks \in [Locker -> SUBSET Lsn]
  /\ write_locks \in [Locker -> SUBSET Lsn]

\* What TypeOK says of the recorded sets, and that they keep it when unchanged.
LEMMA RecordedKept ==
  ASSUME Inv
  PROVE  RecordedType /\ (UNCHANGED recorded => RecordedType')
BY DEF Inv, TypeOK, RecordedType, recorded

\* Every lock of the table is sound: Inv's two statements about lock_tables.
LEMMA TableSound ==
  ASSUME Inv, NEW n \in Lsn
  PROVE  Sound(lock_tables[n])
BY DEF Inv, TypeOK, OwnersCompatible, Sound

\* A step that stores a sound lock for one LSN keeps the table sound.
LEMMA StoreSound ==
  ASSUME Inv, NEW n \in Lsn, NEW lk, Sound(lk),
         lock_tables' = [lock_tables EXCEPT ![n] = lk]
  PROVE  lock_tables' \in [Lsn -> Lock] /\ OwnersCompatible'
BY DEF Inv, TypeOK, OwnersCompatible, Sound

LEMMA NoCallType == NoCall \in Call
BY DEF NoCall, Call, CallRecord, LockTypes, Waits, Lsn

LEMMA ReturnGrantedType ==
  ASSUME Inv, NEW l \in Locker, NEW n \in Lsn, NEW t, ReturnGranted(l, n, t)
  PROVE  /\ call' \in [Locker -> Call]
         /\ txn' \in [Locker -> {"Open", "MustAbort", "Ending", "Ended"}]
         /\ RecordedType'
BY NoCallType DEF Inv, TypeOK, ReturnGranted, RecordedType

LEMMA ReturnErrorType ==
  ASSUME Inv, NEW l \in Locker, NEW e, ReturnError(l, e)
  PROVE  /\ call' \in [Locker -> Call]
         /\ txn' \in [Locker -> {"Open", "MustAbort", "Ending", "Ended"}]
         /\ RecordedType'
BY NoCallType, RecordedKept DEF Inv, TypeOK, ReturnError

\* Steps that change nothing but a locker's call.
LEMMA CallOnly ==
  ASSUME Inv, call' \in [Locker -> Call],
         UNCHANGED <<lock_tables, shard, waiter_graph, preempted, granted, txn, recorded>>
  PROVE  Inv'
BY DEF Inv, TypeOK, OwnersCompatible, recorded

LEMMA AttemptInv ==
  ASSUME Inv, NEW l \in Locker, NEW n \in Lsn, NEW t \in LockTypes,
         NEW nonBlocking \in BOOLEAN, NEW denied \in Call,
         Attempt(l, n, t, nonBlocking, denied)
  PROVE  Inv'
<1> DEFINE lk == lock_tables[n]
<1>1. PICK ownFirst \in BOOLEAN :
        LET g == Answer(lk, l, t, ownFirst)
        IN /\ lock_tables' = [lock_tables EXCEPT ![n] = AfterAnswer(lk, l, t, g, nonBlocking)]
           /\ \/ g \in Granted /\ ReturnGranted(l, n, t) /\ UNCHANGED granted
              \/ g = "IllegalUpgrade" /\ ReturnError(l, g) /\ UNCHANGED granted
              \/ /\ g \in Waits /\ nonBlocking
                 /\ call' = [call EXCEPT ![l] = denied]
                 /\ UNCHANGED <<granted, txn, recorded>>
              \/ /\ g \in Waits /\ ~ nonBlocking
                 /\ granted' = [granted EXCEPT ![l] = FALSE]
                 /\ call' = [call EXCEPT ![l] =
                      [NoCall EXCEPT !.pc = "queued", !.lsn = n, !.type = t,
                                     !.wait = g, !.owner_ids = OwnerIds(lk)]]
                 /\ UNCHANGED <<txn, recorded>>
  BY DEF Attempt
<1> DEFINE g == Answer(lk, l, t, ownFirst)
<1>2. lock_tables' \in [Lsn -> Lock] /\ OwnersCompatible'
  <2>1. Sound(AfterAnswer(lk, l, t, g, nonBlocking))
    BY TableSound, AnswerSound
  <2> QED BY <1>1, <2>1, StoreSound
<1>3. UNCHANGED <<shard, waiter_graph, preempted>>
  BY DEF Attempt
<1>4. /\ granted' \in [Locker -> BOOLEAN]
      /\ call' \in [Locker -> Call]
      /\ txn' \in [Locker -> {"Open", "MustAbort", "Ending", "Ended"}]
      /\ RecordedType'
  <2> HIDE DEF g
  <2>1. CASE ReturnGranted(l, n, t) /\ UNCHANGED granted
    BY <2>1, ReturnGrantedType DEF Inv, TypeOK
  <2>2. CASE ReturnError(l, g) /\ UNCHANGED granted
    BY <2>2, ReturnErrorType DEF Inv, TypeOK
  <2>3. CASE call' = [call EXCEPT ![l] = denied] /\ UNCHANGED <<granted, txn, recorded>>
    BY <2>3, RecordedKept DEF Inv, TypeOK
  <2>4. CASE /\ g \in Waits
             /\ granted' = [granted EXCEPT ![l] = FALSE]
             /\ call' = [call EXCEPT ![l] =
                  [NoCall EXCEPT !.pc = "queued", !.lsn = n, !.type = t,
                                 !.wait = g, !.owner_ids = OwnerIds(lk)]]
             /\ UNCHANGED <<txn, recorded>>
    <3>1. OwnerIds(lk) \in SUBSET Locker
      BY TableSound, OwnersAreInfo DEF Sound, OwnerIds, Info
    <3> HIDE DEF lk
    <3>2. [NoCall EXCEPT !.pc = "queued", !.lsn = n, !.type = t,
                         !.wait = g, !.owner_ids = OwnerIds(lk)] \in Call
      BY <2>4, <3>1, NoCallType DEF Call, CallRecord, WaitPcs
    <3> QED BY <2>4, <3>2, RecordedKept DEF Inv, TypeOK
  <2> QED BY <1>1, <2>1, <2>2, <2>3, <2>4 DEF g
<1> QED BY <1>2, <1>3, <1>4 DEF Inv, TypeOK, RecordedType

\* The entry of lock_with_timeout_and_txn, in whichever request.
LEMMA EntryInv ==
  ASSUME Inv, NEW l \in Locker, NEW n \in Lsn, NEW t \in LockTypes,
         NEW nonBlocking \in BOOLEAN, NEW denied \in Call,
         lock_with_timeout_and_txn(l, n, t, nonBlocking, denied)
  PROVE  Inv'
<1>1. CASE l \in preempted
  <2>1. /\ ReturnError(l, "LockPreempted")
        /\ UNCHANGED <<lock_tables, shard, waiter_graph, preempted, granted>>
    BY <1>1 DEF lock_with_timeout_and_txn
  <2>2. /\ call' \in [Locker -> Call]
        /\ txn' \in [Locker -> {"Open", "MustAbort", "Ending", "Ended"}]
        /\ RecordedType'
    BY <2>1, ReturnErrorType
  <2> QED BY <2>1, <2>2 DEF Inv, TypeOK, OwnersCompatible, RecordedType
<1>2. CASE l \notin preempted
  BY <1>2, AttemptInv DEF lock_with_timeout_and_txn
<1> QED BY <1>1, <1>2

LEMMA RequestInv ==
  ASSUME Inv, NEW l \in Locker, NEW n \in Lsn, NEW t \in RequestTypes,
         NEW nonBlocking \in BOOLEAN, Request(l, n, t, nonBlocking)
  PROVE  Inv'
<1>1. t \in LockTypes
  BY RequestAssumption
<1> QED BY <1>1, EntryInv, NoCallType DEF Request

LEMMA ImportunateRequestInv ==
  ASSUME Inv, NEW l \in Locker, NEW n \in Lsn, NEW t \in RequestTypes,
         ImportunateRequest(l, n, t)
  PROVE  Inv'
<1>1. t \in LockTypes
  BY RequestAssumption
<1>2. [NoCall EXCEPT !.pc = "steal", !.lsn = n, !.type = t] \in Call
  BY <1>1, NoCallType DEF Call, CallRecord
<1> QED BY <1>1, <1>2, EntryInv DEF ImportunateRequest

\* What a locker's call holds, whatever the step is.
LEMMA CallFields ==
  ASSUME Inv, NEW l \in Locker
  PROVE  /\ call[l] \in Call
         /\ call[l].type \in LockTypes
         /\ call[l].outcome \in Errors \cup {"Granted"}
         /\ call[l].owner_ids \in SUBSET Locker
         /\ call[l].counted \in Nat
         /\ call[l].counts \in [Locker -> Nat]
         /\ call[l].pc # "idle" => call[l].lsn \in Lsn
BY DEF Inv, TypeOK, Call, CallRecord

LEMMA OwnerIdsType ==
  ASSUME Inv, NEW n \in Lsn
  PROVE  OwnerIds(lock_tables[n]) \in SUBSET Locker
BY TableSound, OwnersAreInfo DEF Sound, OwnerIds, Info

LEMMA ProbeInv ==
  ASSUME Inv, NEW l \in Locker, NEW n \in Lsn, Probe(l, n)
  PROVE  Inv'
<1>1. [NoCall EXCEPT !.pc = "probed", !.lsn = n] \in Call
  BY NoCallType DEF Call, CallRecord
<1>2. call' \in [Locker -> Call]
  BY <1>1 DEF Probe, Inv, TypeOK
<1> QED BY <1>2, CallOnly DEF Probe

LEMMA ProbedReadInv ==
  ASSUME Inv, NEW l \in Locker, ProbedRead(l)
  PROVE  Inv'
<1>1. call[l].lsn \in Lsn /\ call[l] \in Call /\ call[l].pc = "probed"
  BY CallFields DEF ProbedRead
<1>2. [call[l] EXCEPT !.pc = "fallback"] \in Call
  BY <1>1 DEF Call, CallRecord
<1>3. "Read" \in LockTypes
  BY DEF LockTypes
<1> QED BY <1>1, <1>2, <1>3, EntryInv DEF ProbedRead

LEMMA StealInv ==
  ASSUME Inv, NEW l \in Locker, Steal(l)
  PROVE  Inv'
<1> DEFINE n    == call[l].lsn
           t    == call[l].type
           lk   == flush_waiter(lock_tables[n], l)
           left == steal_lock_preemptable(lk, l, Locker \ Importunate)
<1>1. n \in Lsn /\ t \in LockTypes /\ call[l] \in Call
  BY CallFields DEF Steal
<1>2. Sound(lk) /\ Sound(left)
  BY <1>1, TableSound, FlushWaiterSound, StealSound
<1>3. StolenFrom(lk, l, Locker \ Importunate) \subseteq Locker
  BY DEF StolenFrom
<1>4. PICK ownFirst \in BOOLEAN :
        LET g == Answer(left, l, t, ownFirst)
        IN /\ lock_tables' = [lock_tables EXCEPT ![n] = AfterAnswer(left, l, t, g, TRUE)]
           /\ IF g \in Granted THEN ReturnGranted(l, n, t)
              ELSE /\ \/ call' = [call EXCEPT ![l].pc = "fallback"]
                      \/ call' = [call EXCEPT ![l] = NoCall]
                   /\ UNCHANGED <<txn, recorded>>
  BY DEF Steal
<1>5. lock_tables' \in [Lsn -> Lock] /\ OwnersCompatible'
  <2>1. Sound(AfterAnswer(left, l, t, Answer(left, l, t, ownFirst), TRUE))
    BY <1>1, <1>2, AnswerSound
  <2> HIDE DEF n, t, left
  <2> QED BY <1>1, <1>4, <2>1, StoreSound
<1>6. /\ call' \in [Locker -> Call]
      /\ txn' \in [Locker -> {"Open", "MustAbort", "Ending", "Ended"}]
      /\ RecordedType'
  <2>1. CASE ReturnGranted(l, n, t)
    BY <1>1, <2>1, ReturnGrantedType
  <2>2. CASE call' = [call EXCEPT ![l].pc = "fallback"] /\ UNCHANGED <<txn, recorded>>
    BY <1>1, <2>2, RecordedKept DEF Inv, TypeOK, Call, CallRecord
  <2>3. CASE call' = [call EXCEPT ![l] = NoCall] /\ UNCHANGED <<txn, recorded>>
    BY <2>3, NoCallType, RecordedKept DEF Inv, TypeOK
  <2> QED BY <1>4, <2>1, <2>2, <2>3
<1>7. /\ preempted' = preempted \cup StolenFrom(lk, l, Locker \ Importunate)
      /\ UNCHANGED <<shard, waiter_graph, granted>>
  BY DEF Steal
<1> QED BY <1>3, <1>5, <1>6, <1>7 DEF Inv, TypeOK, RecordedType

LEMMA FallbackInv ==
  ASSUME Inv, NEW l \in Locker, Fallback(l)
  PROVE  Inv'
BY CallFields, EntryInv, NoCallType DEF Fallback

\* Steps of the wait path that change only the call, and record_wait.
LEMMA WaitPathInv ==
  ASSUME Inv, NEW l \in Locker,
         \/ BudgetSpent(l) \/ record_wait(l) \/ check_deadlock_for_waiter(l)
         \/ compute_lock_counts(l) \/ Verdict(l) \/ Wake(l) \/ SliceExpires(l)
         \/ \E e \in {"LockTimeout", "TransactionTimeout"} : TimesOut(l, e)
  PROVE  Inv'
<1>0. call \in [Locker -> Call] /\ call[l] \in Call
  BY DEF Inv, TypeOK
<1>1. CASE BudgetSpent(l)
  <2>1. call' \in [Locker -> Call]
    BY <1>0, <1>1 DEF BudgetSpent, Call, CallRecord, WaitPcs, Errors
  <2> QED BY <1>1, <2>1, CallOnly DEF BudgetSpent
<1>2. CASE record_wait(l)
  <2>1. call' \in [Locker -> Call]
    BY <1>0, <1>2 DEF record_wait, Goto, Call, CallRecord, WaitPcs
  <2>2. waiter_graph' \in [Locker -> SUBSET Locker]
    BY <1>2, CallFields DEF record_wait, Inv, TypeOK
  <2> QED BY <1>2, <2>1, <2>2 DEF record_wait, Inv, TypeOK, OwnersCompatible, recorded
<1>3. CASE check_deadlock_for_waiter(l)
  <2>1. \A c \in Cycles(l, call[l].owner_ids, waiter_graph) : c \in SUBSET Locker
    BY DEF Cycles
  <2>2. CASE Goto(l, "sleep")
    <3>1. call' \in [Locker -> Call]
      BY <1>0, <1>3, <2>2
         DEF Goto, Call, CallRecord, WaitPcs, check_deadlock_for_waiter
    <3> QED BY <1>3, <3>1, CallOnly DEF check_deadlock_for_waiter
  <2>3. ASSUME NEW c \in Cycles(l, call[l].owner_ids, waiter_graph),
               call' = [call EXCEPT ![l].pc = "counting", ![l].cycle = c]
        PROVE  Inv'
    <3>1. call' \in [Locker -> Call]
      <4>1. c \in SUBSET Locker /\ call[l].pc = "check"
        BY <2>1, <2>3, <1>3 DEF check_deadlock_for_waiter
      <4> QED BY <1>0, <2>3, <4>1 DEF Call, CallRecord, WaitPcs
    <3> QED BY <1>3, <3>1, CallOnly DEF check_deadlock_for_waiter
  <2> QED BY <1>3, <2>2, <2>3 DEF check_deadlock_for_waiter
<1>4. CASE compute_lock_counts(l)
  <2> DEFINE n == call[l].counted + 1
             c == [m \in Locker |-> call[l].counts[m] +
                     IF m \in call[l].cycle /\ m \in OwnerIds(lock_tables[n]) THEN 1 ELSE 0]
  <2>1. n \in Nat /\ c \in [Locker -> Nat]
    BY CallFields
  <2>2. call' = [call EXCEPT ![l].counted = n, ![l].counts = c]
    BY <1>0, <1>4 DEF compute_lock_counts
  <2>3. call[l].pc = "counting"
    BY <1>4 DEF compute_lock_counts
  <2> HIDE DEF n, c
  <2>4. call' \in [Locker -> Call]
    BY <1>0, <2>1, <2>2, <2>3 DEF Call, CallRecord
  <2> QED BY <1>4, <2>4, CallOnly DEF compute_lock_counts
<1>5. CASE Verdict(l)
  <2>1. NoCall.counts \in [Locker -> Nat]
    BY DEF NoCall
  <2>2. call' \in [Locker -> Call]
    BY <1>0, <1>5, <2>1 DEF Verdict, Call, CallRecord, WaitPcs, Errors
  <2> QED BY <1>5, <2>2, CallOnly DEF Verdict
<1>6. CASE Wake(l)
  <2>1. call' \in [Locker -> Call]
    BY <1>0, <1>6 DEF Wake, Call, CallRecord, WaitPcs
  <2> QED BY <1>6, <2>1, CallOnly DEF Wake
<1>7. CASE SliceExpires(l)
  <2>1. OwnerIds(lock_tables[call[l].lsn]) \in SUBSET Locker
    BY <1>7, CallFields, OwnerIdsType DEF SliceExpires
  <2>2. call' \in [Locker -> Call]
    BY <1>0, <1>7, <2>1 DEF SliceExpires, Call, CallRecord, WaitPcs
  <2> QED BY <1>7, <2>2, CallOnly DEF SliceExpires
<1>8. ASSUME NEW e \in {"LockTimeout", "TransactionTimeout"}, TimesOut(l, e)
      PROVE  Inv'
  <2>1. call' \in [Locker -> Call]
    BY <1>0, <1>8 DEF TimesOut, Call, CallRecord, WaitPcs, Errors
  <2> QED BY <1>8, <2>1, CallOnly DEF TimesOut
<1> QED BY <1>1, <1>2, <1>3, <1>4, <1>5, <1>6, <1>7, <1>8

LEMMA ValidateInv ==
  ASSUME Inv, NEW l \in Locker, validate_ownership_or_flush(l)
  PROVE  Inv'
<1> DEFINE n == call[l].lsn
           owner == is_owner(lock_tables[n], l, call[l].type)
<1>1. n \in Lsn /\ call[l] \in Call /\ call \in [Locker -> Call] /\ call[l].pc = "validate"
  BY CallFields DEF validate_ownership_or_flush, Inv, TypeOK
<1>2. lock_tables' \in [Lsn -> Lock] /\ OwnersCompatible'
  <2>1. CASE owner
    BY <2>1 DEF validate_ownership_or_flush, Inv, TypeOK, OwnersCompatible
  <2>2. CASE ~ owner
    <3>1. Sound(Stored(flush_waiter(lock_tables[n], l)))
      BY <1>1, TableSound, FlushWaiterSound, StoredSound
    <3>2. lock_tables' = [lock_tables EXCEPT ![n] = Stored(flush_waiter(lock_tables[n], l))]
      BY <1>1, <2>2 DEF validate_ownership_or_flush, Inv, TypeOK
    <3> HIDE DEF n
    <3> QED BY <1>1, <3>1, <3>2, StoreSound
  <2> QED BY <2>1, <2>2
<1>3. call' \in [Locker -> Call]
  BY <1>1 DEF validate_ownership_or_flush, Call, CallRecord, WaitPcs
<1>4. UNCHANGED <<shard, waiter_graph, preempted, granted, txn, recorded>>
  BY DEF validate_ownership_or_flush
<1> QED BY <1>2, <1>3, <1>4 DEF Inv, TypeOK, recorded

LEMMA ClearWaitInv ==
  ASSUME Inv, NEW l \in Locker, clear_wait(l)
  PROVE  Inv'
<1>1. call[l].lsn \in Lsn
  BY CallFields DEF clear_wait
<1>2. ReturnGranted(l, call[l].lsn, call[l].type) \/ \E e : ReturnError(l, e)
  BY DEF clear_wait
<1>3. /\ call' \in [Locker -> Call]
      /\ txn' \in [Locker -> {"Open", "MustAbort", "Ending", "Ended"}]
      /\ RecordedType'
  BY <1>1, <1>2, ReturnGrantedType, ReturnErrorType
<1>4. /\ waiter_graph' = [waiter_graph EXCEPT ![l] = {}]
      /\ UNCHANGED <<lock_tables, shard, preempted, granted>>
  BY DEF clear_wait
<1> QED BY <1>3, <1>4 DEF Inv, TypeOK, OwnersCompatible, RecordedType

\* release together with what its caller does to the recorded sets.
LEMMA ReleaseInv ==
  ASSUME Inv, NEW l \in Locker, NEW n \in Lsn, release(l, n), RecordedType'
  PROVE  Inv'
<1>1. lock_tables' \in [Lsn -> Lock] /\ OwnersCompatible'
  <2>1. Sound(Stored(flush_owner(lock_tables[n], l)))
    BY TableSound, FlushOwnerSound, StoredSound
  <2>2. lock_tables' = [lock_tables EXCEPT ![n] = Stored(flush_owner(lock_tables[n], l))]
    BY DEF release
  <2> QED BY <2>1, <2>2, StoreSound
<1>2. shard' \in [Lsn -> Locker \cup {NoLocker}]
  BY DEF release, Inv, TypeOK
<1>3. call' \in [Locker -> Call]
  <2>1. call[l] \in Call /\ call \in [Locker -> Call]
    BY DEF Inv, TypeOK
  <2> QED BY <2>1 DEF release, Call, CallRecord
<1>4. UNCHANGED <<waiter_graph, preempted, granted, txn>>
  BY DEF release
<1> QED BY <1>1, <1>2, <1>3, <1>4 DEF Inv, TypeOK, RecordedType

LEMMA ReleaseRecordedInv ==
  ASSUME Inv, NEW l \in Locker, NEW n \in Lsn, ReleaseRead(l, n) \/ ReleaseWrite(l, n)
  PROVE  Inv'
<1>1. RecordedType'
  BY RecordedKept DEF ReleaseRead, ReleaseWrite, RecordedType
<1> QED BY <1>1, ReleaseInv DEF ReleaseRead, ReleaseWrite

LEMMA EndOfTxnInv ==
  ASSUME Inv, NEW l \in Locker,
         \/ EndTxn(l) \/ ReleaseNext(l) \/ Ended(l)
         \/ \E n \in Lsn : release_lock(l, n) \/ release_range_insert_for_write(l, n)
  PROVE  Inv'
<1>1. CASE EndTxn(l)
  BY <1>1 DEF EndTxn, Inv, TypeOK, OwnersCompatible, recorded
<1>2. CASE ReleaseNext(l)
  BY <1>2, ReleaseRecordedInv DEF ReleaseNext
<1>3. CASE Ended(l)
  BY <1>3 DEF Ended, Inv, TypeOK, OwnersCompatible, recorded
<1>4. CASE \E n \in Lsn : release_lock(l, n) \/ release_range_insert_for_write(l, n)
  BY <1>4, ReleaseRecordedInv DEF release_lock, release_range_insert_for_write
<1> QED BY <1>1, <1>2, <1>3, <1>4

LEMMA GrantNextInv ==
  ASSUME Inv, NEW l \in Locker, NEW n \in Lsn, GrantNext(l, n)
  PROVE  Inv'
<1> DEFINE lk == lock_tables[n]
<1>1. PICK w \in NextWaiter(lk), ownFirst \in BOOLEAN :
        LET g == WaiterGrant(lk, w, l, ownFirst)
        IN /\ g \in Granted
           /\ lock_tables' = [lock_tables EXCEPT ![n] = GrantWaiter(lk, w, g)]
           /\ granted' = [granted EXCEPT ![w.locker] = TRUE]
  BY DEF GrantNext
<1>2. lock_tables' \in [Lsn -> Lock] /\ OwnersCompatible'
  <2>1. Sound(GrantWaiter(lk, w, WaiterGrant(lk, w, l, ownFirst)))
    BY <1>1, TableSound, GrantWaiterSound
  <2> QED BY <1>1, <2>1, StoreSound
<1>3. granted' \in [Locker -> BOOLEAN]
  BY <1>1 DEF Inv, TypeOK
<1>4. UNCHANGED <<shard, waiter_graph, preempted, call, txn, recorded>>
  BY DEF GrantNext
<1> QED BY <1>2, <1>3, <1>4 DEF Inv, TypeOK, recorded

LEMMA EndReleaseInv ==
  ASSUME Inv, NEW l \in Locker, NEW n \in Lsn, EndRelease(l, n)
  PROVE  Inv'
<1>1. lock_tables' \in [Lsn -> Lock] /\ OwnersCompatible'
  <2>1. Sound(Stored(lock_tables[n]))
    BY TableSound, StoredSound
  <2> QED BY <2>1, StoreSound DEF EndRelease
<1>2. shard' \in [Lsn -> Locker \cup {NoLocker}]
  BY DEF EndRelease, Inv, TypeOK
<1>3. call' \in [Locker -> Call]
  BY NoCallType DEF EndRelease, Inv, TypeOK
<1> QED BY <1>1, <1>2, <1>3 DEF EndRelease, Inv, TypeOK, recorded

LEMMA DemoteInv ==
  ASSUME Inv, NEW l \in Locker, NEW n \in Lsn, Demote(l, n)
  PROVE  Inv'
<1>1. Sound(demote(lock_tables[n], l))
  BY TableSound, DemoteSound
<1>2. lock_tables' = [lock_tables EXCEPT ![n] = demote(lock_tables[n], l)]
  BY DEF Demote, Inv, TypeOK
<1>3. lock_tables' \in [Lsn -> Lock] /\ OwnersCompatible'
  BY <1>1, <1>2, StoreSound
<1> QED BY <1>3 DEF Demote, Inv, TypeOK

-----------------------------------------------------------------------------
LEMMA InitInv == Init => Inv
<1> SUFFICES ASSUME Init PROVE Inv
  OBVIOUS
<1>1. lock_tables \in [Lsn -> Lock] /\ OwnersCompatible
  BY NewSound DEF Init, Sound, OwnersCompatible
<1>2. call \in [Locker -> Call]
  BY NoCallType DEF Init
<1> QED BY <1>1, <1>2 DEF Init, Inv, TypeOK

LEMMA StepInv == Inv /\ [Next]_vars => Inv'
<1> SUFFICES ASSUME Inv, [Next]_vars PROVE Inv'
  OBVIOUS
<1>1. ASSUME NEW l \in Locker, Step(l)
      PROVE  Inv'
  BY <1>1, ProbedReadInv, StealInv, FallbackInv, WaitPathInv, ValidateInv, ClearWaitInv,
     EndOfTxnInv, GrantNextInv, EndReleaseInv DEF Step
<1>2. ASSUME NEW l \in Locker, Invoke(l)
      PROVE  Inv'
  BY <1>2, RequestInv, ImportunateRequestInv, ProbeInv, EndOfTxnInv, DemoteInv DEF Invoke
<1>3. CASE UNCHANGED vars
  BY <1>3 DEF vars, Inv, TypeOK, OwnersCompatible
<1> QED BY <1>1, <1>2, <1>3 DEF Next, Finished

\* The inductive invariant holds in every reachable state: the types and the
\* compatibility of owners, preserved by every action of the lock manager.
THEOREM Invariance == Spec => []Inv
BY InitInv, StepInv, PTL DEF Spec

\* The lock manager's state has its type in every reachable state, for every
\* set of lockers, sharing groups, LSNs and request types.
THEOREM TypeCorrect == Spec => []TypeOK
<1>1. Inv => TypeOK
  BY DEF Inv
<1> QED BY <1>1, Invariance, PTL

\* Two owners of one LSN never conflict, whatever requests, promotions, steals,
\* demotions, releases, hand-overs, timeouts and deadlock verdicts interleave
\* (LockManager and LockImpl, all of the actions above).
THEOREM OwnersStayCompatible == Spec => []OwnersCompatible
<1>1. Inv => OwnersCompatible
  BY DEF Inv
<1> QED BY <1>1, Invariance, PTL
=============================================================================
