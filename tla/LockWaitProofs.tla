--------------------------- MODULE LockWaitProofs ----------------------------
(***************************************************************************)
(* The waiting side of the lock manager, for every number of lockers and   *)
(* LSNs: lines and wait paths correspond, a line always has an owner that  *)
(* will wake it, owners are recorded, nothing is lost silently, a request  *)
(* that reports an error was not granted.                                  *)
(*                                                                         *)
(* Each property follows from one inductive invariant, WaitInv, which says *)
(* of every locker how its thread, its entries in the lines, its           *)
(* ownerships and what its caller has recorded belong together             *)
(* (LockerInv), and of every lock that its two slots and its line hold no  *)
(* locker twice and that its line is attended (LockInv).  A step of one    *)
(* locker is shown to keep LockerInv for that locker; for the others it is *)
(* enough that the step leaves their entries alone (Untouched).            *)
(***************************************************************************)
EXTENDS LockManagerProofs, FiniteSetTheorems

-----------------------------------------------------------------------------
(* Lines: sequences of waiters in which no locker stands twice *)

Listed(s) == {s[i] : i \in 1 .. Len(s)}

Distinct(s) == \A i, j \in 1 .. Len(s) : s[i].locker = s[j].locker => i = j

\* What Append does to a line.
LEMMA AppendLine ==
  ASSUME NEW s \in Seq(WaiterInfo), NEW x \in WaiterInfo
  PROVE  /\ Listed(Append(s, x)) = Listed(s) \cup {x}
         /\ Distinct(s) /\ (\A w \in Listed(s) : w.locker # x.locker) =>
              Distinct(Append(s, x))
<1> DEFINE r == Append(s, x)
<1>1. /\ Len(s) \in Nat /\ Len(r) = Len(s) + 1
      /\ \A i \in 1 .. Len(s) : r[i] = s[i]
      /\ r[Len(s) + 1] = x
  BY AppendProperties, LenProperties
<1> HIDE DEF r
<1>2. Listed(r) = Listed(s) \cup {x}
  <2>1. \A i \in 1 .. Len(r) : i \in 1 .. Len(s) \/ i = Len(s) + 1
    BY <1>1
  <2>2. \A i \in 1 .. Len(s) : i \in 1 .. Len(r)
    BY <1>1
  <2>3. Len(s) + 1 \in 1 .. Len(r)
    BY <1>1
  <2>4. \A w : w \in Listed(r) <=> w \in Listed(s) \cup {x}
    BY <1>1, <2>1, <2>2, <2>3 DEF Listed
  <2> QED BY <2>4
<1>3. ASSUME Distinct(s), \A w \in Listed(s) : w.locker # x.locker
      PROVE  Distinct(r)
  <2>1. \A i \in 1 .. Len(s) : s[i].locker # x.locker
    BY <1>3 DEF Listed
  <2> QED BY <1>1, <1>3, <2>1 DEF Distinct
<1> QED BY <1>2, <1>3 DEF r

\* What a new head does to a line.
LEMMA PrependLine ==
  ASSUME NEW s \in Seq(WaiterInfo), NEW x \in WaiterInfo
  PROVE  /\ Listed(<<x>> \o s) = Listed(s) \cup {x}
         /\ Distinct(s) /\ (\A w \in Listed(s) : w.locker # x.locker) =>
              Distinct(<<x>> \o s)
<1> DEFINE r == <<x>> \o s
<1>1. /\ Len(s) \in Nat /\ Len(r) = Len(s) + 1
      /\ \A i \in 1 .. Len(s) : r[i + 1] = s[i]
      /\ r[1] = x
  <2>1. <<x>> \in Seq(WaiterInfo) /\ Len(<<x>>) = 1 /\ <<x>>[1] = x
    OBVIOUS
  <2>2. /\ Len(r) = 1 + Len(s) /\ Len(s) \in Nat
        /\ \A i \in 1 .. 1 + Len(s) : r[i] = IF i <= 1 THEN <<x>>[i] ELSE s[i - 1]
    BY <2>1, ConcatProperties, LenProperties
  <2> HIDE DEF r
  <2>3. \A i \in 1 .. Len(s) : i + 1 \in 1 .. 1 + Len(s) /\ ~ (i + 1 <= 1) /\ (i + 1) - 1 = i
    BY <2>2
  <2>4. \A i \in 1 .. Len(s) : r[i + 1] = s[i]
    BY <2>2, <2>3
  <2>5. 1 \in 1 .. 1 + Len(s)
    BY <2>2
  <2>6. r[1] = x
    BY <2>1, <2>2, <2>5
  <2> QED BY <2>2, <2>4, <2>6
<1> HIDE DEF r
<1>0. \A i \in 1 .. Len(r) : i = 1 \/ (i - 1 \in 1 .. Len(s) /\ r[i] = s[i - 1])
  <2> TAKE i \in 1 .. Len(r)
  <2>1. CASE i = 1
    BY <2>1
  <2>2. CASE i # 1
    <3>1. i - 1 \in 1 .. Len(s) /\ (i - 1) + 1 = i
      BY <1>1, <2>2
    <3>2. r[(i - 1) + 1] = s[i - 1]
      BY <1>1, <3>1
    <3> QED BY <3>1, <3>2
  <2> QED BY <2>1, <2>2
<1>2. Listed(r) = Listed(s) \cup {x}
  <2>2. \A i \in 1 .. Len(s) : i + 1 \in 1 .. Len(r)
    BY <1>1
  <2>3. 1 \in 1 .. Len(r)
    BY <1>1
  <2>4. \A w : w \in Listed(r) <=> w \in Listed(s) \cup {x}
    BY <1>0, <1>1, <2>2, <2>3 DEF Listed
  <2> QED BY <2>4
<1>3. ASSUME Distinct(s), \A w \in Listed(s) : w.locker # x.locker
      PROVE  Distinct(r)
  <2>1. \A i \in 1 .. Len(s) : s[i].locker # x.locker
    BY <1>3 DEF Listed
  <2>2. ASSUME NEW i \in 1 .. Len(r), NEW j \in 1 .. Len(r), r[i].locker = r[j].locker
        PROVE  i = j
    <3>1. CASE i = 1 /\ j = 1
      BY <3>1
    <3>2. CASE i = 1 /\ j # 1
      BY <1>0, <1>1, <2>1, <2>2, <3>2
    <3>3. CASE i # 1 /\ j = 1
      BY <1>0, <1>1, <2>1, <2>2, <3>3
    <3>4. CASE i # 1 /\ j # 1
      <4>1. i - 1 \in 1 .. Len(s) /\ j - 1 \in 1 .. Len(s) /\ s[i - 1].locker = s[j - 1].locker
        BY <1>0, <2>2, <3>4
      <4>2. i - 1 = j - 1
        BY <1>3, <4>1 DEF Distinct
      <4> QED BY <4>2, <1>1
    <3> QED BY <3>1, <3>2, <3>3, <3>4
  <2> QED BY <2>2 DEF Distinct
<1> QED BY <1>2, <1>3 DEF r

\* What is left of a line when the waiter at position k leaves it.
LEMMA ShorterLine ==
  ASSUME NEW s \in Seq(WaiterInfo), Distinct(s), NEW k \in 1 .. Len(s),
         NEW r \in Seq(WaiterInfo), Len(r) = Len(s) - 1,
         \A i \in 1 .. Len(r) : r[i] = s[IF i < k THEN i ELSE i + 1]
  PROVE  /\ Listed(r) = {w \in Listed(s) : w.locker # s[k].locker}
         /\ Distinct(r)
<1>0. Len(s) \in Nat /\ Len(r) \in Nat
  BY LenProperties
<1> DEFINE at(i) == IF i < k THEN i ELSE i + 1
<1>1. \A i \in 1 .. Len(r) : at(i) \in 1 .. Len(s) /\ at(i) # k
  BY <1>0
<1>2. \A i, j \in 1 .. Len(r) : at(i) = at(j) => i = j
  BY <1>0
<1>3. \A j \in 1 .. Len(s) : j # k =>
        \E i \in 1 .. Len(r) : at(i) = j
  <2> TAKE j \in 1 .. Len(s)
  <2>1. CASE j < k
    <3>1. j \in 1 .. Len(r) /\ at(j) = j
      BY <1>0, <2>1
    <3> QED BY <3>1
  <2>2. CASE j > k
    <3>1. j - 1 \in 1 .. Len(r) /\ at(j - 1) = j
      BY <1>0, <2>2
    <3> QED BY <3>1
  <2> QED BY <1>0, <2>1, <2>2
<1>4. \A i \in 1 .. Len(r) : r[i] = s[at(i)]
  OBVIOUS
<1> HIDE DEF at
<1>5. Listed(r) = {w \in Listed(s) : w.locker # s[k].locker}
  <2>1. ASSUME NEW i \in 1 .. Len(r)
        PROVE  r[i] \in Listed(s) /\ r[i].locker # s[k].locker
    BY <1>1, <1>4 DEF Listed, Distinct
  <2>2. ASSUME NEW j \in 1 .. Len(s), s[j].locker # s[k].locker
        PROVE  s[j] \in Listed(r)
    <3>1. PICK i \in 1 .. Len(r) : at(i) = j
      BY <1>3, <2>2
    <3> QED BY <1>4, <3>1 DEF Listed
  <2>3. \A w \in Listed(r) : w \in Listed(s) /\ w.locker # s[k].locker
    BY <2>1 DEF Listed
  <2>4. \A w \in Listed(s) : w.locker # s[k].locker => w \in Listed(r)
    BY <2>2 DEF Listed
  <2> HIDE DEF Listed
  <2> QED BY <2>3, <2>4
<1>6. Distinct(r)
  <2> SUFFICES ASSUME NEW i \in 1 .. Len(r), NEW j \in 1 .. Len(r), r[i].locker = r[j].locker
               PROVE  i = j
    BY DEF Distinct
  <2>1. at(i) = at(j)
    BY <1>1, <1>4 DEF Distinct
  <2> QED BY <1>2, <2>1
<1> QED BY <1>5, <1>6

-----------------------------------------------------------------------------
(* Operations on one lock: who owns it and who waits for it *)

\* The entries of l in the line.
Queued(lk, l) == {w \in Waiters(lk) : w.locker = l}

\* The owner slots hold different lockers, no locker stands in the line twice,
\* and a list that was never made is empty.
Tidy(lk) ==
  /\ \A o \in lk.first_owner, p \in lk.owner_set : o.locker # p.locker
  /\ Distinct(lk.waiter_list)
  /\ \A w \in lk.first_waiter, v \in Listed(lk.waiter_list) : w.locker # v.locker
  /\ lk.list_made \/ lk.waiter_list = <<>>

\* A lock the lemmas below speak of.
Good(lk) == Sound(lk) /\ Tidy(lk)

\* l's entries apart, the lock is the same for everybody.
Untouched(lk, kept, l) ==
  \A m \in Locker \ {l} :
    Queued(kept, m) = Queued(lk, m) /\ Owned(kept, m) = Owned(lk, m)

LEMMA WaitersListed ==
  ASSUME NEW lk
  PROVE  Waiters(lk) = lk.first_waiter \cup Listed(lk.waiter_list)
BY DEF Waiters, Listed

LEMMA WaitersAreInfo ==
  ASSUME NEW lk \in Lock
  PROVE  Waiters(lk) \subseteq WaiterInfo
<1>1. Listed(lk.waiter_list) \subseteq WaiterInfo
  BY ElementOfSeq DEF Listed, Lock
<1>2. lk.first_waiter \subseteq WaiterInfo
  BY DEF Lock, Opt
<1> QED BY <1>1, <1>2, WaitersListed

LEMMA NoWaitersMeans ==
  ASSUME NEW lk \in Lock
  PROVE  /\ NoWaiters(lk) <=> Waiters(lk) = {}
         /\ NextWaiter(lk) \subseteq Waiters(lk)
         /\ NextWaiter(lk) = {} <=> NoWaiters(lk)
<1>1. lk.waiter_list \in Seq(WaiterInfo) /\ Len(lk.waiter_list) \in Nat
  BY DEF Lock
<1>2. lk.waiter_list # <<>> => Len(lk.waiter_list) \in Nat \ {0}
  BY <1>1, EmptySeq
<1>3. lk.waiter_list # <<>> => lk.waiter_list[1] \in Listed(lk.waiter_list)
  BY <1>2 DEF Listed
<1>4. lk.waiter_list = <<>> => Listed(lk.waiter_list) = {}
  BY <1>1 DEF Listed
<1>5. lk.waiter_list # <<>> => Head(lk.waiter_list) = lk.waiter_list[1]
  BY <1>1
<1> QED BY <1>3, <1>4, <1>5, WaitersListed DEF NoWaiters, NextWaiter

LEMMA NewGood == Good(new) /\ Owners(new) = {} /\ Waiters(new) = {} /\ NoWaiters(new)
<1>1. Len(<<>>) = 0
  BY EmptySeq
<1>2. Listed(<<>>) = {} /\ Distinct(<<>>)
  BY <1>1 DEF Listed, Distinct
<1> QED BY <1>2, NewSound, WaitersListed DEF new, Good, Tidy, Owners, NoWaiters

\* Removing an empty entry from the table changes no owner and no waiter.
LEMMA StoredEffect ==
  ASSUME NEW lk, Good(lk)
  PROVE  /\ Good(Stored(lk))
         /\ Owners(Stored(lk)) = Owners(lk)
         /\ Waiters(Stored(lk)) = Waiters(lk)
<1>1. lk \in Lock
  BY DEF Good, Sound
<1> QED BY <1>1, NewGood, NoWaitersMeans DEF Stored

\* A request that has to wait adds its own entry and nothing else.
LEMMA EndOfListEffect ==
  ASSUME NEW lk, Good(lk), NEW x \in WaiterInfo, Queued(lk, x.locker) = {}
  PROVE  /\ Tidy(add_waiter_to_end_of_list(lk, x))
         /\ Waiters(add_waiter_to_end_of_list(lk, x)) = Waiters(lk) \cup {x}
<1>1. lk \in Lock /\ Tidy(lk) /\ lk.waiter_list \in Seq(WaiterInfo)
  BY DEF Good, Sound, Lock
<1>2. /\ \A w \in lk.first_waiter : w.locker # x.locker
      /\ \A w \in Listed(lk.waiter_list) : w.locker # x.locker
  BY WaitersListed DEF Queued
<1>3. CASE lk.list_made
  <2> DEFINE s == Append(lk.waiter_list, x)
  <2>1. Listed(s) = Listed(lk.waiter_list) \cup {x} /\ Distinct(s)
    BY <1>1, <1>2, AppendLine DEF Tidy
  <2>2. add_waiter_to_end_of_list(lk, x) = [lk EXCEPT !.waiter_list = s]
    BY <1>1, <1>3 DEF add_waiter_to_end_of_list, Lock
  <2> HIDE DEF s
  <2>3. /\ [lk EXCEPT !.waiter_list = s].waiter_list = s
        /\ [lk EXCEPT !.waiter_list = s].first_waiter = lk.first_waiter
        /\ [lk EXCEPT !.waiter_list = s].first_owner = lk.first_owner
        /\ [lk EXCEPT !.waiter_list = s].owner_set = lk.owner_set
        /\ [lk EXCEPT !.waiter_list = s].list_made = lk.list_made
    BY <1>1 DEF Lock
  <2> QED BY <1>1, <1>2, <1>3, <2>1, <2>2, <2>3, WaitersListed DEF Tidy
<1>4. CASE ~ lk.list_made /\ lk.first_waiter = {}
  <2>1. add_waiter_to_end_of_list(lk, x) = [lk EXCEPT !.first_waiter = {x}]
    BY <1>4 DEF add_waiter_to_end_of_list
  <2>3. /\ [lk EXCEPT !.first_waiter = {x}].waiter_list = lk.waiter_list
        /\ [lk EXCEPT !.first_waiter = {x}].first_waiter = {x}
        /\ [lk EXCEPT !.first_waiter = {x}].first_owner = lk.first_owner
        /\ [lk EXCEPT !.first_waiter = {x}].owner_set = lk.owner_set
        /\ [lk EXCEPT !.first_waiter = {x}].list_made = lk.list_made
    BY <1>1 DEF Lock
  <2> QED BY <1>1, <1>2, <1>4, <2>1, <2>3, WaitersListed DEF Tidy
<1>5. CASE ~ lk.list_made /\ lk.first_waiter # {}
  <2> DEFINE s == <<x>>
             y == [lk EXCEPT !.waiter_list = s, !.list_made = TRUE]
  <2>1. add_waiter_to_end_of_list(lk, x) = y
    BY <1>5 DEF add_waiter_to_end_of_list
  <2>2. Listed(s) = {x} /\ Distinct(s)
    <3>1. Len(s) = 1 /\ s[1] = x /\ 1 .. 1 = {1}
      OBVIOUS
    <3> HIDE DEF s
    <3> QED BY <3>1 DEF Listed, Distinct
  <2>4. Listed(lk.waiter_list) = {}
    <3>1. lk.waiter_list = <<>> /\ Len(<<>>) = 0
      BY <1>1, <1>5, EmptySeq DEF Tidy
    <3> QED BY <3>1 DEF Listed
  <2> HIDE DEF s
  <2>3. /\ y.waiter_list = s /\ y.list_made = TRUE
        /\ y.first_waiter = lk.first_waiter
        /\ y.first_owner = lk.first_owner
        /\ y.owner_set = lk.owner_set
    BY <1>1 DEF Lock
  <2> HIDE DEF y
  <2> QED BY <1>1, <1>2, <1>5, <2>1, <2>2, <2>3, <2>4, WaitersListed DEF Tidy
<1> QED BY <1>3, <1>4, <1>5

LEMMA HeadOfListEffect ==
  ASSUME NEW lk, Good(lk), NEW x \in WaiterInfo, Queued(lk, x.locker) = {}
  PROVE  /\ Tidy(add_waiter_to_head_of_list(lk, x))
         /\ Waiters(add_waiter_to_head_of_list(lk, x)) = Waiters(lk) \cup {x}
<1>1. lk \in Lock /\ Tidy(lk) /\ lk.waiter_list \in Seq(WaiterInfo)
  BY DEF Good, Sound, Lock
<1>2. /\ \A w \in lk.first_waiter : w.locker # x.locker
      /\ \A w \in Listed(lk.waiter_list) : w.locker # x.locker
  BY WaitersListed DEF Queued
<1> DEFINE f == CHOOSE w \in lk.first_waiter : TRUE
           s == IF lk.first_waiter = {} THEN lk.waiter_list ELSE <<f>> \o lk.waiter_list
           y == [lk EXCEPT !.waiter_list = s, !.list_made = @ \/ lk.first_waiter # {},
                           !.first_waiter = {x}]
<1>3. add_waiter_to_head_of_list(lk, x) = y
  BY <1>1 DEF add_waiter_to_head_of_list, Lock
<1>4. lk.first_waiter # {} => lk.first_waiter = {f} /\ f \in WaiterInfo
  BY <1>1 DEF Lock, Opt
<1>5. Listed(s) = Listed(lk.waiter_list) \cup lk.first_waiter /\ Distinct(s)
  <2>1. CASE lk.first_waiter = {}
    BY <1>1, <2>1 DEF Tidy
  <2>2. CASE lk.first_waiter # {}
    BY <1>1, <1>4, <2>2, PrependLine DEF Tidy
  <2> QED BY <2>1, <2>2
<1>6. lk.first_waiter = {} => s = lk.waiter_list
  OBVIOUS
<1> HIDE DEF f, s
<1>7. /\ y.waiter_list = s
      /\ y.list_made = (lk.list_made \/ lk.first_waiter # {})
      /\ y.first_waiter = {x}
      /\ y.first_owner = lk.first_owner
      /\ y.owner_set = lk.owner_set
  BY <1>1 DEF Lock
<1> HIDE DEF y
<1> QED BY <1>1, <1>2, <1>3, <1>5, <1>6, <1>7, WaitersListed DEF Tidy

\* flush_waiter drops the entry of l and no other.
LEMMA FlushWaiterEffect ==
  ASSUME NEW lk, Good(lk), NEW l
  PROVE  /\ Tidy(flush_waiter(lk, l))
         /\ Waiters(flush_waiter(lk, l)) = {w \in Waiters(lk) : w.locker # l}
<1>1. lk \in Lock /\ Tidy(lk) /\ lk.waiter_list \in Seq(WaiterInfo)
  BY DEF Good, Sound, Lock
<1>2. CASE \E w \in lk.first_waiter : w.locker = l
  <2> DEFINE y == [lk EXCEPT !.first_waiter = {}]
  <2>1. flush_waiter(lk, l) = y
    BY <1>2 DEF flush_waiter
  <2>2. /\ y.waiter_list = lk.waiter_list /\ y.list_made = lk.list_made
        /\ y.first_waiter = {} /\ y.first_owner = lk.first_owner /\ y.owner_set = lk.owner_set
    BY <1>1 DEF Lock
  <2> HIDE DEF y
  <2>3. PICK f \in WaiterInfo : lk.first_waiter = {f} /\ f.locker = l
    BY <1>1, <1>2 DEF Lock, Opt
  <2>4. \A w \in Listed(lk.waiter_list) : w.locker # l
    BY <1>1, <2>3 DEF Tidy
  <2>5. Tidy(y)
    BY <1>1, <2>2 DEF Tidy
  <2>6. Waiters(y) = {w \in Waiters(lk) : w.locker # l}
    BY <2>2, <2>3, <2>4, WaitersListed
  <2> QED BY <2>1, <2>5, <2>6
<1>3. CASE /\ ~ \E w \in lk.first_waiter : w.locker = l
           /\ \E i \in 1 .. Len(lk.waiter_list) : lk.waiter_list[i].locker = l
  <2> DEFINE s == lk.waiter_list
             k == CHOOSE i \in 1 .. Len(lk.waiter_list) : lk.waiter_list[i].locker = l
             a == SubSeq(s, 1, k - 1)
             b == SubSeq(s, k + 1, Len(s))
             r == a \o b
             y == [lk EXCEPT !.waiter_list = r]
  <2>1. k \in 1 .. Len(s) /\ s[k].locker = l
    BY <1>3
  <2>2. flush_waiter(lk, l) = y
    BY <1>1, <1>3 DEF flush_waiter, Lock
  <2> HIDE DEF k
  <2>3. k \in Nat /\ 1 <= k /\ k <= Len(s) /\ Len(s) \in Nat
    BY <1>1, <2>1, LenProperties
  <2>4. /\ a \in Seq(WaiterInfo) /\ Len(a) = k - 1
        /\ \A i \in 1 .. k - 1 : a[i] = s[i]
    <3>1. \A j \in 1 .. k - 1 : s[j] \in WaiterInfo
      BY <1>1, <2>3, ElementOfSeq
    <3>2. /\ a \in Seq(WaiterInfo)
          /\ Len(a) = IF 1 <= k - 1 THEN (k - 1) - 1 + 1 ELSE 0
          /\ \A i \in 1 .. (k - 1) - 1 + 1 : a[i] = s[1 + i - 1]
      BY <2>3, <3>1, SubSeqProperties
    <3> HIDE DEF a, s
    <3>3. Len(a) = k - 1
      BY <2>3, <3>2
    <3>4. \A i \in 1 .. k - 1 : i \in 1 .. (k - 1) - 1 + 1 /\ 1 + i - 1 = i
      BY <2>3
    <3> QED BY <3>2, <3>3, <3>4
  <2>5. /\ b \in Seq(WaiterInfo) /\ Len(b) = Len(s) - k
        /\ \A i \in 1 .. Len(s) - k : b[i] = s[k + i]
    <3>1. \A j \in k + 1 .. Len(s) : s[j] \in WaiterInfo
      BY <1>1, <2>3, ElementOfSeq
    <3>2. /\ b \in Seq(WaiterInfo)
          /\ Len(b) = IF k + 1 <= Len(s) THEN Len(s) - (k + 1) + 1 ELSE 0
          /\ \A i \in 1 .. Len(s) - (k + 1) + 1 : b[i] = s[(k + 1) + i - 1]
      BY <2>3, <3>1, SubSeqProperties
    <3> HIDE DEF b, s
    <3>3. Len(b) = Len(s) - k
      BY <2>3, <3>2
    <3>4. \A i \in 1 .. Len(s) - k :
            i \in 1 .. Len(s) - (k + 1) + 1 /\ (k + 1) + i - 1 = k + i
      BY <2>3
    <3> QED BY <3>2, <3>3, <3>4
  <2>6. /\ r \in Seq(WaiterInfo) /\ Len(r) = Len(s) - 1
        /\ \A i \in 1 .. Len(r) : r[i] = s[IF i < k THEN i ELSE i + 1]
    <3>1. /\ r \in Seq(WaiterInfo) /\ Len(r) = Len(a) + Len(b)
          /\ \A i \in 1 .. Len(a) + Len(b) : r[i] = IF i <= Len(a) THEN a[i] ELSE b[i - Len(a)]
      BY <2>4, <2>5, ConcatProperties
    <3> HIDE DEF r, a, b, s
    <3>2. Len(r) = Len(s) - 1
      BY <2>3, <2>4, <2>5, <3>1
    <3>3. ASSUME NEW i \in 1 .. Len(r)
          PROVE  r[i] = s[IF i < k THEN i ELSE i + 1]
      <4>1. i \in 1 .. Len(a) + Len(b)
        BY <3>1
      <4>2. CASE i < k
        <5>1. i <= Len(a) /\ i \in 1 .. k - 1
          BY <2>3, <2>4, <4>2
        <5> QED BY <2>4, <3>1, <4>1, <4>2, <5>1
      <4>3. CASE ~ (i < k)
        <5>1. ~ (i <= Len(a)) /\ i - Len(a) \in 1 .. Len(s) - k /\ k + (i - Len(a)) = i + 1
          BY <2>3, <2>4, <3>2, <4>3
        <5> QED BY <2>5, <3>1, <4>1, <4>3, <5>1
      <4> QED BY <4>2, <4>3
    <3> QED BY <3>1, <3>2, <3>3
  <2> HIDE DEF r
  <2>7. Listed(r) = {w \in Listed(s) : w.locker # l} /\ Distinct(r)
    <3>1. Distinct(s) /\ s \in Seq(WaiterInfo)
      BY <1>1 DEF Tidy
    <3> HIDE DEF s
    <3>2. /\ Listed(r) = {w \in Listed(s) : w.locker # s[k].locker}
          /\ Distinct(r)
      BY <2>1, <2>6, <3>1, ShorterLine
    <3> QED BY <2>1, <3>2
  <2>8. /\ y.waiter_list = r /\ y.list_made = lk.list_made
        /\ y.first_waiter = lk.first_waiter
        /\ y.first_owner = lk.first_owner /\ y.owner_set = lk.owner_set
    BY <1>1 DEF Lock
  <2>9. lk.list_made
    <3>1. lk.waiter_list # <<>>
      BY <2>3, EmptySeq
    <3> QED BY <1>1, <3>1 DEF Tidy
  <2> HIDE DEF y
  <2>10. Tidy(y)
    BY <1>1, <2>7, <2>8, <2>9 DEF Tidy
  <2>11. Waiters(y) = {w \in Waiters(lk) : w.locker # l}
    BY <1>3, <2>7, <2>8, WaitersListed
  <2> QED BY <2>2, <2>10, <2>11
<1>4. CASE /\ ~ \E w \in lk.first_waiter : w.locker = l
           /\ ~ \E i \in 1 .. Len(lk.waiter_list) : lk.waiter_list[i].locker = l
  <2>1. flush_waiter(lk, l) = lk
    BY <1>4 DEF flush_waiter
  <2>2. \A w \in Waiters(lk) : w.locker # l
    BY <1>4 DEF Waiters
  <2> QED BY <1>1, <2>1, <2>2
<1> QED BY <1>2, <1>3, <1>4

\* The waiter the release loop looks at leaves the line, and no other does.
LEMMA PopWaiterEffect ==
  ASSUME NEW lk, Good(lk), NEW w \in NextWaiter(lk)
  PROVE  /\ Tidy(PopWaiter(lk))
         /\ Waiters(PopWaiter(lk)) = {v \in Waiters(lk) : v.locker # w.locker}
<1>1. lk \in Lock /\ Tidy(lk) /\ lk.waiter_list \in Seq(WaiterInfo)
  BY DEF Good, Sound, Lock
<1>2. CASE lk.first_waiter # {}
  <2> DEFINE y == [lk EXCEPT !.first_waiter = {}]
  <2>1. PopWaiter(lk) = y
    BY <1>2 DEF PopWaiter
  <2>2. /\ y.waiter_list = lk.waiter_list /\ y.list_made = lk.list_made
        /\ y.first_waiter = {} /\ y.first_owner = lk.first_owner /\ y.owner_set = lk.owner_set
    BY <1>1 DEF Lock
  <2> HIDE DEF y
  <2>3. lk.first_waiter = {w}
    BY <1>1, <1>2 DEF NextWaiter, Lock, Opt
  <2>4. \A v \in Listed(lk.waiter_list) : v.locker # w.locker
    BY <1>1, <2>3 DEF Tidy
  <2>5. Tidy(y)
    BY <1>1, <2>2 DEF Tidy
  <2>6. Waiters(y) = {v \in Waiters(lk) : v.locker # w.locker}
    BY <2>2, <2>3, <2>4, WaitersListed
  <2> QED BY <2>1, <2>5, <2>6
<1>3. CASE lk.first_waiter = {}
  <2> DEFINE s == lk.waiter_list
             r == Tail(s)
             y == [lk EXCEPT !.waiter_list = r]
  <2>1. PopWaiter(lk) = y
    BY <1>1, <1>3 DEF PopWaiter, Lock
  <2>2. s # <<>> /\ w = Head(s)
    BY <1>3 DEF NextWaiter
  <2>3. /\ r \in Seq(WaiterInfo) /\ Len(r) = Len(s) - 1
        /\ \A i \in 1 .. Len(r) : r[i] = s[i + 1]
    BY <1>1, <2>2, HeadTailProperties
  <2>4. Len(s) \in Nat \ {0} /\ Head(s) = s[1]
    BY <1>1, <2>2, EmptySeq
  <2> HIDE DEF r
  <2>5. Listed(r) = {v \in Listed(s) : v.locker # w.locker} /\ Distinct(r)
    <3>1. Distinct(s) /\ s \in Seq(WaiterInfo)
      BY <1>1 DEF Tidy
    <3> HIDE DEF s
    <3>2. 1 \in 1 .. Len(s)
      BY <2>4
    <3>3. \A i \in 1 .. Len(r) : r[i] = s[IF i < 1 THEN i ELSE i + 1]
      <4>1. \A i \in 1 .. Len(r) : ~ (i < 1)
        BY <2>3, <2>4
      <4> QED BY <2>3, <4>1
    <3>4. /\ Listed(r) = {v \in Listed(s) : v.locker # s[1].locker}
          /\ Distinct(r)
      BY <2>3, <3>1, <3>2, <3>3, ShorterLine
    <3> QED BY <2>2, <2>4, <3>4
  <2>6. /\ y.waiter_list = r /\ y.list_made = lk.list_made
        /\ y.first_waiter = {}
        /\ y.first_owner = lk.first_owner /\ y.owner_set = lk.owner_set
    BY <1>1, <1>3 DEF Lock
  <2>7. lk.list_made
    BY <1>1, <2>2 DEF Tidy
  <2> HIDE DEF y
  <2>8. Tidy(y)
    BY <1>1, <2>5, <2>6, <2>7 DEF Tidy
  <2>9. Waiters(y) = {v \in Waiters(lk) : v.locker # w.locker}
    BY <1>3, <2>5, <2>6, WaitersListed
  <2> QED BY <2>1, <2>8, <2>9
<1> QED BY <1>2, <1>3

\* An operation on the owners leaves the line alone.
SameLine(lk, kept) ==
  /\ kept.first_waiter = lk.first_waiter
  /\ kept.waiter_list = lk.waiter_list
  /\ kept.list_made = lk.list_made

LEMMA SameLineEffect ==
  ASSUME NEW lk, NEW kept, SameLine(lk, kept)
  PROVE  /\ Waiters(kept) = Waiters(lk)
         /\ NoWaiters(kept) <=> NoWaiters(lk)
         /\ NextWaiter(kept) = NextWaiter(lk)
         /\ Tidy(lk) /\ (\A o \in kept.first_owner, p \in kept.owner_set : o.locker # p.locker)
              => Tidy(kept)
BY DEF SameLine, Waiters, NoWaiters, NextWaiter, Tidy

LEMMA FlushOwnerEffect ==
  ASSUME NEW lk, Good(lk), NEW l
  PROVE  /\ Tidy(flush_owner(lk, l)) /\ SameLine(lk, flush_owner(lk, l))
         /\ Owners(flush_owner(lk, l)) = {o \in Owners(lk) : o.locker # l}
<1> DEFINE y == flush_owner(lk, l)
<1>1. lk \in Lock /\ Tidy(lk)
  BY DEF Good, Sound
<1>2. SameLine(lk, y) /\ y.first_owner \subseteq lk.first_owner /\ y.owner_set \subseteq lk.owner_set
  BY <1>1 DEF SameLine, flush_owner, Lock
<1>3. Owners(y) = {o \in Owners(lk) : o.locker # l}
  <2>1. CASE \E o \in lk.first_owner : o.locker = l
    <3>1. PICK f \in Info : lk.first_owner = {f} /\ f.locker = l
      BY <1>1, <2>1 DEF Lock, Opt
    <3>2. y.first_owner = {} /\ y.owner_set = lk.owner_set
      BY <1>1, <2>1 DEF flush_owner, Lock
    <3>3. \A o \in lk.owner_set : o.locker # l
      BY <1>1, <3>1 DEF Tidy
    <3> HIDE DEF y
    <3> QED BY <3>1, <3>2, <3>3 DEF Owners
  <2>2. CASE ~ \E o \in lk.first_owner : o.locker = l
    <3>2. y.first_owner = lk.first_owner /\ y.owner_set = {o \in lk.owner_set : o.locker # l}
      BY <1>1, <2>2 DEF flush_owner, Lock
    <3> HIDE DEF y
    <3> QED BY <2>2, <3>2 DEF Owners
  <2> QED BY <2>1, <2>2
<1> HIDE DEF y
<1>4. Tidy(y)
  BY <1>1, <1>2, SameLineEffect DEF Tidy
<1> QED BY <1>2, <1>3, <1>4 DEF y

LEMMA AddOwnerEffect ==
  ASSUME NEW lk, Good(lk), NEW x \in Info, Owned(lk, x.locker) = {}
  PROVE  Tidy(add_owner(lk, x)) /\ SameLine(lk, add_owner(lk, x))
<1> DEFINE y == add_owner(lk, x)
<1>1. lk \in Lock /\ Tidy(lk)
  BY DEF Good, Sound
<1>2. \A o \in lk.first_owner \cup lk.owner_set : o.locker # x.locker
  BY DEF Owned, Owners
<1>3. SameLine(lk, y)
  BY <1>1 DEF SameLine, add_owner, Lock
<1>4. \/ lk.first_owner = {} /\ y.first_owner = {x} /\ y.owner_set = lk.owner_set
      \/ y.first_owner = lk.first_owner /\ y.owner_set = lk.owner_set \cup {x}
  BY <1>1 DEF add_owner, Lock
<1> HIDE DEF y
<1>5. \A o \in y.first_owner, p \in y.owner_set : o.locker # p.locker
  BY <1>1, <1>2, <1>4 DEF Tidy
<1> QED BY <1>1, <1>3, <1>5, SameLineEffect DEF y

\* A change of l's type is a change of nothing else.
LEMMA UpdateOwnerTypeEffect ==
  ASSUME NEW lk, Good(lk), NEW l, NEW t
  PROVE  LET y == update_owner_type(lk, l, t)
         IN /\ Tidy(y) /\ SameLine(lk, y)
            /\ \A m : m # l => Owned(y, m) = Owned(lk, m)
            /\ Owned(y, l) = {} <=> Owned(lk, l) = {}
            /\ Owners(y) = {} <=> Owners(lk) = {}
            /\ \A o \in Owned(y, l) : o.type = t
<1> DEFINE y == update_owner_type(lk, l, t)
           new_(o) == IF o.locker = l THEN [o EXCEPT !.type = t] ELSE o
<1>1. lk \in Lock /\ Tidy(lk)
  BY DEF Good, Sound
<1>2. SameLine(lk, y)
  BY <1>1 DEF SameLine, update_owner_type, Lock
<1>3. /\ y.first_owner = {new_(o) : o \in lk.first_owner}
      /\ y.owner_set = {new_(o) : o \in lk.owner_set}
  BY <1>1 DEF update_owner_type, Lock, Retype
<1>4. Owners(y) = {new_(o) : o \in Owners(lk)}
  BY <1>1, UpdateOwnerTypeOwners DEF Retype
<1>5. \A o \in Owners(lk) :
        /\ o \in Info /\ new_(o).locker = o.locker
        /\ o.locker # l => new_(o) = o
        /\ o.locker = l => new_(o).type = t
  BY <1>1, OwnersAreInfo DEF Info
<1>6. lk.first_owner \subseteq Owners(lk) /\ lk.owner_set \subseteq Owners(lk)
  BY DEF Owners
<1> HIDE DEF y, new_
<1>7. \A o \in y.first_owner, p \in y.owner_set : o.locker # p.locker
  <2> SUFFICES ASSUME NEW o \in lk.first_owner, NEW p \in lk.owner_set
               PROVE  new_(o).locker # new_(p).locker
    BY <1>3
  <2> QED BY <1>1, <1>5, <1>6 DEF Tidy
<1>8. Tidy(y)
  BY <1>1, <1>2, <1>7, SameLineEffect
<1>9. ASSUME NEW m, m # l PROVE Owned(y, m) = Owned(lk, m)
  BY <1>4, <1>5, <1>9 DEF Owned
<1>10. Owned(y, l) = {} <=> Owned(lk, l) = {}
  BY <1>4, <1>5 DEF Owned
<1>11. \A o \in Owned(y, l) : o.type = t
  BY <1>4, <1>5 DEF Owned
<1>12. Owners(y) = {} <=> Owners(lk) = {}
  BY <1>4
<1> QED BY <1>2, <1>8, <1>9, <1>10, <1>11, <1>12 DEF y

LEMMA DemoteEffect ==
  ASSUME NEW lk, Good(lk), NEW l
  PROVE  LET y == demote(lk, l)
         IN /\ Tidy(y) /\ SameLine(lk, y)
            /\ \A m : m # l => Owned(y, m) = Owned(lk, m)
            /\ Owned(y, l) = {} <=> Owned(lk, l) = {}
            /\ Owners(y) = {} <=> Owners(lk) = {}
            /\ \A o \in Owned(y, l) :
                 \/ o.type = "Read" \/ o \in Owned(lk, l)
                 \/ o.type = "RangeRead" /\ is_owner(lk, l, "RangeWrite")
<1>1. CASE is_owner(lk, l, "RangeWrite") \/ is_owner(lk, l, "Write")
  <2>1. PICK t : /\ demote(lk, l) = update_owner_type(lk, l, t)
                 /\ t = "Read" \/ (t = "RangeRead" /\ is_owner(lk, l, "RangeWrite"))
    BY <1>1 DEF demote
  <2> QED BY <2>1, UpdateOwnerTypeEffect
<1>2. CASE ~ is_owner(lk, l, "RangeWrite") /\ ~ is_owner(lk, l, "Write")
  BY <1>2 DEF demote, Good, SameLine
<1> QED BY <1>1, <1>2

\* A steal takes every entry of the lockers it names, and only those.
LEMMA StealEffect ==
  ASSUME NEW lk, Good(lk), NEW l, NEW P
  PROVE  LET y == steal_lock_preemptable(lk, l, P)
         IN /\ Tidy(y) /\ SameLine(lk, y)
            /\ Owners(y) = {o \in Owners(lk) : o.locker \notin StolenFrom(lk, l, P)}
<1> DEFINE y == steal_lock_preemptable(lk, l, P)
           gone == StolenFrom(lk, l, P)
<1>1. lk \in Lock /\ Tidy(lk)
  BY DEF Good, Sound
<1>2. SameLine(lk, y)
  BY <1>1 DEF SameLine, steal_lock_preemptable, Lock
<1>3. /\ y.first_owner = {o \in lk.first_owner : o.locker \notin gone}
      /\ y.owner_set = {o \in lk.owner_set : o.locker \notin gone}
  BY <1>1 DEF steal_lock_preemptable, Lock
<1> HIDE DEF y, gone
<1>4. Tidy(y)
  BY <1>1, <1>2, <1>3, SameLineEffect DEF Tidy
<1>5. Owners(y) = {o \in Owners(lk) : o.locker \notin gone}
  BY <1>3 DEF Owners
<1> QED BY <1>2, <1>4, <1>5 DEF y, gone

-----------------------------------------------------------------------------
(* What the grant decision says of the requester *)

\* A locker owns one entry of a lock, and its type is the held one.
LEMMA OneEntry ==
  ASSUME NEW lk, Sound(lk), NEW l, NEW p \in Owned(lk, l)
  PROVE  Owned(lk, l) = {p} /\ p.type \in LockTypes /\ p \in Owners(lk)
<1>1. \A o \in Owned(lk, l) : o = p
  BY DEF Sound, Compatible, Owned
<1>2. p \in Owners(lk) /\ p.type \in LockTypes
  BY OwnersAreInfo DEF Sound, Owned, Info
<1> QED BY <1>1, <1>2

LEMMA GrantOfFacts ==
  ASSUME NEW lk, Sound(lk), NEW l \in Locker, NEW t \in LockTypes,
         NEW inLine, NEW sharers, NEW ownFirst \in BOOLEAN
  PROVE  LET g == GrantOf(lk, l, t, inLine, sharers, ownFirst)
         IN /\ g \in Granted \cup Waits \cup {"IllegalUpgrade"}
            /\ g \notin Granted => Owners(lk) # {}
            /\ g = "New" => Owned(lk, l) = {}
            /\ g = "WaitNew" => Owned(lk, l) = {}
            /\ g \in {"Existing", "Promotion"} => Owned(lk, l) # {}
<1>1. Owners(lk) = {} => Owned(lk, l) = {}
  BY DEF Owned
<1> QED BY <1>1 DEF GrantOf, Granted, Waits

\* Nobody waits for the type it owns already.
LEMMA WaitsForMore ==
  ASSUME NEW lk, Sound(lk), NEW l \in Locker, NEW t \in LockTypes,
         NEW inLine, NEW ownFirst \in BOOLEAN,
         GrantOf(lk, l, t, inLine, Sharers(l), ownFirst) \in Waits
  PROVE  ~ is_owner(lk, l, t)
<1> SUFFICES ASSUME NEW p \in Owned(lk, l), p.type = t
             PROVE  FALSE
  BY DEF is_owner
<1>1. Owned(lk, l) = {p} /\ p \in Owners(lk) /\ p.locker = l
  BY OneEntry DEF Owned
<1>2. get_upgrade(t, t) = t
  BY DEF get_upgrade, LockTypes, causes_restart, is_write_lock
<1>3. (CHOOSE o \in Owned(lk, l) : TRUE).type = t
  BY <1>1
<1>4. ASSUME NEW o \in Foreign(lk, l, Sharers(l))
      PROVE  get_conflict(o.type, t) # "Restart"
  <2>1. o \in Owners(lk) /\ o.locker # l /\ o.locker \in Locker /\ ~ shares_fn(l, o.locker)
    BY OwnersAreInfo DEF Foreign, Sharers, Sound, Info
  <2>2. ~ shares_fn(o.locker, p.locker)
    BY <1>1, <2>1, SharesSymmetric
  <2>3. get_conflict(o.type, p.type) = "Allow"
    BY <1>1, <2>1, <2>2 DEF Sound, Compatible
  <2> QED BY <2>3
<1>5. ~ \E o \in Foreign(lk, l, Sharers(l)) : get_conflict(o.type, t) = "Restart"
  BY <1>4
<1>6. GrantOf(lk, l, t, inLine, Sharers(l), ownFirst) \in Granted \cup {"IllegalUpgrade"}
  <2>1. Owned(lk, l) # {} /\ Owners(lk) # {}
    BY <1>1
  <2> QED BY <1>2, <1>3, <1>5, <2>1 DEF GrantOf, Granted
<1> QED BY <1>6 DEF Granted, Waits

\* The types that can turn up: what is asked for, Read, and both range types once
\* one of them is asked for (an upgrade or a demotion leads to the other).
Reach ==
  {"Read"} \cup RequestTypes \cup
    {t \in {"RangeRead", "RangeWrite"} : RequestTypes \cap {"RangeRead", "RangeWrite"} # {}}

LEMMA ReachClosed ==
  /\ Reach \subseteq LockTypes
  /\ \A s, t \in Reach : get_upgrade(s, t) \in LockTypes => get_upgrade(s, t) \in Reach
  /\ "RangeWrite" \in Reach => "RangeRead" \in Reach
  /\ "Read" \in Reach
<1>1. Reach \subseteq LockTypes
  BY RequestAssumption DEF Reach, LockTypes
<1>2. {"RangeRead", "RangeWrite"} \cap Reach # {} => {"RangeRead", "RangeWrite"} \subseteq Reach
  BY DEF Reach
<1>3. ASSUME NEW s \in Reach, NEW t \in Reach, get_upgrade(s, t) \in LockTypes
      PROVE  get_upgrade(s, t) \in Reach
  <2>1. s \in LockTypes /\ t \in LockTypes
    BY <1>1
  <2>2. \/ get_upgrade(s, t) = s \/ get_upgrade(s, t) = t
        \/ get_upgrade(s, t) = "RangeWrite" /\ ("RangeRead" \in {s, t} \/ "RangeWrite" \in {s, t})
    BY <1>3, <2>1 DEF get_upgrade, LockTypes, causes_restart, is_write_lock
  <2> QED BY <1>2, <2>2
<1> QED BY <1>1, <1>2, <1>3 DEF Reach

\* Who waits for a promotion owns no write lock yet.
LEMMA PromotionWaiter ==
  ASSUME NEW lk, Sound(lk), NEW l \in Locker, NEW t \in LockTypes,
         NEW inLine, NEW ownFirst \in BOOLEAN,
         GrantOf(lk, l, t, inLine, Sharers(l), ownFirst) = "WaitPromotion",
         NEW p \in Owned(lk, l)
  PROVE  ~ is_write_lock(p.type)
<1>1. p \in Owners(lk) /\ p.locker = l /\ p.type \in LockTypes
  BY OneEntry DEF Owned
<1>2. PICK o \in Foreign(lk, l, Sharers(l)) : get_conflict(o.type, t) = "Block"
  BY DEF GrantOf
<1>3. o \in Owners(lk) /\ o.locker # l /\ o.type \in LockTypes /\ ~ shares_fn(l, o.locker)
  BY OwnersAreInfo DEF Foreign, Sharers, Sound, Info
<1>4. ~ shares_fn(o.locker, p.locker)
  BY <1>1, <1>3, SharesSymmetric
<1>5. get_conflict(o.type, p.type) = "Allow"
  BY <1>1, <1>3, <1>4 DEF Sound, Compatible
<1> QED BY <1>1, <1>2, <1>3, <1>5
        DEF get_conflict, LockTypes, is_write_lock, causes_restart

\* A grant gives the requester an entry, of the requested type when it had none,
\* and changes no other entry and not the line.
LEMMA GrantEffect ==
  ASSUME NEW lk, Good(lk), NEW l \in Locker, NEW t \in LockTypes,
         NEW inLine, NEW ownFirst \in BOOLEAN,
         NEW sharers, sharers \subseteq Sharers(l),
         GrantOf(lk, l, t, inLine, sharers, ownFirst) \in Granted
  PROVE  LET y == Grant(lk, l, t, GrantOf(lk, l, t, inLine, sharers, ownFirst))
         IN /\ Good(y) /\ SameLine(lk, y)
            /\ \A m : m # l => Owned(y, m) = Owned(lk, m)
            /\ Owned(y, l) # {}
            /\ Owned(lk, l) = {} => Owned(y, l) = {[locker |-> l, type |-> t]}
            /\ \A p \in Owned(lk, l), o \in Owned(y, l) : o.type = get_upgrade(p.type, t)
<1> DEFINE g == GrantOf(lk, l, t, inLine, sharers, ownFirst)
           y == Grant(lk, l, t, g)
           x == [locker |-> l, type |-> t]
<1>1. Sound(lk) /\ lk \in Lock /\ Compatible(lk)
  BY DEF Good, Sound
<1>2. Sound(y)
  BY <1>1, GrantCompatible DEF Sound
<1>3. g \in Granted
  OBVIOUS
<1>4. /\ g = "New" => Owned(lk, l) = {}
      /\ g \in {"Existing", "Promotion"} => Owned(lk, l) # {}
  BY <1>1, GrantOfFacts
<1>5. CASE g = "New"
  <2> HIDE DEF g
  <2>1. y = add_owner(lk, x)
    BY <1>5 DEF Grant
  <2>2. x \in Info /\ x.locker = l
    BY DEF Info
  <2>3. Tidy(y) /\ SameLine(lk, y)
    BY <1>4, <1>5, <2>1, <2>2, AddOwnerEffect
  <2>4. Owners(y) = Owners(lk) \cup {x}
    BY <1>1, <2>1, AddOwnerOwners
  <2> HIDE DEF x, y
  <2>5. \A m : m # l => Owned(y, m) = Owned(lk, m)
    BY <2>2, <2>4 DEF Owned
  <2>6. Owned(y, l) = {x}
    BY <1>4, <1>5, <2>2, <2>4 DEF Owned
  <2> QED BY <1>2, <1>4, <1>5, <2>3, <2>5, <2>6 DEF Good, x, y, g
<1>6. CASE g \in {"Existing", "Promotion"}
  <2>1. PICK p : p \in Owned(lk, l)
    BY <1>4, <1>6
  <2>2. Owned(lk, l) = {p}
    BY <1>1, <2>1, OneEntry
  <2>3. (CHOOSE o \in Owned(lk, l) : TRUE) = p
    BY <2>2
  <2> HIDE DEF g
  <2>4. y = update_owner_type(lk, l, get_upgrade(p.type, t))
    BY <1>6, <2>3 DEF Grant
  <2> HIDE DEF y
  <2>5. /\ Tidy(y) /\ SameLine(lk, y)
        /\ \A m : m # l => Owned(y, m) = Owned(lk, m)
        /\ Owned(y, l) = {} <=> Owned(lk, l) = {}
        /\ \A o \in Owned(y, l) : o.type = get_upgrade(p.type, t)
    BY <2>4, UpdateOwnerTypeEffect
  <2> QED BY <1>2, <2>2, <2>5 DEF Good, y, g
<1> QED BY <1>3, <1>5, <1>6 DEF Granted

\* The entry a request leaves in the line.
Entry(l, t, a) == [locker |-> l, type |-> IF a = "WaitRestart" THEN "Restart" ELSE t]

LEMMA EnqueueEffect ==
  ASSUME NEW lk, Good(lk), NEW l \in Locker, NEW t \in LockTypes, NEW a \in Waits,
         Queued(lk, l) = {}
  PROVE  LET y == Enqueue(lk, l, t, a)
         IN /\ Good(y) /\ Owners(y) = Owners(lk)
            /\ Waiters(y) = Waiters(lk) \cup {Entry(l, t, a)}
<1> DEFINE x == Entry(l, t, a)
           y == Enqueue(lk, l, t, a)
<1>1. x \in WaiterInfo /\ x.locker = l
  BY DEF Entry, WaiterInfo
<1>2. lk \in Lock /\ Sound(lk)
  BY DEF Good, Sound
<1>3. y = add_waiter_to_head_of_list(lk, x) \/ y = add_waiter_to_end_of_list(lk, x)
  BY DEF Enqueue, Entry, Waits
<1> HIDE DEF x, y
<1>4. Tidy(y) /\ Waiters(y) = Waiters(lk) \cup {x}
  BY <1>1, <1>3, EndOfListEffect, HeadOfListEffect
<1>5. y \in Lock /\ Owners(y) = Owners(lk)
  BY <1>1, <1>2, <1>3, EndOfListType, HeadOfListType, WaiterOwners
<1>6. Sound(y)
  BY <1>2, <1>5, FewerOwners DEF Sound
<1> QED BY <1>4, <1>5, <1>6 DEF Good, x, y

\* How an answer of lock_with_sharing relates to the grant decision.
LEMMA AnswerFacts ==
  ASSUME NEW lk, Sound(lk), NEW l \in Locker, NEW t \in LockTypes, NEW ownFirst \in BOOLEAN
  PROVE  LET a == Answer(lk, l, t, ownFirst)
             g == GrantOf(lk, l, t, NoWaiters(lk), Sharers(l), ownFirst)
         IN /\ a \in Granted \cup Waits \cup {"IllegalUpgrade"}
            /\ a \notin Waits => a = g
            /\ a \in Waits => g \in Waits
            /\ a # "WaitRestart" => a = g
            /\ a \in Waits => ~ is_owner(lk, l, t)
            /\ a \notin Granted => Owners(lk) # {}
            /\ a = "WaitNew" => Owned(lk, l) = {}
            /\ a = "WaitPromotion" => \A o \in Owned(lk, l) : ~ is_write_lock(o.type)
<1> DEFINE a == Answer(lk, l, t, ownFirst)
           g == GrantOf(lk, l, t, NoWaiters(lk), Sharers(l), ownFirst)
<1>1. /\ g \in Granted \cup Waits \cup {"IllegalUpgrade"}
      /\ g \notin Granted => Owners(lk) # {}
      /\ g = "WaitNew" => Owned(lk, l) = {}
  BY GrantOfFacts
<1>2. g \in Waits => ~ is_owner(lk, l, t)
  BY WaitsForMore
<1>5. g = "WaitPromotion" => \A o \in Owned(lk, l) : ~ is_write_lock(o.type)
  BY PromotionWaiter
<1>3. a = IF g \in Waits /\ RestartBehindWaiter(lk, l, t) THEN "WaitRestart" ELSE g
  BY DEF Answer
<1> HIDE DEF a, g
<1>4. Granted \cap Waits = {} /\ "WaitRestart" \in Waits
  BY DEF Granted, Waits
<1> QED BY <1>1, <1>2, <1>3, <1>4, <1>5 DEF a, g

\* The type a grant leads to is one of the reachable ones.
LEMMA GrantReach ==
  ASSUME NEW lk, NEW y, Good(y), NEW l, NEW t \in Reach,
         \A p \in Owned(lk, l) : p.type \in Reach,
         Owned(lk, l) = {} => Owned(y, l) = {[locker |-> l, type |-> t]},
         \A p \in Owned(lk, l), o \in Owned(y, l) : o.type = get_upgrade(p.type, t)
  PROVE  \A o \in Owned(y, l) : o.type \in Reach
<1> SUFFICES ASSUME NEW o \in Owned(y, l) PROVE o.type \in Reach
  OBVIOUS
<1>1. CASE Owned(lk, l) = {}
  BY <1>1
<1>2. CASE Owned(lk, l) # {}
  <2>1. PICK p \in Owned(lk, l) : o.type = get_upgrade(p.type, t)
    BY <1>2
  <2>2. o.type \in LockTypes
    BY OneEntry DEF Good
  <2> QED BY <2>1, <2>2, ReachClosed
<1> QED BY <1>1, <1>2

-----------------------------------------------------------------------------
(* The inductive invariant *)

\* What l owns of the lock on n, and its entries in that line.
Own(n, l) == Owned(lock_tables[n], l)
Que(n, l) == Queued(lock_tables[n], l)

\* The LSNs the caller has recorded.
Recorded(l) == read_locks[l] \cup write_locks[l]

\* An entry in a line belongs to a thread that waits for this LSN, has not been
\* granted and owns nothing of the type it asks for.
LineOf(l) ==
  \A n \in Lsn : \A w \in Que(n, l) :
    /\ call[l].pc \in WaitPcs \ {"clear"} /\ call[l].lsn = n /\ ~ granted[l]
    /\ w = Entry(l, call[l].type, call[l].wait)
    /\ \A o \in Own(n, l) : o.type # call[l].type

\* A thread in the wait path stands in the line or has been granted; it validates
\* only when it gave up; it holds a shard only in the loop of its own release; an
\* edge of the graph is that of a waiting thread.
ThreadOf(l) ==
  /\ call[l].pc \in WaitPcs \ {"clear"} => granted[l] \/ Que(call[l].lsn, l) # {}
  /\ call[l].pc = "validate" => call[l].outcome # "Granted"
  /\ \A n \in Lsn : shard[n] = l => call[l].pc = "releasing" /\ call[l].lsn = n
  /\ waiter_graph[l] # {} => Waiting(l)

\* The request of l is served: its flag is up, or it is on its way out granted.
Served(l) ==
  /\ Waiting(l) /\ call[l].wait # "WaitRestart"
  /\ IF call[l].pc = "clear" THEN call[l].outcome = "Granted" ELSE granted[l]

\* An ownership that is not recorded is the one l has just been served.
OwnOf(l) ==
  \A n \in Lsn :
    Own(n, l) # {} /\ n \notin Recorded(l) =>
      /\ Served(l) /\ granted[l] /\ call[l].lsn = n
      /\ \E o \in Own(n, l) : o.type = call[l].type

\* A request that was served owns its lock, unless it was stolen again.
ServedOf(l) == Served(l) => Own(call[l].lsn, l) # {} \/ l \in preempted

\* A caller that gives up no single lock owns what it recorded, or is marked.
KeepOf(l) ==
  l \notin ReadCommitted /\ txn[l] \in {"Open", "MustAbort"} =>
    \A n \in Recorded(l) : Own(n, l) # {} \/ l \in preempted

\* What a waiter for a new lock owns is what it was granted.
NewOf(l) ==
  Waiting(l) /\ call[l].wait = "WaitNew" =>
    \A o \in Own(call[l].lsn, l) :
      o.type = call[l].type /\ (call[l].pc = "clear" => call[l].outcome = "Granted")

\* A waiter for a promotion owns no write lock before it was granted; what it
\* owns then is of the type it asked for, or, having owned a range read and asked
\* for a write, a range write.
PromotionOf(l) ==
  Waiting(l) /\ call[l].wait = "WaitPromotion" =>
    \A o \in Own(call[l].lsn, l) : is_write_lock(o.type) =>
      \/ o.type = call[l].type /\ (call[l].pc = "clear" => call[l].outcome = "Granted")
      \/ o.type = "RangeWrite" /\ call[l].type = "Write"

\* Only reachable types are asked for and owned.
TypesOf(l) ==
  /\ call[l].type \in Reach
  /\ \A n \in Lsn : \A o \in Own(n, l) : o.type \in Reach

LockerInv(l) ==
  /\ LineOf(l) /\ ThreadOf(l)
  /\ OwnOf(l) /\ ServedOf(l) /\ KeepOf(l)
  /\ NewOf(l) /\ PromotionOf(l) /\ TypesOf(l)

\* The slots and the line are in order, and somebody attends to the line.
LockInv(n) ==
  /\ Tidy(lock_tables[n])
  /\ Free(n) /\ Waiters(lock_tables[n]) # {} => Owners(lock_tables[n]) # {}

WaitInv ==
  /\ \A l \in Locker : LockerInv(l)
  /\ \A n \in Lsn : LockInv(n)

-----------------------------------------------------------------------------
(* Frames: what a step leaves alone *)

LEMMA TableGood ==
  ASSUME Inv, WaitInv, NEW n \in Lsn
  PROVE  Good(lock_tables[n]) /\ Sound(lock_tables[n])
BY TableSound DEF WaitInv, LockInv, Good

\* The call of a waiting thread is for an LSN.
LEMMA CallLsn ==
  ASSUME Inv, NEW l \in Locker, Waiting(l)
  PROVE  call[l].lsn \in Lsn
<1>1. call[l].pc # "idle"
  BY DEF Waiting, WaitPcs
<1> QED BY <1>1, CallFields

\* Nothing about m changes; or it loses a lock and is marked.
LEMMA LockerKept ==
  ASSUME Inv, NEW m \in Locker, LockerInv(m),
         call'[m] = call[m], granted'[m] = granted[m], txn'[m] = txn[m],
         waiter_graph'[m] = waiter_graph[m],
         read_locks'[m] = read_locks[m], write_locks'[m] = write_locks[m],
         m \in preempted => m \in preempted',
         \A n \in Lsn : shard'[n] = m => shard[n] = m,
         \A n \in Lsn : Que(n, m)' = Que(n, m),
         \A n \in Lsn : \/ Own(n, m)' = Own(n, m)
                        \/ Own(n, m)' = {} /\ m \in preempted'
  PROVE  LockerInv(m)'
<1>1. Waiting(m)' = Waiting(m) /\ Served(m)' = Served(m) /\ Recorded(m)' = Recorded(m)
  BY DEF Waiting, Served, Recorded
<1>2. Waiting(m) => call[m].lsn \in Lsn
  BY CallLsn
<1>3. Served(m) => Waiting(m)
  BY DEF Served
<1>4. Recorded(m) \subseteq Lsn
  BY DEF Recorded, Inv, TypeOK
<1>5. LineOf(m)'
  BY DEF LockerInv, LineOf
<1>6. ThreadOf(m)'
  <2>1. call[m].pc \in WaitPcs \ {"clear"} => call[m].lsn \in Lsn
    BY <1>2 DEF Waiting
  <2> QED BY <1>1, <2>1 DEF LockerInv, ThreadOf
<1>7. OwnOf(m)'
  BY <1>1 DEF LockerInv, OwnOf
<1>8. ServedOf(m)'
  BY <1>1, <1>2, <1>3 DEF LockerInv, ServedOf
<1>9. KeepOf(m)'
  BY <1>1, <1>4 DEF LockerInv, KeepOf
<1>10. NewOf(m)'
  BY <1>1, <1>2 DEF LockerInv, NewOf
<1>11. PromotionOf(m)'
  BY <1>1, <1>2 DEF LockerInv, PromotionOf
<1>12. TypesOf(m)'
  BY DEF LockerInv, TypesOf
<1> QED BY <1>5, <1>6, <1>7, <1>8, <1>9, <1>10, <1>11, <1>12 DEF LockerInv

\* The step is one of l: the other threads and callers stand still.
OnlyOf(l) ==
  \A m \in Locker \ {l} :
    /\ call'[m] = call[m] /\ granted'[m] = granted[m] /\ txn'[m] = txn[m]
    /\ waiter_graph'[m] = waiter_graph[m]
    /\ read_locks'[m] = read_locks[m] /\ write_locks'[m] = write_locks[m]
    /\ m \in preempted => m \in preempted'

\* What an update of one lock means for owners and lines.
LEMMA TableStep ==
  ASSUME Inv, NEW n \in Lsn, NEW y, lock_tables' = [lock_tables EXCEPT ![n] = y]
  PROVE  \A m :
           /\ Own(n, m)' = Owned(y, m) /\ Que(n, m)' = Queued(y, m)
           /\ \A k \in Lsn \ {n} : Own(k, m)' = Own(k, m) /\ Que(k, m)' = Que(k, m)
<1>1. lock_tables'[n] = y /\ \A k \in Lsn \ {n} : lock_tables'[k] = lock_tables[k]
  BY DEF Inv, TypeOK
<1> QED BY <1>1 DEF Own, Que

\* The locks after such an update.
LEMMA LocksKept ==
  ASSUME Inv, WaitInv, NEW n \in Lsn, NEW y, lock_tables' = [lock_tables EXCEPT ![n] = y],
         Tidy(y), shard'[n] = NoLocker /\ Waiters(y) # {} => Owners(y) # {},
         \A k \in Lsn \ {n} : shard'[k] = shard[k]
  PROVE  \A k \in Lsn : LockInv(k)'
<1>1. lock_tables'[n] = y /\ \A k \in Lsn \ {n} : lock_tables'[k] = lock_tables[k]
  BY DEF Inv, TypeOK
<1>2. LockInv(n)'
  BY <1>1 DEF LockInv, Free
<1>3. ASSUME NEW k \in Lsn \ {n} PROVE LockInv(k)'
  BY <1>1 DEF LockInv, Free, WaitInv
<1> QED BY <1>2, <1>3

\* A step of l on the lock of n that touches nobody else keeps the invariant when
\* it keeps it for l.
LEMMA StepKept ==
  ASSUME Inv, WaitInv, NEW l \in Locker, NEW n \in Lsn, NEW y,
         lock_tables' = [lock_tables EXCEPT ![n] = y],
         Untouched(lock_tables[n], y, l), OnlyOf(l),
         Tidy(y), shard'[n] = NoLocker /\ Waiters(y) # {} => Owners(y) # {},
         shard'[n] \in {shard[n], l, NoLocker},
         \A k \in Lsn \ {n} : shard'[k] = shard[k],
         LockerInv(l)'
  PROVE  WaitInv'
<1>1. \A k \in Lsn : LockInv(k)'
  BY LocksKept
<1>2. ASSUME NEW m \in Locker \ {l} PROVE LockerInv(m)'
  <2>1. /\ \A k \in Lsn : Que(k, m)' = Que(k, m)
        /\ \A k \in Lsn : Own(k, m)' = Own(k, m)
    BY TableStep DEF Untouched, Own, Que
  <2>2. m # NoLocker /\ m # l
    BY LockerAssumption DEF NoLocker
  <2>3. \A k \in Lsn : shard'[k] = m => shard[k] = m
    BY <2>2
  <2>4. LockerInv(m)
    BY DEF WaitInv
  <2> QED BY <2>1, <2>3, <2>4, LockerKept DEF OnlyOf
<1> QED BY <1>1, <1>2 DEF WaitInv

\* The same for a step that leaves the table and the shards alone.
LEMMA QuietKept ==
  ASSUME Inv, WaitInv, NEW l \in Locker, UNCHANGED <<lock_tables, shard>>, OnlyOf(l),
         LockerInv(l)'
  PROVE  WaitInv'
<1>1. \A k \in Lsn : LockInv(k)'
  BY DEF WaitInv, LockInv, Free
<1>2. ASSUME NEW m \in Locker \ {l} PROVE LockerInv(m)'
  <2>1. \A k \in Lsn : Que(k, m)' = Que(k, m) /\ Own(k, m)' = Own(k, m)
    BY DEF Que, Own
  <2>4. LockerInv(m)
    BY DEF WaitInv
  <2> QED BY <2>1, <2>4, LockerKept DEF OnlyOf
<1> QED BY <1>1, <1>2 DEF WaitInv

\* A thread outside the wait path stands in no line and owns only what is recorded.
LEMMA Outside ==
  ASSUME NEW l \in Locker, LockerInv(l), ~ Waiting(l)
  PROVE  /\ \A n \in Lsn : Que(n, l) = {}
         /\ \A n \in Lsn : Own(n, l) # {} => n \in Recorded(l)
         /\ waiter_graph[l] = {}
BY DEF LockerInv, LineOf, OwnOf, ThreadOf, Waiting, Served

\* And this is all there is to say of it, besides what it keeps.
LEMMA OutsideAfter ==
  ASSUME NEW l \in Locker, ~ Waiting(l)',
         \A n \in Lsn : Que(n, l)' = {},
         \A n \in Lsn : Own(n, l)' # {} => n \in Recorded(l)',
         \A n \in Lsn : shard'[n] = l => call'[l].pc = "releasing" /\ call'[l].lsn = n,
         waiter_graph'[l] = {}, KeepOf(l)', TypesOf(l)'
  PROVE  LockerInv(l)'
<1>1. ~ (call'[l].pc \in WaitPcs)
  BY DEF Waiting
<1>2. call'[l].pc # "validate"
  BY <1>1 DEF WaitPcs
<1> QED BY <1>1, <1>2 DEF LockerInv, LineOf, OwnOf, ThreadOf, Waiting, Served, ServedOf, NewOf,
            PromotionOf

-----------------------------------------------------------------------------
(* Steps within the wait path *)

\* A step of a waiting thread that changes neither locks nor flags, and leaves
\* the loop only when it was granted or gives up.
LEMMA WithinWait ==
  ASSUME Inv, WaitInv, NEW l \in Locker,
         Waiting(l), call[l].pc # "clear", Waiting(l)',
         UNCHANGED <<lock_tables, shard, preempted, granted, txn, recorded>>,
         \A m \in Locker \ {l} : call'[m] = call[m] /\ waiter_graph'[m] = waiter_graph[m],
         call'[l].lsn = call[l].lsn, call'[l].type = call[l].type, call'[l].wait = call[l].wait,
         call'[l].pc = "clear" => granted[l] /\ call'[l].outcome = "Granted",
         call'[l].pc = "validate" => call'[l].outcome # "Granted"
  PROVE  WaitInv'
<1>1. LockerInv(l)
  BY DEF WaitInv
<1>2. \A n, m : Own(n, m)' = Own(n, m) /\ Que(n, m)' = Que(n, m)
  BY DEF Own, Que
<1>3. Recorded(l)' = Recorded(l)
  BY DEF Recorded, recorded
<1>4. call[l].pc \in WaitPcs \ {"clear"} /\ call'[l].pc \in WaitPcs
  BY DEF Waiting
<1>5. Served(l)' = Served(l)
  BY <1>4 DEF Served, Waiting
<1>6. LineOf(l)'
  BY <1>1, <1>2, <1>4 DEF LockerInv, LineOf
<1>7. ThreadOf(l)'
  <2>1. ThreadOf(l) /\ "releasing" \notin WaitPcs
    BY <1>1 DEF LockerInv, WaitPcs
  <2> QED BY <1>2, <1>4, <2>1 DEF ThreadOf
<1>8. OwnOf(l)' /\ ServedOf(l)' /\ KeepOf(l)'
  BY <1>1, <1>2, <1>3, <1>5 DEF LockerInv, OwnOf, ServedOf, KeepOf
<1>9. NewOf(l)'
  BY <1>1, <1>2 DEF LockerInv, NewOf
<1>11. PromotionOf(l)' /\ TypesOf(l)'
  BY <1>1, <1>2 DEF LockerInv, PromotionOf, TypesOf
<1>10. OnlyOf(l)
  BY DEF OnlyOf, recorded
<1> QED BY <1>6, <1>7, <1>8, <1>9, <1>10, <1>11, QuietKept DEF LockerInv

LEMMA WaitPathWait ==
  ASSUME Inv, WaitInv, NEW l \in Locker,
         \/ BudgetSpent(l) \/ record_wait(l) \/ check_deadlock_for_waiter(l)
         \/ compute_lock_counts(l) \/ Verdict(l) \/ Wake(l) \/ SliceExpires(l)
         \/ \E e \in {"LockTimeout", "TransactionTimeout"} : TimesOut(l, e)
  PROVE  WaitInv'
<1>0. call \in [Locker -> Call] /\ call[l] \in Call /\ waiter_graph \in [Locker -> SUBSET Locker]
  BY DEF Inv, TypeOK
<1>1. CASE BudgetSpent(l)
  <2>1. /\ call[l].pc = "queued" /\ UNCHANGED <<lock_tables, shard, preempted, granted, txn, recorded>>
        /\ \A m \in Locker \ {l} : call'[m] = call[m] /\ waiter_graph'[m] = waiter_graph[m]
    BY <1>0, <1>1 DEF BudgetSpent
  <2>2. /\ call'[l].lsn = call[l].lsn /\ call'[l].type = call[l].type
        /\ call'[l].wait = call[l].wait
        /\ call'[l].pc = "validate" /\ call'[l].outcome = "TransactionTimeout"
    BY <1>0, <1>1 DEF BudgetSpent, Call, CallRecord
  <2> QED BY <2>1, <2>2, WithinWait DEF Waiting, WaitPcs
<1>2. CASE record_wait(l)
  <2>1. /\ call[l].pc = "queued" /\ UNCHANGED <<lock_tables, shard, preempted, granted, txn, recorded>>
        /\ \A m \in Locker \ {l} : call'[m] = call[m] /\ waiter_graph'[m] = waiter_graph[m]
    BY <1>0, <1>2 DEF record_wait, Goto
  <2>2. /\ call'[l].lsn = call[l].lsn /\ call'[l].type = call[l].type
        /\ call'[l].wait = call[l].wait
        /\ call'[l].pc = "check"
    BY <1>0, <1>2 DEF record_wait, Goto, Call, CallRecord
  <2> QED BY <2>1, <2>2, WithinWait DEF Waiting, WaitPcs
<1>3. CASE check_deadlock_for_waiter(l)
  <2>1. /\ call[l].pc = "check" /\ UNCHANGED <<lock_tables, shard, preempted, granted, txn, recorded>>
        /\ \A m \in Locker \ {l} : call'[m] = call[m] /\ waiter_graph'[m] = waiter_graph[m]
    BY <1>0, <1>3 DEF check_deadlock_for_waiter, Goto
  <2>2. /\ call'[l].lsn = call[l].lsn /\ call'[l].type = call[l].type
        /\ call'[l].wait = call[l].wait
        /\ call'[l].pc \in {"sleep", "counting"}
    BY <1>0, <1>3 DEF check_deadlock_for_waiter, Goto, Call, CallRecord
  <2> QED BY <2>1, <2>2, WithinWait DEF Waiting, WaitPcs
<1>4. CASE compute_lock_counts(l)
  <2>1. /\ call[l].pc = "counting" /\ UNCHANGED <<lock_tables, shard, preempted, granted, txn, recorded>>
        /\ \A m \in Locker \ {l} : call'[m] = call[m] /\ waiter_graph'[m] = waiter_graph[m]
    BY <1>0, <1>4 DEF compute_lock_counts
  <2>2. /\ call'[l].lsn = call[l].lsn /\ call'[l].type = call[l].type
        /\ call'[l].wait = call[l].wait
        /\ call'[l].pc = "counting"
    BY <1>0, <1>4 DEF compute_lock_counts, Call, CallRecord
  <2> QED BY <2>1, <2>2, WithinWait DEF Waiting, WaitPcs
<1>5. CASE Verdict(l)
  <2>1. /\ call[l].pc = "counting" /\ UNCHANGED <<lock_tables, shard, preempted, granted, txn, recorded>>
        /\ \A m \in Locker \ {l} : call'[m] = call[m] /\ waiter_graph'[m] = waiter_graph[m]
    BY <1>0, <1>5 DEF Verdict
  <2>2. /\ call'[l].lsn = call[l].lsn /\ call'[l].type = call[l].type
        /\ call'[l].wait = call[l].wait
        /\ \/ call'[l].pc = "sleep"
           \/ call'[l].pc = "validate" /\ call'[l].outcome = "Deadlock"
    BY <1>0, <1>5 DEF Verdict, Call, CallRecord
  <2> QED BY <2>1, <2>2, WithinWait DEF Waiting, WaitPcs
<1>6. CASE Wake(l)
  <2>1. /\ call[l].pc = "sleep" /\ UNCHANGED <<lock_tables, shard, preempted, granted, txn, recorded>>
        /\ \A m \in Locker \ {l} : call'[m] = call[m] /\ waiter_graph'[m] = waiter_graph[m]
    BY <1>0, <1>6 DEF Wake
  <2>2. /\ call'[l].lsn = call[l].lsn /\ call'[l].type = call[l].type
        /\ call'[l].wait = call[l].wait
        /\ call'[l].pc = "clear" /\ call'[l].outcome = "Granted" /\ granted[l]
    BY <1>0, <1>6 DEF Wake, Call, CallRecord
  <2> QED BY <2>1, <2>2, WithinWait DEF Waiting, WaitPcs
<1>7. CASE SliceExpires(l)
  <2>1. /\ call[l].pc = "sleep" /\ UNCHANGED <<lock_tables, shard, preempted, granted, txn, recorded>>
        /\ \A m \in Locker \ {l} : call'[m] = call[m] /\ waiter_graph'[m] = waiter_graph[m]
    BY <1>0, <1>7 DEF SliceExpires
  <2>2. /\ call'[l].lsn = call[l].lsn /\ call'[l].type = call[l].type
        /\ call'[l].wait = call[l].wait
        /\ call'[l].pc = "check"
    BY <1>0, <1>7 DEF SliceExpires, Call, CallRecord
  <2> QED BY <2>1, <2>2, WithinWait DEF Waiting, WaitPcs
<1>8. ASSUME NEW e \in {"LockTimeout", "TransactionTimeout"}, TimesOut(l, e)
      PROVE  WaitInv'
  <2>1. /\ call[l].pc = "sleep" /\ UNCHANGED <<lock_tables, shard, preempted, granted, txn, recorded>>
        /\ \A m \in Locker \ {l} : call'[m] = call[m] /\ waiter_graph'[m] = waiter_graph[m]
    BY <1>0, <1>8 DEF TimesOut
  <2>2. /\ call'[l].lsn = call[l].lsn /\ call'[l].type = call[l].type
        /\ call'[l].wait = call[l].wait
        /\ call'[l].pc = "validate" /\ call'[l].outcome = e
    BY <1>0, <1>8 DEF TimesOut, Call, CallRecord
  <2> QED BY <2>1, <2>2, WithinWait DEF Waiting, WaitPcs
<1> QED BY <1>1, <1>2, <1>3, <1>4, <1>5, <1>6, <1>7, <1>8

-----------------------------------------------------------------------------
(* Requests *)

\* The places of a thread that is neither waiting nor inside release's loop.
Away == {"idle", "probed", "steal", "fallback"}

\* A thread that is away moves to such a place and nothing it holds changes.
LEMMA StaysAway ==
  ASSUME Inv, WaitInv, NEW l \in Locker,
         call[l].pc \in Away, call'[l].pc \in Away, call'[l].type \in Reach,
         UNCHANGED <<lock_tables, shard, waiter_graph, recorded>>, OnlyOf(l),
         txn'[l] \in {"Open", "MustAbort"} =>
           txn[l] \in {"Open", "MustAbort"} /\ (l \in preempted => l \in preempted')
  PROVE  WaitInv'
<1>1. LockerInv(l)
  BY DEF WaitInv
<1>2. ~ Waiting(l) /\ ~ Waiting(l)' /\ call[l].pc # "releasing"
  BY DEF Away, Waiting, WaitPcs
<1>3. \A n : Own(n, l)' = Own(n, l) /\ Que(n, l)' = Que(n, l)
  BY DEF Own, Que
<1>4. Recorded(l)' = Recorded(l)
  BY DEF Recorded, recorded
<1>5. \A n \in Lsn : shard[n] # l
  BY <1>1, <1>2 DEF LockerInv, ThreadOf
<1>6. KeepOf(l)'
  BY <1>1, <1>3, <1>4 DEF LockerInv, KeepOf
<1>7. TypesOf(l)'
  BY <1>1, <1>3 DEF LockerInv, TypesOf
<1>8. LockerInv(l)'
  BY <1>1, <1>2, <1>3, <1>4, <1>5, <1>6, <1>7, Outside, OutsideAfter
<1> QED BY <1>8, QuietKept

\* Who gives up leaves the line; who is granted was recorded: the returns.
LEMMA ReturnErrorFacts ==
  ASSUME Inv, NEW l \in Locker, NEW e, ReturnError(l, e)
  PROVE  /\ call'[l] = NoCall /\ call'[l].pc = "idle" /\ call'[l].type \in Reach
         /\ txn'[l] \in {"Open", "MustAbort"} => txn[l] \in {"Open", "MustAbort"}
         /\ UNCHANGED recorded
         /\ \A m \in Locker \ {l} : call'[m] = call[m] /\ txn'[m] = txn[m]
BY ReachClosed DEF ReturnError, Inv, TypeOK, NoCall

LEMMA ReturnGrantedFacts ==
  ASSUME Inv, NEW l \in Locker, NEW n, NEW t, ReturnGranted(l, n, t)
  PROVE  /\ call'[l] = NoCall /\ call'[l].pc = "idle" /\ call'[l].type \in Reach
         /\ UNCHANGED txn
         /\ Recorded(l)' = Recorded(l) \cup {n}
         /\ \A m \in Locker \ {l} :
              /\ call'[m] = call[m]
              /\ read_locks'[m] = read_locks[m] /\ write_locks'[m] = write_locks[m]
<1>1. /\ read_locks \in [Locker -> SUBSET Lsn] /\ write_locks \in [Locker -> SUBSET Lsn]
      /\ call \in [Locker -> Call]
  BY DEF Inv, TypeOK
<1>2. /\ call'[l] = NoCall /\ UNCHANGED txn
      /\ \A m \in Locker \ {l} :
           /\ call'[m] = call[m]
           /\ read_locks'[m] = read_locks[m] /\ write_locks'[m] = write_locks[m]
  BY <1>1 DEF ReturnGranted
<1>3. /\ read_locks'[l] = IF is_write_lock(t) THEN read_locks[l] \ {n} ELSE read_locks[l] \cup {n}
      /\ write_locks'[l] = IF is_write_lock(t) THEN write_locks[l] \cup {n} ELSE write_locks[l]
  BY <1>1 DEF ReturnGranted
<1>4. Recorded(l)' = Recorded(l) \cup {n}
  BY <1>3 DEF Recorded
<1> QED BY <1>2, <1>4, ReachClosed DEF NoCall

\* A lock that is handed to a thread outside the wait path, which records it.
LEMMA GrantedNow ==
  ASSUME Inv, WaitInv, NEW l \in Locker, NEW n \in Lsn, NEW y, NEW t,
         call[l].pc \in Away, Owned(y, l) # {}, Queued(y, l) = {},
         \A o \in Owned(y, l) : o.type \in Reach,
         lock_tables' = [lock_tables EXCEPT ![n] = y],
         ReturnGranted(l, n, t), UNCHANGED <<shard, waiter_graph>>,
         l \in preempted => l \in preempted'
  PROVE  LockerInv(l)'
<1>1. LockerInv(l)
  BY DEF WaitInv
<1>2. ~ Waiting(l) /\ call[l].pc # "releasing"
  BY DEF Away, Waiting, WaitPcs
<1>3. /\ call'[l].pc = "idle" /\ call'[l].type \in Reach
      /\ UNCHANGED txn /\ Recorded(l)' = Recorded(l) \cup {n}
  BY ReturnGrantedFacts
<1>4. ~ Waiting(l)'
  BY <1>3 DEF Waiting, WaitPcs
<1>5. /\ Own(n, l)' = Owned(y, l) /\ Que(n, l)' = {}
      /\ \A k \in Lsn \ {n} : Own(k, l)' = Own(k, l) /\ Que(k, l)' = Que(k, l)
  BY TableStep
<1>6. /\ \A k \in Lsn : Que(k, l) = {}
      /\ \A k \in Lsn : Own(k, l) # {} => k \in Recorded(l)
      /\ waiter_graph[l] = {}
  BY <1>1, <1>2, Outside
<1>7. \A k \in Lsn : shard[k] # l
  BY <1>1, <1>2 DEF LockerInv, ThreadOf
<1>8. KeepOf(l)'
  <2>1. Recorded(l) \subseteq Lsn
    BY DEF Recorded, Inv, TypeOK
  <2> QED BY <1>1, <1>3, <1>5, <2>1 DEF LockerInv, KeepOf
<1>9. /\ \A k \in Lsn : Que(k, l)' = {}
      /\ \A k \in Lsn : Own(k, l)' # {} => k \in Recorded(l)'
  BY <1>3, <1>5, <1>6
<1>10. TypesOf(l)'
  BY <1>1, <1>3, <1>5 DEF LockerInv, TypesOf
<1> QED BY <1>4, <1>6, <1>7, <1>8, <1>9, <1>10, OutsideAfter

\* A blocking request that has to wait joins the line.
LEMMA JoinsLine ==
  ASSUME Inv, WaitInv, NEW l \in Locker, NEW n \in Lsn, NEW t \in Reach, NEW a \in Waits,
         call[l].pc \in Away,
         lock_tables' = [lock_tables EXCEPT ![n] = Enqueue(lock_tables[n], l, t, a)],
         ~ is_owner(lock_tables[n], l, t), Owners(lock_tables[n]) # {},
         a = "WaitNew" => Owned(lock_tables[n], l) = {},
         a = "WaitPromotion" => \A o \in Owned(lock_tables[n], l) : ~ is_write_lock(o.type),
         granted' = [granted EXCEPT ![l] = FALSE],
         NEW ids,
         call' = [call EXCEPT ![l] = [NoCall EXCEPT !.pc = "queued", !.lsn = n, !.type = t,
                                                    !.wait = a, !.owner_ids = ids]],
         UNCHANGED <<shard, waiter_graph, preempted, txn, recorded>>
  PROVE  WaitInv'
<1> DEFINE lk == lock_tables[n]
           y  == Enqueue(lk, l, t, a)
<1>1. LockerInv(l) /\ Good(lk)
  BY TableGood DEF WaitInv
<1>2. ~ Waiting(l) /\ call[l].pc # "releasing"
  BY DEF Away, Waiting, WaitPcs
<1>3. /\ \A k \in Lsn : Que(k, l) = {}
      /\ \A k \in Lsn : Own(k, l) # {} => k \in Recorded(l)
      /\ waiter_graph[l] = {}
  BY <1>1, <1>2, Outside
<1>4. Queued(lk, l) = {}
  BY <1>3 DEF Que
<1>5. Good(y) /\ Owners(y) = Owners(lk) /\ Waiters(y) = Waiters(lk) \cup {Entry(l, t, a)}
  BY <1>1, <1>4, ReachClosed, EnqueueEffect
<1> HIDE DEF y
<1>6. Entry(l, t, a).locker = l
  BY DEF Entry
<1>7. /\ \A m : Owned(y, m) = Owned(lk, m)
      /\ \A m : m # l => Queued(y, m) = Queued(lk, m)
      /\ Queued(y, l) = {Entry(l, t, a)}
  BY <1>4, <1>5, <1>6 DEF Owned, Queued
<1>8. /\ \A k \in Lsn : Own(k, l)' = Own(k, l)
      /\ \A k \in Lsn \ {n} : Que(k, l)' = {}
      /\ Que(n, l)' = {Entry(l, t, a)}
  <2>1. /\ Own(n, l)' = Owned(y, l) /\ Que(n, l)' = Queued(y, l)
        /\ \A k \in Lsn \ {n} : Own(k, l)' = Own(k, l) /\ Que(k, l)' = Que(k, l)
    BY TableStep DEF y
  <2>2. Own(n, l) = Owned(lk, l)
    BY DEF Own
  <2> HIDE DEF lk
  <2> QED BY <1>3, <1>7, <2>1, <2>2
<1>9. /\ call'[l].pc = "queued" /\ call'[l].lsn = n /\ call'[l].type = t /\ call'[l].wait = a
      /\ granted'[l] = FALSE
      /\ \A m \in Locker \ {l} : call'[m] = call[m] /\ granted'[m] = granted[m]
  BY DEF Inv, TypeOK, NoCall
<1>10. Recorded(l)' = Recorded(l)
  BY DEF Recorded, recorded
<1>11. Waiting(l)' /\ "queued" \in WaitPcs \ {"clear"} /\ "queued" # "validate"
  BY <1>9 DEF Waiting, WaitPcs
<1>12. ~ Served(l)'
  BY <1>9, <1>11 DEF Served
<1>13. LineOf(l)'
  <2>1. \A o \in Own(n, l) : o.type # t
    BY DEF Own, is_owner
  <2> QED BY <1>8, <1>9, <1>11, <2>1 DEF LineOf
<1>14. ThreadOf(l)'
  <2>1. \A k \in Lsn : shard[k] # l
    BY <1>1, <1>2 DEF LockerInv, ThreadOf
  <2> QED BY <1>3, <1>8, <1>9, <1>11, <2>1 DEF ThreadOf
<1>15. OwnOf(l)' /\ ServedOf(l)'
  BY <1>3, <1>8, <1>10, <1>12 DEF OwnOf, ServedOf
<1>16. KeepOf(l)'
  <2>1. Recorded(l) \subseteq Lsn
    BY DEF Recorded, Inv, TypeOK
  <2> QED BY <1>1, <1>8, <1>10, <2>1 DEF LockerInv, KeepOf
<1>17. NewOf(l)'
  BY <1>8, <1>9 DEF NewOf, Own
<1>21. PromotionOf(l)' /\ TypesOf(l)'
  <2>1. a = "WaitPromotion" => \A o \in Own(n, l) : ~ is_write_lock(o.type)
    BY DEF Own
  <2> QED BY <1>1, <1>8, <1>9, <2>1 DEF PromotionOf, TypesOf, LockerInv
<1>18. LockerInv(l)'
  BY <1>13, <1>14, <1>15, <1>16, <1>17, <1>21 DEF LockerInv
<1>19. OnlyOf(l)
  BY <1>9 DEF OnlyOf, recorded
<1>20. Untouched(lk, y, l) /\ Tidy(y) /\ Owners(y) # {}
  BY <1>5, <1>7 DEF Untouched, Good
<1> QED BY <1>18, <1>19, <1>20, StepKept DEF y

LEMMA AttemptWait ==
  ASSUME Inv, WaitInv, NEW l \in Locker, NEW n \in Lsn, NEW t \in Reach,
         NEW nonBlocking \in BOOLEAN, NEW denied \in Call,
         call[l].pc \in Away, denied.pc \in Away, denied.type \in Reach,
         Attempt(l, n, t, nonBlocking, denied)
  PROVE  WaitInv'
<1> DEFINE lk == lock_tables[n]
<1>1. PICK ownFirst \in BOOLEAN :
        LET a == Answer(lk, l, t, ownFirst)
        IN /\ lock_tables' = [lock_tables EXCEPT ![n] = AfterAnswer(lk, l, t, a, nonBlocking)]
           /\ \/ a \in Granted /\ ReturnGranted(l, n, t) /\ UNCHANGED granted
              \/ a = "IllegalUpgrade" /\ ReturnError(l, a) /\ UNCHANGED granted
              \/ /\ a \in Waits /\ nonBlocking
                 /\ call' = [call EXCEPT ![l] = denied]
                 /\ UNCHANGED <<granted, txn, recorded>>
              \/ /\ a \in Waits /\ ~ nonBlocking
                 /\ granted' = [granted EXCEPT ![l] = FALSE]
                 /\ call' = [call EXCEPT ![l] =
                      [NoCall EXCEPT !.pc = "queued", !.lsn = n, !.type = t,
                                     !.wait = a, !.owner_ids = OwnerIds(lk)]]
                 /\ UNCHANGED <<txn, recorded>>
  BY DEF Attempt
<1> DEFINE a == Answer(lk, l, t, ownFirst)
           g == GrantOf(lk, l, t, NoWaiters(lk), Sharers(l), ownFirst)
<1>10. t \in LockTypes
  BY ReachClosed
<1>2. UNCHANGED <<shard, waiter_graph, preempted>> /\ Good(lk) /\ Sound(lk) /\ LockerInv(l)
  BY TableGood DEF Attempt, WaitInv
<1>3. /\ a \in Granted \cup Waits \cup {"IllegalUpgrade"}
      /\ a \notin Waits => a = g
      /\ a \in Waits => ~ is_owner(lk, l, t)
      /\ a \notin Granted => Owners(lk) # {}
      /\ a = "WaitNew" => Owned(lk, l) = {}
      /\ a = "WaitPromotion" => \A o \in Owned(lk, l) : ~ is_write_lock(o.type)
  BY <1>2, <1>10, AnswerFacts
<1>4. lock_tables \in [Lsn -> Lock] /\ call \in [Locker -> Call]
  BY DEF Inv, TypeOK
<1>5. Granted \cap Waits = {} /\ "IllegalUpgrade" \notin Granted \cup Waits
  BY DEF Granted, Waits
<1>6. CASE a \in Granted /\ ReturnGranted(l, n, t) /\ UNCHANGED granted
  <2> DEFINE y == Grant(lk, l, t, g)
  <2>1. lock_tables' = [lock_tables EXCEPT ![n] = y]
    <3>1. a = g /\ a \notin Waits
      BY <1>3, <1>5, <1>6
    <3>2. lock_tables' = [lock_tables EXCEPT ![n] = AfterAnswer(lk, l, t, a, nonBlocking)]
      BY <1>1
    <3> HIDE DEF a, g
    <3> QED BY <3>1, <3>2 DEF AfterAnswer
  <2>2. g \in Granted
    BY <1>3, <1>5, <1>6
  <2>3. /\ Good(y) /\ SameLine(lk, y) /\ Owned(y, l) # {}
        /\ \A m : m # l => Owned(y, m) = Owned(lk, m)
        /\ Owned(lk, l) = {} => Owned(y, l) = {[locker |-> l, type |-> t]}
        /\ \A p \in Owned(lk, l), o \in Owned(y, l) : o.type = get_upgrade(p.type, t)
    <3> DEFINE S == Sharers(l)
               q == NoWaiters(lk)
    <3>1. S \subseteq Sharers(l)
      OBVIOUS
    <3>2. g = GrantOf(lk, l, t, q, S, ownFirst)
      OBVIOUS
    <3> HIDE DEF lk, g, S, q
    <3> QED BY <1>2, <1>10, <2>2, <3>1, <3>2, GrantEffect
  <2> HIDE DEF y
  <2>4. Queued(lk, l) = {}
    <3>1. ~ Waiting(l)
      BY DEF Away, Waiting, WaitPcs
    <3>2. Que(n, l) = {}
      BY <1>2, <3>1, Outside
    <3> QED BY <3>2 DEF Que
  <2>5. Untouched(lk, y, l) /\ Queued(y, l) = {}
    <3> HIDE DEF lk
    <3>1. Waiters(y) = Waiters(lk)
      BY <2>3, SameLineEffect
    <3> QED BY <2>3, <2>4, <3>1 DEF Untouched, Queued
  <2>9. \A o \in Owned(y, l) : o.type \in Reach
    <3>1. \A p \in Owned(lk, l) : p.type \in Reach
      BY <1>2 DEF LockerInv, TypesOf, Own
    <3> HIDE DEF lk
    <3> QED BY <2>3, <3>1, GrantReach
  <2>6. LockerInv(l)'
    BY <1>2, <1>6, <2>1, <2>3, <2>5, <2>9, GrantedNow
  <2>7. OnlyOf(l)
    BY <1>2, <1>6, ReturnGrantedFacts DEF OnlyOf
  <2>8. Tidy(y) /\ Owners(y) # {}
    BY <2>3 DEF Good, Owned
  <2> QED BY <1>2, <2>1, <2>5, <2>6, <2>7, <2>8, StepKept
<1>7. CASE a = "IllegalUpgrade" /\ ReturnError(l, a) /\ UNCHANGED granted
  <2> HIDE DEF a
  <2>1. AfterAnswer(lk, l, t, a, nonBlocking) = lk
    BY <1>7 DEF AfterAnswer, Waits, Grant
  <2>2. UNCHANGED lock_tables
    BY <1>1, <1>4, <2>1 DEF a
  <2>3. OnlyOf(l)
    BY <1>2, <1>7, ReturnErrorFacts DEF OnlyOf, recorded
  <2>4. call'[l].pc \in Away /\ call'[l].type \in Reach
    BY <1>7, ReturnErrorFacts DEF Away
  <2> QED BY <1>2, <1>7, <2>2, <2>3, <2>4, ReturnErrorFacts, StaysAway
<1>8. CASE /\ a \in Waits /\ nonBlocking
           /\ call' = [call EXCEPT ![l] = denied]
           /\ UNCHANGED <<granted, txn, recorded>>
  <2> HIDE DEF a
  <2>1. AfterAnswer(lk, l, t, a, nonBlocking) = lk
    BY <1>8 DEF AfterAnswer
  <2>2. UNCHANGED lock_tables
    BY <1>1, <1>4, <2>1 DEF a
  <2>3. call'[l] = denied /\ \A m \in Locker \ {l} : call'[m] = call[m]
    BY <1>4, <1>8
  <2>4. OnlyOf(l)
    BY <1>2, <1>8, <2>3 DEF OnlyOf, recorded
  <2> QED BY <1>2, <1>8, <2>2, <2>3, <2>4, StaysAway
<1>9. CASE /\ a \in Waits /\ ~ nonBlocking
           /\ granted' = [granted EXCEPT ![l] = FALSE]
           /\ call' = [call EXCEPT ![l] =
                [NoCall EXCEPT !.pc = "queued", !.lsn = n, !.type = t,
                               !.wait = a, !.owner_ids = OwnerIds(lk)]]
           /\ UNCHANGED <<txn, recorded>>
  <2> HIDE DEF a
  <2>1. lock_tables' = [lock_tables EXCEPT ![n] = Enqueue(lk, l, t, a)]
    BY <1>1, <1>9 DEF AfterAnswer, a
  <2>2. Owners(lk) # {}
    BY <1>3, <1>5, <1>9
  <2> QED BY <1>2, <1>3, <1>9, <2>1, <2>2, JoinsLine
<1> QED BY <1>1, <1>6, <1>7, <1>8, <1>9

\* The entry of lock_with_timeout_and_txn, in whichever request.
LEMMA EntryWait ==
  ASSUME Inv, WaitInv, NEW l \in Locker, NEW n \in Lsn, NEW t \in Reach,
         NEW nonBlocking \in BOOLEAN, NEW denied \in Call,
         call[l].pc \in Away, denied.pc \in Away, denied.type \in Reach,
         lock_with_timeout_and_txn(l, n, t, nonBlocking, denied)
  PROVE  WaitInv'
<1>1. CASE l \in preempted
  <2>1. /\ ReturnError(l, "LockPreempted")
        /\ UNCHANGED <<lock_tables, shard, waiter_graph, preempted, granted>>
    BY <1>1 DEF lock_with_timeout_and_txn
  <2>2. OnlyOf(l)
    BY <2>1, ReturnErrorFacts DEF OnlyOf, recorded
  <2>3. call'[l].pc \in Away /\ call'[l].type \in Reach
    BY <2>1, ReturnErrorFacts DEF Away
  <2> QED BY <2>1, <2>2, <2>3, ReturnErrorFacts, StaysAway
<1>2. CASE l \notin preempted
  BY <1>2, AttemptWait DEF lock_with_timeout_and_txn
<1> QED BY <1>1, <1>2

LEMMA RequestsWait ==
  ASSUME Inv, WaitInv, NEW l \in Locker,
         \/ \E n \in Lsn, t \in RequestTypes :
              \/ \E nonBlocking \in BOOLEAN : Request(l, n, t, nonBlocking)
              \/ ImportunateRequest(l, n, t)
         \/ ProbedRead(l) \/ Fallback(l)
  PROVE  WaitInv'
<1>0. RequestTypes \subseteq Reach /\ "Read" \in Reach /\ Reach \subseteq LockTypes
  BY ReachClosed DEF Reach
<1>5. call[l].type \in Reach /\ NoCall.type \in Reach
  BY <1>0 DEF WaitInv, LockerInv, TypesOf, NoCall
<1>1. ASSUME NEW n \in Lsn, NEW t \in RequestTypes, NEW nonBlocking \in BOOLEAN,
             Request(l, n, t, nonBlocking)
      PROVE  WaitInv'
  <2>1. NoCall \in Call /\ NoCall.pc = "idle" /\ "idle" \in Away
    BY NoCallType DEF NoCall, Away
  <2> QED BY <1>0, <1>1, <1>5, <2>1, EntryWait DEF Request
<1>2. ASSUME NEW n \in Lsn, NEW t \in RequestTypes, ImportunateRequest(l, n, t)
      PROVE  WaitInv'
  <2> DEFINE d == [NoCall EXCEPT !.pc = "steal", !.lsn = n, !.type = t]
  <2>1. d \in Call /\ d.pc = "steal" /\ d.type = t /\ {"idle", "steal"} \subseteq Away
    BY <1>0, NoCallType DEF Call, CallRecord, Away
  <2>2. call[l].pc = "idle" /\ lock_with_timeout_and_txn(l, n, t, TRUE, d)
    BY <1>2 DEF ImportunateRequest
  <2> HIDE DEF d
  <2> QED BY <1>0, <2>1, <2>2, EntryWait
<1>3. CASE ProbedRead(l)
  <2> DEFINE d == [call[l] EXCEPT !.pc = "fallback"]
  <2>1. call[l].lsn \in Lsn /\ call[l] \in Call /\ call[l].pc = "probed"
    BY <1>3, CallFields DEF ProbedRead
  <2>2. d \in Call /\ d.pc = "fallback" /\ d.type = call[l].type /\ {"probed", "fallback"} \subseteq Away
    BY <2>1 DEF Call, CallRecord, Away
  <2>3. lock_with_timeout_and_txn(l, call[l].lsn, "Read", TRUE, d)
    BY <1>3 DEF ProbedRead
  <2> HIDE DEF d
  <2> QED BY <1>0, <1>5, <2>1, <2>2, <2>3, EntryWait
<1>4. CASE Fallback(l)
  <2>1. call[l].lsn \in Lsn /\ call[l].type \in LockTypes /\ call[l].pc = "fallback"
    BY <1>4, CallFields DEF Fallback
  <2>2. NoCall \in Call /\ NoCall.pc = "idle" /\ {"idle", "fallback"} \subseteq Away
    BY NoCallType DEF NoCall, Away
  <2> QED BY <1>4, <1>5, <2>1, <2>2, EntryWait DEF Fallback
<1> QED BY <1>1, <1>2, <1>3, <1>4

LEMMA ProbeWait ==
  ASSUME Inv, WaitInv, NEW l \in Locker, NEW n \in Lsn, Probe(l, n)
  PROVE  WaitInv'
<1>1. call'[l].pc = "probed" /\ call'[l].type = "Read" /\ \A m \in Locker \ {l} : call'[m] = call[m]
  BY DEF Probe, Inv, TypeOK, NoCall
<1>2. OnlyOf(l)
  BY <1>1 DEF Probe, OnlyOf, recorded
<1>3. call[l].pc \in Away /\ call'[l].pc \in Away /\ call'[l].type \in Reach
  BY <1>1, ReachClosed DEF Probe, Away
<1> QED BY <1>2, <1>3, StaysAway DEF Probe

\* What the steal leaves of the lock: the line as it was, and every owner it does
\* not mark.
LEMMA RobbedLock ==
  ASSUME NEW lk, Good(lk), NEW l, NEW P, Queued(lk, l) = {}
  PROVE  LET kept == flush_waiter(lk, l)
             gone == StolenFrom(kept, l, P)
             left == steal_lock_preemptable(kept, l, P)
         IN /\ Good(left) /\ Waiters(left) = Waiters(lk)
            /\ \A m : Owned(left, m) = IF m \in gone THEN {} ELSE Owned(lk, m)
            /\ l \notin gone
<1> DEFINE kept == flush_waiter(lk, l)
           gone == StolenFrom(kept, l, P)
           left == steal_lock_preemptable(kept, l, P)
<1>1. lk \in Lock /\ Sound(lk) /\ Tidy(lk)
  BY DEF Good, Sound
<1>2. Tidy(kept) /\ Waiters(kept) = {w \in Waiters(lk) : w.locker # l}
  BY FlushWaiterEffect
<1>3. Sound(kept) /\ Owners(kept) = Owners(lk)
  BY <1>1, FlushWaiterSound, WaiterOwners
<1>4. Good(kept)
  BY <1>2, <1>3 DEF Good
<1>5. l \notin gone
  BY DEF StolenFrom
<1> HIDE DEF kept
<1>6. Waiters(kept) = Waiters(lk)
  BY <1>2 DEF Queued
<1>7. /\ Tidy(left) /\ SameLine(kept, left)
      /\ Owners(left) = {o \in Owners(kept) : o.locker \notin gone}
  BY <1>4, StealEffect
<1>8. Sound(left)
  BY <1>3, StealSound
<1> HIDE DEF left, gone
<1>9. Waiters(left) = Waiters(lk)
  BY <1>6, <1>7, SameLineEffect
<1>10. \A m : Owned(left, m) = IF m \in gone THEN {} ELSE Owned(lk, m)
  BY <1>3, <1>7 DEF Owned
<1> QED BY <1>5, <1>7, <1>8, <1>9, <1>10 DEF Good, left, gone, kept

LEMMA StealWait ==
  ASSUME Inv, WaitInv, NEW l \in Locker, Steal(l)
  PROVE  WaitInv'
<1>0. PICK n \in Lsn, t \in LockTypes : n = call[l].lsn /\ t = call[l].type
  BY CallFields DEF Steal
<1> DEFINE lk   == lock_tables[n]
           gone == StolenFrom(flush_waiter(lk, l), l, Locker \ Importunate)
           left == steal_lock_preemptable(flush_waiter(lk, l), l, Locker \ Importunate)
<1>1. n \in Lsn /\ t \in LockTypes /\ call[l].pc = "steal"
  BY DEF Steal
<1>2. /\ preempted' = preempted \cup gone
      /\ UNCHANGED <<shard, waiter_graph, granted>>
  BY <1>0 DEF Steal
<1>3. PICK ownFirst \in BOOLEAN :
        LET a == Answer(left, l, t, ownFirst)
        IN /\ lock_tables' = [lock_tables EXCEPT ![n] = AfterAnswer(left, l, t, a, TRUE)]
           /\ IF a \in Granted THEN ReturnGranted(l, n, t)
              ELSE /\ \/ call' = [call EXCEPT ![l].pc = "fallback"]
                      \/ call' = [call EXCEPT ![l] = NoCall]
                   /\ UNCHANGED <<txn, recorded>>
  BY <1>0 DEF Steal
<1> DEFINE a == Answer(left, l, t, ownFirst)
           g == GrantOf(left, l, t, NoWaiters(left), Sharers(l), ownFirst)
           y == AfterAnswer(left, l, t, a, TRUE)
<1>4. lock_tables' = [lock_tables EXCEPT ![n] = y]
  BY <1>3
<1>5. \/ a \in Granted /\ ReturnGranted(l, n, t)
      \/ /\ a \notin Granted
         /\ \/ call' = [call EXCEPT ![l].pc = "fallback"]
            \/ call' = [call EXCEPT ![l] = NoCall]
         /\ UNCHANGED <<txn, recorded>>
  BY <1>3
<1>6. LockerInv(l) /\ Good(lk) /\ t \in Reach
  BY <1>0, <1>1, TableGood DEF WaitInv, LockerInv, TypesOf
<1>7. ~ Waiting(l) /\ call[l].pc \in Away /\ call[l].pc # "releasing"
  BY <1>1 DEF Away, Waiting, WaitPcs
<1>8. /\ \A k \in Lsn : Que(k, l) = {}
      /\ \A k \in Lsn : Own(k, l) # {} => k \in Recorded(l)
      /\ waiter_graph[l] = {}
  BY <1>6, <1>7, Outside
<1>9. Queued(lk, l) = {}
  BY <1>1, <1>8 DEF Que
<1> HIDE DEF lk
<1>10. /\ Good(left) /\ Waiters(left) = Waiters(lk)
       /\ \A m : Owned(left, m) = IF m \in gone THEN {} ELSE Owned(lk, m)
       /\ l \notin gone
  BY <1>6, <1>9, RobbedLock
<1> HIDE DEF left, gone
<1>11. Sound(left)
  BY <1>10 DEF Good
<1>12. /\ a \in Granted \cup Waits \cup {"IllegalUpgrade"}
       /\ a \notin Waits => a = g
       /\ a \notin Granted => Owners(left) # {}
  BY <1>1, <1>11, AnswerFacts
<1>13. a \notin Granted => y = left
  <2> HIDE DEF a
  <2> QED BY <1>12 DEF AfterAnswer, Grant, Granted
<1>14. a \in Granted =>
         /\ Good(y) /\ SameLine(left, y) /\ Owned(y, l) # {}
         /\ \A m : m # l => Owned(y, m) = Owned(left, m)
         /\ Owned(left, l) = {} => Owned(y, l) = {[locker |-> l, type |-> t]}
         /\ \A p \in Owned(left, l), o \in Owned(y, l) : o.type = get_upgrade(p.type, t)
  <2> SUFFICES ASSUME a \in Granted
               PROVE  /\ Good(y) /\ SameLine(left, y) /\ Owned(y, l) # {}
                      /\ \A m : m # l => Owned(y, m) = Owned(left, m)
                      /\ Owned(left, l) = {} => Owned(y, l) = {[locker |-> l, type |-> t]}
                      /\ \A p \in Owned(left, l), o \in Owned(y, l) :
                           o.type = get_upgrade(p.type, t)
    OBVIOUS
  <2>1. a = g /\ a \notin Waits
    BY <1>12 DEF Granted, Waits
  <2>2. y = Grant(left, l, t, g)
    <3> HIDE DEF a, g
    <3> QED BY <2>1 DEF AfterAnswer
  <2> DEFINE S == Sharers(l)
             q == NoWaiters(left)
  <2>3. S \subseteq Sharers(l) /\ g = GrantOf(left, l, t, q, S, ownFirst) /\ g \in Granted
    BY <2>1
  <2>4. Good(left)
    BY <1>10
  <2> HIDE DEF a, g, S, q, y
  <2> QED BY <1>1, <2>2, <2>3, <2>4, GrantEffect
<1> HIDE DEF y
<1>15. /\ Tidy(y) /\ Owners(y) # {}
       /\ \A m : Queued(y, m) = Queued(lk, m)
       /\ \A m : m # l => Owned(y, m) = IF m \in gone THEN {} ELSE Owned(lk, m)
  <2> HIDE DEF a
  <2>1. CASE a \in Granted
    <3>1. Waiters(y) = Waiters(left)
      BY <1>14, <2>1, SameLineEffect
    <3> QED BY <1>10, <1>14, <2>1, <3>1 DEF Good, Queued, Owned
  <2>2. CASE a \notin Granted
    BY <1>10, <1>12, <1>13, <2>2 DEF Good, Queued
  <2> QED BY <2>1, <2>2
<1>16. \A m :
         /\ Own(n, m)' = Owned(y, m) /\ Que(n, m)' = Queued(y, m)
         /\ \A k \in Lsn \ {n} : Own(k, m)' = Own(k, m) /\ Que(k, m)' = Que(k, m)
  BY <1>1, <1>4, TableStep
<1>17. \A m : Own(n, m) = Owned(lk, m) /\ Que(n, m) = Queued(lk, m)
  BY DEF Own, Que, lk
<1>18. LockerInv(l)'
  <2>1. CASE a \in Granted /\ ReturnGranted(l, n, t)
    <3>1. Owned(y, l) # {} /\ Queued(y, l) = {}
      BY <1>9, <1>14, <1>15, <2>1
    <3>2. \A p \in Owned(left, l) : p.type \in Reach
      <4>1. \A p \in Own(n, l) : p.type \in Reach
        BY <1>1, <1>6 DEF LockerInv, TypesOf
      <4> QED BY <1>10, <1>17, <4>1
    <3>3. \A o \in Owned(y, l) : o.type \in Reach
      <4> HIDE DEF a
      <4> QED BY <1>6, <1>14, <2>1, <3>2, GrantReach
    <3> HIDE DEF a
    <3> QED BY <1>1, <1>2, <1>4, <1>7, <2>1, <3>1, <3>3, GrantedNow
  <2>2. CASE /\ a \notin Granted
             /\ \/ call' = [call EXCEPT ![l].pc = "fallback"]
                \/ call' = [call EXCEPT ![l] = NoCall]
             /\ UNCHANGED <<txn, recorded>>
    <3>1. Own(n, l)' = Own(n, l)
      BY <1>10, <1>13, <1>16, <1>17, <2>2
    <3>2. \A k \in Lsn : Own(k, l)' = Own(k, l) /\ Que(k, l)' = {}
      BY <1>8, <1>9, <1>15, <1>16, <3>1
    <3>3. Recorded(l)' = Recorded(l) /\ txn' = txn
      BY <2>2 DEF Recorded, recorded
    <3>4. call'[l].pc \in {"fallback", "idle"} /\ call'[l].type \in {call[l].type, "Read"}
      <4>1. call \in [Locker -> Call] /\ call[l] \in Call
        BY DEF Inv, TypeOK
      <4> QED BY <2>2, <4>1 DEF NoCall, Call, CallRecord
    <3>5. ~ Waiting(l)'
      BY <3>4 DEF Waiting, WaitPcs
    <3>6. \A k \in Lsn : shard'[k] # l
      BY <1>2, <1>6, <1>7 DEF LockerInv, ThreadOf
    <3>7. KeepOf(l)'
      <4>1. Recorded(l) \subseteq Lsn
        BY DEF Recorded, Inv, TypeOK
      <4> QED BY <1>2, <1>6, <3>2, <3>3, <4>1 DEF LockerInv, KeepOf
    <3>8. TypesOf(l)'
      BY <1>6, <3>2, <3>4, ReachClosed DEF LockerInv, TypesOf
    <3> QED BY <1>2, <1>8, <3>2, <3>3, <3>5, <3>6, <3>7, <3>8, OutsideAfter
  <2> QED BY <1>5, <2>1, <2>2
<1>19. ASSUME NEW m \in Locker \ {l} PROVE LockerInv(m)'
  <2>1. /\ call'[m] = call[m] /\ txn'[m] = txn[m]
        /\ read_locks'[m] = read_locks[m] /\ write_locks'[m] = write_locks[m]
    <3>1. CASE ReturnGranted(l, n, t)
      BY <3>1, ReturnGrantedFacts
    <3>2. CASE /\ \/ call' = [call EXCEPT ![l].pc = "fallback"]
                  \/ call' = [call EXCEPT ![l] = NoCall]
               /\ UNCHANGED <<txn, recorded>>
      BY <3>2 DEF Inv, TypeOK, recorded
    <3> QED BY <1>5, <3>1, <3>2
  <2>2. \A k \in Lsn : Que(k, m)' = Que(k, m)
    BY <1>15, <1>16, <1>17
  <2>3. \A k \in Lsn : Own(k, m)' = Own(k, m) \/ (Own(k, m)' = {} /\ m \in preempted')
    BY <1>2, <1>15, <1>16, <1>17
  <2>4. LockerInv(m) /\ (m \in preempted => m \in preempted')
    BY <1>2 DEF WaitInv
  <2> QED BY <1>2, <2>1, <2>2, <2>3, <2>4, LockerKept
<1>20. \A k \in Lsn : LockInv(k)'
  BY <1>1, <1>2, <1>4, <1>15, LocksKept
<1> QED BY <1>18, <1>19, <1>20 DEF WaitInv

-----------------------------------------------------------------------------
(* Leaving the wait path *)

LEMMA FlushedLock ==
  ASSUME NEW lk, Good(lk), NEW l
  PROVE  LET y == Stored(flush_waiter(lk, l))
         IN /\ Good(y) /\ Owners(y) = Owners(lk)
            /\ Waiters(y) = {w \in Waiters(lk) : w.locker # l}
<1> DEFINE x == flush_waiter(lk, l)
<1>1. lk \in Lock /\ Sound(lk)
  BY DEF Good, Sound
<1>2. Good(x) /\ Owners(x) = Owners(lk) /\ Waiters(x) = {w \in Waiters(lk) : w.locker # l}
  BY <1>1, FlushWaiterEffect, FlushWaiterSound, WaiterOwners DEF Good
<1> HIDE DEF x
<1>3. /\ Good(Stored(x)) /\ Owners(Stored(x)) = Owners(x)
      /\ Waiters(Stored(x)) = Waiters(x)
  BY <1>2, StoredEffect
<1> QED BY <1>2, <1>3 DEF x

LEMMA ValidateWait ==
  ASSUME Inv, WaitInv, NEW l \in Locker, validate_ownership_or_flush(l)
  PROVE  WaitInv'
<1>0. PICK n \in Lsn : n = call[l].lsn
  BY CallFields DEF validate_ownership_or_flush
<1> DEFINE lk == lock_tables[n]
           owner == is_owner(lk, l, call[l].type)
           y == Stored(flush_waiter(lk, l))
<1>1. /\ call[l].pc = "validate" /\ Free(n)
      /\ UNCHANGED <<shard, waiter_graph, preempted, granted, txn, recorded>>
  BY <1>0 DEF validate_ownership_or_flush
<1>2. call \in [Locker -> Call] /\ call[l] \in Call
  BY DEF Inv, TypeOK
<1>3. /\ call'[l].pc = "clear" /\ call'[l].lsn = n /\ call'[l].type = call[l].type
      /\ call'[l].wait = call[l].wait
      /\ call'[l].outcome = IF owner THEN "Granted" ELSE call[l].outcome
      /\ \A m \in Locker \ {l} : call'[m] = call[m]
  BY <1>0, <1>2 DEF validate_ownership_or_flush, Call, CallRecord
<1>4. LockerInv(l) /\ Good(lk) /\ call[l].outcome # "Granted"
  BY <1>1, TableGood DEF WaitInv, LockerInv, ThreadOf
<1>5. OnlyOf(l) /\ Recorded(l)' = Recorded(l) /\ Waiting(l) /\ Waiting(l)'
  BY <1>1, <1>3 DEF OnlyOf, recorded, Recorded, Waiting, WaitPcs
<1>6. owner <=> \E o \in Own(n, l) : o.type = call[l].type
  BY DEF is_owner, Own
<1>7. \A k \in Lsn \ {n} : Que(k, l) = {}
  BY <1>0, <1>4 DEF LockerInv, LineOf
<1>8. ASSUME \A k \in Lsn : Que(k, l)' = {} /\ Own(k, l)' = Own(k, l)
      PROVE  LockerInv(l)'
  <2>1. LineOf(l)'
    BY <1>8 DEF LineOf
  <2>2. ThreadOf(l)'
    <3>1. \A k \in Lsn : shard[k] # l
      BY <1>1, <1>4 DEF LockerInv, ThreadOf
    <3> QED BY <1>1, <1>3, <1>5, <3>1 DEF ThreadOf
  <2>3. Served(l)' <=> owner /\ call[l].wait # "WaitRestart"
    BY <1>3, <1>4, <1>5 DEF Served
  <2> HIDE DEF owner
  <2>4. OwnOf(l)'
    <3> SUFFICES ASSUME NEW k \in Lsn, Own(k, l) # {}, k \notin Recorded(l)
                 PROVE  /\ Served(l)' /\ granted'[l] /\ call'[l].lsn = k
                        /\ \E o \in Own(k, l) : o.type = call'[l].type
      BY <1>5, <1>8 DEF OwnOf
    <3>1. /\ Served(l) /\ granted[l] /\ call[l].lsn = k
          /\ \E o \in Own(k, l) : o.type = call[l].type
      BY <1>4 DEF LockerInv, OwnOf
    <3> QED BY <1>0, <1>1, <1>3, <1>6, <2>3, <3>1 DEF Served
  <2>5. ServedOf(l)'
    BY <1>3, <1>6, <1>8, <2>3 DEF ServedOf
  <2>6. KeepOf(l)'
    <3>1. Recorded(l) \subseteq Lsn
      BY DEF Recorded, Inv, TypeOK
    <3> QED BY <1>1, <1>4, <1>5, <1>8, <3>1 DEF LockerInv, KeepOf
  <2>7. NewOf(l)'
    <3>1. Waiting(l) /\ call[l].wait = "WaitNew" =>
            \A o \in Own(n, l) : o.type = call[l].type
      BY <1>0, <1>4 DEF LockerInv, NewOf
    <3>2. Own(n, l)' = Own(n, l)
      BY <1>8
    <3> QED BY <1>3, <1>5, <1>6, <3>1, <3>2 DEF NewOf
  <2>8. PromotionOf(l)'
    <3>1. call[l].wait = "WaitPromotion" =>
            \A o \in Own(n, l) : is_write_lock(o.type) =>
              \/ o.type = call[l].type
              \/ o.type = "RangeWrite" /\ call[l].type = "Write"
      BY <1>0, <1>4, <1>5 DEF LockerInv, PromotionOf
    <3>2. Own(n, l)' = Own(n, l)
      BY <1>8
    <3> QED BY <1>3, <1>6, <3>1, <3>2 DEF PromotionOf
  <2>9. TypesOf(l)'
    BY <1>3, <1>4, <1>8 DEF LockerInv, TypesOf
  <2> QED BY <2>1, <2>2, <2>4, <2>5, <2>6, <2>7, <2>8, <2>9 DEF LockerInv
<1>9. CASE owner
  <2>1. UNCHANGED lock_tables
    BY <1>0, <1>9 DEF validate_ownership_or_flush
  <2>2. Que(n, l) = {}
    BY <1>0, <1>4, <1>6, <1>9 DEF LockerInv, LineOf
  <2>3. \A k \in Lsn : Que(k, l)' = {} /\ Own(k, l)' = Own(k, l)
    BY <1>7, <2>1, <2>2 DEF Que, Own
  <2> QED BY <1>1, <1>5, <1>8, <2>1, <2>3, QuietKept
<1>10. CASE ~ owner
  <2>1. lock_tables' = [lock_tables EXCEPT ![n] = y]
    BY <1>0, <1>10 DEF validate_ownership_or_flush, Inv, TypeOK
  <2>2. /\ Good(y) /\ Owners(y) = Owners(lk)
        /\ Waiters(y) = {w \in Waiters(lk) : w.locker # l}
    BY <1>4, FlushedLock
  <2> HIDE DEF y
  <2>3. /\ Queued(y, l) = {} /\ Owned(y, l) = Owned(lk, l)
        /\ Untouched(lk, y, l)
    BY <2>2 DEF Queued, Owned, Untouched
  <2>4. /\ Own(n, l)' = Owned(y, l) /\ Que(n, l)' = Queued(y, l)
        /\ \A k \in Lsn \ {n} : Own(k, l)' = Own(k, l) /\ Que(k, l)' = Que(k, l)
    BY <2>1, TableStep
  <2>5. \A k \in Lsn : Que(k, l)' = {} /\ Own(k, l)' = Own(k, l)
    BY <1>7, <2>3, <2>4 DEF Own
  <2>6. Waiters(y) # {} => Owners(y) # {}
    BY <1>1, <2>2 DEF WaitInv, LockInv
  <2>7. LockerInv(l)' /\ Tidy(y)
    BY <1>8, <2>2, <2>5 DEF Good
  <2> HIDE DEF owner
  <2> QED BY <1>1, <1>5, <2>1, <2>3, <2>6, <2>7, StepKept
<1> QED BY <1>9, <1>10

LEMMA ClearWaitWait ==
  ASSUME Inv, WaitInv, NEW l \in Locker, clear_wait(l)
  PROVE  WaitInv'
<1>0. PICK n \in Lsn : n = call[l].lsn
  BY CallFields DEF clear_wait
<1> DEFINE good == call[l].outcome = "Granted" /\ call[l].wait # "WaitRestart"
<1>1. /\ call[l].pc = "clear"
      /\ waiter_graph' = [waiter_graph EXCEPT ![l] = {}]
      /\ UNCHANGED <<lock_tables, shard, preempted, granted>>
      /\ good => ReturnGranted(l, n, call[l].type)
      /\ ~ good => \E e : ReturnError(l, e)
  BY <1>0 DEF clear_wait
<1>2. LockerInv(l)
  BY DEF WaitInv
<1>3. waiter_graph'[l] = {} /\ \A m \in Locker \ {l} : waiter_graph'[m] = waiter_graph[m]
  BY <1>1 DEF Inv, TypeOK
<1>4. /\ call'[l].pc = "idle" /\ call'[l].type \in Reach /\ OnlyOf(l)
      /\ txn'[l] \in {"Open", "MustAbort"} => txn[l] \in {"Open", "MustAbort"}
      /\ Recorded(l)' = IF good THEN Recorded(l) \cup {n} ELSE Recorded(l)
  <2>1. CASE good
    BY <1>1, <1>3, <2>1, ReturnGrantedFacts DEF OnlyOf
  <2>2. CASE ~ good
    BY <1>1, <1>3, <2>2, ReturnErrorFacts DEF OnlyOf, recorded, Recorded
  <2> QED BY <2>1, <2>2
<1>5. ~ Waiting(l)' /\ Waiting(l)
  BY <1>1, <1>4 DEF Waiting, WaitPcs
<1>6. \A k \in Lsn : Que(k, l)' = {} /\ Own(k, l)' = Own(k, l)
  <2>1. \A k \in Lsn : Que(k, l) = {}
    BY <1>1, <1>2 DEF LockerInv, LineOf
  <2> QED BY <1>1, <2>1 DEF Que, Own
<1>7. Served(l) <=> good
  BY <1>1, <1>5 DEF Served
<1> HIDE DEF good
<1>8. \A k \in Lsn : Own(k, l)' # {} => k \in Recorded(l)'
  BY <1>0, <1>2, <1>4, <1>6, <1>7 DEF LockerInv, OwnOf
<1>9. KeepOf(l)'
  <2>1. Recorded(l) \subseteq Lsn
    BY DEF Recorded, Inv, TypeOK
  <2>2. good => Own(n, l) # {} \/ l \in preempted
    BY <1>0, <1>2, <1>7 DEF LockerInv, ServedOf
  <2>3. preempted' = preempted
    BY <1>1
  <2> QED BY <1>2, <1>4, <1>6, <2>1, <2>2, <2>3 DEF LockerInv, KeepOf
<1>10. \A k \in Lsn : shard'[k] # l
  BY <1>1, <1>2 DEF LockerInv, ThreadOf
<1>12. TypesOf(l)'
  BY <1>2, <1>4, <1>6 DEF LockerInv, TypesOf
<1>11. LockerInv(l)'
  BY <1>3, <1>5, <1>6, <1>8, <1>9, <1>10, <1>12, OutsideAfter
<1> QED BY <1>1, <1>4, <1>11, QuietKept

-----------------------------------------------------------------------------
(* Release, hand-over, demotion, end of the transaction *)

LEMMA ReleasedLock ==
  ASSUME NEW lk, Good(lk), NEW l
  PROVE  LET y == Stored(flush_owner(lk, l))
         IN /\ Good(y) /\ Waiters(y) = Waiters(lk)
            /\ Owners(y) = {o \in Owners(lk) : o.locker # l}
<1> DEFINE x == flush_owner(lk, l)
<1>1. Tidy(x) /\ SameLine(lk, x) /\ Owners(x) = {o \in Owners(lk) : o.locker # l}
  BY FlushOwnerEffect
<1>2. Sound(x)
  BY FlushOwnerSound DEF Good
<1> HIDE DEF x
<1>3. Good(x) /\ Waiters(x) = Waiters(lk)
  BY <1>1, <1>2, SameLineEffect DEF Good
<1>4. Good(Stored(x)) /\ Owners(Stored(x)) = Owners(x) /\ Waiters(Stored(x)) = Waiters(x)
  BY <1>3, StoredEffect
<1> QED BY <1>1, <1>3, <1>4 DEF x

\* release, with what its caller does to the recorded sets: the LSN is forgotten
\* unless the caller is past keeping it.
LEMMA ReleaseWait ==
  ASSUME Inv, WaitInv, NEW l \in Locker, NEW n \in Lsn, call[l].pc = "idle", release(l, n),
         Recorded(l) \ {n} \subseteq Recorded(l)', Recorded(l)' \subseteq Recorded(l),
         \A m \in Locker \ {l} : /\ read_locks'[m] = read_locks[m]
                                 /\ write_locks'[m] = write_locks[m],
         \/ l \in ReadCommitted
         \/ txn[l] \notin {"Open", "MustAbort"}
         \/ n \notin Recorded(l)'
  PROVE  WaitInv'
<1> DEFINE lk == lock_tables[n]
           y == Stored(flush_owner(lk, l))
           done == Owned(lk, l) = {} \/ NoWaiters(lk)
<1>1. /\ Free(n) /\ lock_tables' = [lock_tables EXCEPT ![n] = y]
      /\ UNCHANGED <<waiter_graph, preempted, granted, txn>>
      /\ shard' = IF done THEN shard ELSE [shard EXCEPT ![n] = l]
      /\ call' = IF done THEN call ELSE [call EXCEPT ![l].pc = "releasing", ![l].lsn = n]
  BY DEF release
<1>2. LockerInv(l) /\ Good(lk) /\ lk \in Lock
  BY TableGood DEF WaitInv, Sound
<1>3. ~ Waiting(l) /\ call[l].pc # "releasing"
  BY DEF Waiting, WaitPcs
<1>4. /\ \A k \in Lsn : Que(k, l) = {}
      /\ \A k \in Lsn : Own(k, l) # {} => k \in Recorded(l)
      /\ waiter_graph[l] = {}
  BY <1>2, <1>3, Outside
<1>5. /\ Good(y) /\ Waiters(y) = Waiters(lk)
      /\ Owners(y) = {o \in Owners(lk) : o.locker # l}
  BY <1>2, ReleasedLock
<1> HIDE DEF y
<1>6. Queued(y, l) = {} /\ Owned(y, l) = {} /\ Untouched(lk, y, l)
  <2>1. Queued(lk, l) = {}
    BY <1>4 DEF Que
  <2> HIDE DEF lk
  <2> QED BY <1>5, <2>1 DEF Queued, Owned, Untouched
<1>7. /\ Own(n, l)' = {} /\ Que(n, l)' = {}
      /\ \A k \in Lsn \ {n} : Own(k, l)' = Own(k, l) /\ Que(k, l)' = {}
  BY <1>1, <1>4, <1>6, TableStep
<1>8. \A k \in Lsn : shard[k] # l
  BY <1>2, <1>3 DEF LockerInv, ThreadOf
<1>9. /\ \A m \in Locker \ {l} : call'[m] = call[m]
      /\ \A k \in Lsn \ {n} : shard'[k] = shard[k]
      /\ \/ done /\ shard'[n] = shard[n] /\ call'[l] = call[l]
         \/ ~ done /\ shard'[n] = l /\ call'[l].pc = "releasing" /\ call'[l].lsn = n
      /\ call'[l].type = call[l].type
  <2>1. call \in [Locker -> Call] /\ call[l] \in Call /\ shard \in [Lsn -> Locker \cup {NoLocker}]
    BY DEF Inv, TypeOK
  <2>2. CASE done
    BY <1>1, <2>2
  <2>3. CASE ~ done
    <3>1. /\ shard' = [shard EXCEPT ![n] = l]
          /\ call' = [call EXCEPT ![l].pc = "releasing", ![l].lsn = n]
      BY <1>1, <2>3
    <3> HIDE DEF done
    <3> QED BY <2>1, <2>3, <3>1 DEF Call, CallRecord
  <2> QED BY <2>2, <2>3
<1>10. ~ Waiting(l)'
  BY <1>3, <1>9 DEF Waiting, WaitPcs
<1>11. \A k \in Lsn : shard'[k] = l => call'[l].pc = "releasing" /\ call'[l].lsn = k
  BY <1>8, <1>9
<1>12. KeepOf(l)'
  <2>1. Recorded(l) \subseteq Lsn /\ preempted' = preempted /\ txn' = txn
    BY <1>1 DEF Recorded, Inv, TypeOK
  <2> QED BY <1>2, <1>7, <2>1 DEF LockerInv, KeepOf
<1>13. \A k \in Lsn : Own(k, l)' # {} => k \in Recorded(l)'
  BY <1>4, <1>7
<1>17. TypesOf(l)'
  BY <1>2, <1>7, <1>9 DEF LockerInv, TypesOf
<1>14. LockerInv(l)'
  BY <1>1, <1>4, <1>7, <1>10, <1>11, <1>12, <1>13, <1>17, OutsideAfter
<1>15. shard'[n] = NoLocker /\ Waiters(y) # {} => Owners(y) # {}
  <2> SUFFICES ASSUME shard'[n] = NoLocker, Waiters(y) # {} PROVE Owners(y) # {}
    OBVIOUS
  <2>1. done
    BY <1>9, LockerAssumption DEF NoLocker
  <2>2. Waiters(lk) # {} /\ Owned(lk, l) = {}
    BY <1>2, <1>5, <2>1, NoWaitersMeans
  <2>3. Owners(lk) # {}
    BY <1>1, <2>2 DEF WaitInv, LockInv
  <2> HIDE DEF lk
  <2> QED BY <1>5, <2>2, <2>3 DEF Owned
<1>16. OnlyOf(l) /\ Tidy(y) /\ shard'[n] \in {shard[n], l, NoLocker}
  BY <1>1, <1>5, <1>9 DEF OnlyOf, Good
<1> HIDE DEF done
<1> QED BY <1>1, <1>6, <1>9, <1>14, <1>15, <1>16, StepKept

LEMMA EndOfTxnWait ==
  ASSUME Inv, WaitInv, NEW l \in Locker,
         \/ EndTxn(l) \/ ReleaseNext(l) \/ Ended(l)
         \/ \E n \in Lsn : release_lock(l, n) \/ release_range_insert_for_write(l, n)
  PROVE  WaitInv'
<1>0. /\ read_locks \in [Locker -> SUBSET Lsn] /\ write_locks \in [Locker -> SUBSET Lsn]
      /\ txn \in [Locker -> {"Open", "MustAbort", "Ending", "Ended"}]
  BY DEF Inv, TypeOK
<1>1. CASE EndTxn(l)
  <2>1. txn'[l] = "Ending" /\ \A m \in Locker \ {l} : txn'[m] = txn[m]
    BY <1>0, <1>1 DEF EndTxn
  <2>2. OnlyOf(l) /\ call[l].pc \in Away /\ call'[l].pc \in Away /\ call'[l].type \in Reach
    BY <1>1, <2>1 DEF EndTxn, OnlyOf, recorded, Away, WaitInv, LockerInv, TypesOf
  <2> QED BY <1>1, <2>1, <2>2, StaysAway DEF EndTxn
<1>2. CASE Ended(l)
  <2>1. txn'[l] = "Ended" /\ \A m \in Locker \ {l} : txn'[m] = txn[m]
    BY <1>0, <1>2 DEF Ended
  <2>2. OnlyOf(l) /\ call[l].pc \in Away /\ call'[l].pc \in Away /\ call'[l].type \in Reach
    BY <1>2, <2>1 DEF Ended, OnlyOf, recorded, Away, WaitInv, LockerInv, TypesOf
  <2> QED BY <1>2, <2>1, <2>2, StaysAway DEF Ended
<1>3. ASSUME NEW n \in Lsn, ReleaseRead(l, n)
      PROVE  /\ release(l, n)
             /\ Recorded(l) \ {n} \subseteq Recorded(l)' /\ Recorded(l)' \subseteq Recorded(l)
             /\ n \notin write_locks[l] => n \notin Recorded(l)'
             /\ \A m \in Locker \ {l} : /\ read_locks'[m] = read_locks[m]
                                        /\ write_locks'[m] = write_locks[m]
  <2>1. /\ read_locks'[l] = read_locks[l] \ {n} /\ write_locks' = write_locks
        /\ \A m \in Locker \ {l} : read_locks'[m] = read_locks[m]
    BY <1>0, <1>3 DEF ReleaseRead
  <2>2. release(l, n)
    BY <1>3 DEF ReleaseRead
  <2> QED BY <2>1, <2>2 DEF Recorded
<1>4. ASSUME NEW n \in Lsn, ReleaseWrite(l, n)
      PROVE  /\ release(l, n)
             /\ Recorded(l) \ {n} \subseteq Recorded(l)' /\ Recorded(l)' \subseteq Recorded(l)
             /\ \A m \in Locker \ {l} : /\ read_locks'[m] = read_locks[m]
                                        /\ write_locks'[m] = write_locks[m]
  <2>1. /\ write_locks'[l] = write_locks[l] \ {n} /\ read_locks' = read_locks
        /\ \A m \in Locker \ {l} : write_locks'[m] = write_locks[m]
    BY <1>0, <1>4 DEF ReleaseWrite
  <2>2. release(l, n)
    BY <1>4 DEF ReleaseWrite
  <2> QED BY <2>1, <2>2 DEF Recorded
<1>5. CASE ReleaseNext(l)
  <2>1. PICK n \in Lsn : ReleaseRead(l, n) \/ ReleaseWrite(l, n)
    BY <1>5 DEF ReleaseNext
  <2>2. call[l].pc = "idle" /\ txn[l] \notin {"Open", "MustAbort"}
    BY <1>5 DEF ReleaseNext
  <2> QED BY <1>3, <1>4, <2>1, <2>2, ReleaseWait
<1>6. ASSUME NEW n \in Lsn, release_lock(l, n)
      PROVE  WaitInv'
  <2>1. call[l].pc = "idle" /\ l \in ReadCommitted /\ ReleaseRead(l, n)
    BY <1>6 DEF release_lock
  <2> QED BY <1>3, <2>1, ReleaseWait
<1>7. ASSUME NEW n \in Lsn, release_range_insert_for_write(l, n)
      PROVE  WaitInv'
  <2>1. call[l].pc = "idle" /\ n \notin write_locks[l] /\ ReleaseRead(l, n)
    BY <1>7 DEF release_range_insert_for_write
  <2> QED BY <1>3, <2>1, ReleaseWait
<1> QED BY <1>1, <1>2, <1>5, <1>6, <1>7

LEMMA DemoteWait ==
  ASSUME Inv, WaitInv, NEW l \in Locker, NEW n \in Lsn, Demote(l, n)
  PROVE  WaitInv'
<1> DEFINE lk == lock_tables[n]
           y == demote(lk, l)
<1>0. /\ read_locks \in [Locker -> SUBSET Lsn] /\ write_locks \in [Locker -> SUBSET Lsn]
      /\ lock_tables \in [Lsn -> Lock]
  BY DEF Inv, TypeOK
<1>1. /\ Free(n) /\ lock_tables' = [lock_tables EXCEPT ![n] = y] /\ n \in write_locks[l]
      /\ UNCHANGED <<shard, waiter_graph, preempted, granted, call, txn>>
      /\ call[l].pc = "idle"
  BY <1>0 DEF Demote
<1>2. LockerInv(l) /\ Good(lk)
  BY TableGood DEF WaitInv
<1>3. ~ Waiting(l) /\ call[l].pc # "releasing"
  BY <1>1 DEF Waiting, WaitPcs
<1>4. /\ \A k \in Lsn : Que(k, l) = {}
      /\ \A k \in Lsn : Own(k, l) # {} => k \in Recorded(l)
      /\ waiter_graph[l] = {}
  BY <1>2, <1>3, Outside
<1>5. /\ Tidy(y) /\ SameLine(lk, y)
      /\ \A m : m # l => Owned(y, m) = Owned(lk, m)
      /\ Owned(y, l) = {} <=> Owned(lk, l) = {}
      /\ Owners(y) = {} <=> Owners(lk) = {}
      /\ \A o \in Owned(y, l) :
           \/ o.type = "Read" \/ o \in Owned(lk, l)
           \/ o.type = "RangeRead" /\ is_owner(lk, l, "RangeWrite")
  BY <1>2, DemoteEffect
<1> HIDE DEF y
<1>6. Waiters(y) = Waiters(lk)
  BY <1>5, SameLineEffect
<1>7. Untouched(lk, y, l) /\ Queued(y, l) = {}
  <2>1. Queued(lk, l) = {}
    BY <1>4 DEF Que
  <2> HIDE DEF lk
  <2> QED BY <1>5, <1>6, <2>1 DEF Queued, Untouched
<1>8. /\ write_locks'[l] = write_locks[l] \ {n} /\ read_locks'[l] = read_locks[l] \cup {n}
      /\ \A m \in Locker \ {l} : /\ read_locks'[m] = read_locks[m]
                                 /\ write_locks'[m] = write_locks[m]
  BY <1>0 DEF Demote
<1>9. Recorded(l)' = Recorded(l)
  BY <1>1, <1>8 DEF Recorded
<1>10. \A k \in Lsn : (Own(k, l)' = {} <=> Own(k, l) = {}) /\ Que(k, l)' = {}
  <2>1. /\ Own(n, l)' = Owned(y, l) /\ Que(n, l)' = Queued(y, l)
        /\ \A k \in Lsn \ {n} : Own(k, l)' = Own(k, l) /\ Que(k, l)' = Que(k, l)
    BY <1>1, TableStep
  <2>2. Own(n, l) = Owned(lk, l)
    BY DEF Own
  <2> HIDE DEF lk
  <2> QED BY <1>4, <1>5, <1>7, <2>1, <2>2
<1>11. KeepOf(l)'
  <2>1. Recorded(l) \subseteq Lsn /\ preempted' = preempted /\ txn' = txn
    BY <1>1 DEF Recorded, Inv, TypeOK
  <2> QED BY <1>2, <1>9, <1>10, <2>1 DEF LockerInv, KeepOf
<1>12. ~ Waiting(l)' /\ \A k \in Lsn : shard'[k] # l
  BY <1>1, <1>2, <1>3 DEF Waiting, LockerInv, ThreadOf
<1>16. TypesOf(l)'
  <2>1. \A o \in Owned(lk, l) : o.type \in Reach
    BY <1>2 DEF LockerInv, TypesOf, Own
  <2>2. \A o \in Owned(y, l) : o.type \in Reach
    <3> HIDE DEF lk
    <3>1. is_owner(lk, l, "RangeWrite") => "RangeWrite" \in Reach
      BY <2>1 DEF is_owner
    <3> QED BY <1>5, <2>1, <3>1, ReachClosed
  <2>3. Own(n, l)' = Owned(y, l) /\ \A k \in Lsn \ {n} : Own(k, l)' = Own(k, l)
    BY <1>1, TableStep
  <2> QED BY <1>1, <1>2, <2>2, <2>3 DEF LockerInv, TypesOf
<1>13. LockerInv(l)'
  BY <1>1, <1>4, <1>9, <1>10, <1>11, <1>12, <1>16, OutsideAfter
<1>14. Waiters(y) # {} => Owners(y) # {}
  BY <1>1, <1>5, <1>6 DEF WaitInv, LockInv
<1>15. OnlyOf(l)
  BY <1>1, <1>8 DEF OnlyOf
<1> QED BY <1>1, <1>5, <1>7, <1>13, <1>14, <1>15, StepKept

\* A hand-over: the waiter leaves the line, and unless it only has to restart it
\* becomes an owner.
LEMMA HandedOver ==
  ASSUME NEW lk, Good(lk), NEW w \in NextWaiter(lk), NEW releaser, NEW ownFirst \in BOOLEAN,
         WaiterGrant(lk, w, releaser, ownFirst) \in Granted
  PROVE  LET y == GrantWaiter(lk, w, WaiterGrant(lk, w, releaser, ownFirst))
         IN /\ Good(y)
            /\ Waiters(y) = {v \in Waiters(lk) : v.locker # w.locker}
            /\ \A m : m # w.locker => Owned(y, m) = Owned(lk, m)
            /\ w.type = "Restart" => Owned(y, w.locker) = Owned(lk, w.locker)
            /\ w.type # "Restart" =>
                 /\ Owned(y, w.locker) # {}
                 /\ Owned(lk, w.locker) = {} =>
                      Owned(y, w.locker) = {[locker |-> w.locker, type |-> w.type]}
                 /\ \A p \in Owned(lk, w.locker), o \in Owned(y, w.locker) :
                      o.type = get_upgrade(p.type, w.type)
<1> DEFINE g == WaiterGrant(lk, w, releaser, ownFirst)
           given == IF w.type = "Restart" THEN lk ELSE Grant(lk, w.locker, w.type, g)
           y == GrantWaiter(lk, w, g)
<1>1. lk \in Lock /\ Sound(lk)
  BY DEF Good, Sound
<1>2. w.locker \in Locker /\ w.type \in LockTypes \cup {"Restart"}
  BY <1>1, NextWaiterType DEF WaiterInfo
<1>3. Sound(y)
  BY <1>1, GrantWaiterSound
<1>4. y = PopWaiter(given)
  BY DEF GrantWaiter
<1>5. /\ Good(given) /\ SameLine(lk, given)
      /\ \A m : m # w.locker => Owned(given, m) = Owned(lk, m)
      /\ w.type = "Restart" => Owned(given, w.locker) = Owned(lk, w.locker)
      /\ w.type # "Restart" =>
           /\ Owned(given, w.locker) # {}
           /\ Owned(lk, w.locker) = {} =>
                Owned(given, w.locker) = {[locker |-> w.locker, type |-> w.type]}
           /\ \A p \in Owned(lk, w.locker), o \in Owned(given, w.locker) :
                o.type = get_upgrade(p.type, w.type)
  <2>1. CASE w.type = "Restart"
    <3>1. given = lk
      BY <2>1
    <3> HIDE DEF given, g
    <3> QED BY <2>1, <3>1 DEF SameLine
  <2>2. CASE w.type # "Restart"
    <3> DEFINE S == {}
               q == TRUE
    <3>1. g = GrantOf(lk, w.locker, w.type, q, S, ownFirst) /\ g \in Granted
      BY <2>2 DEF WaiterGrant
    <3>2. given = Grant(lk, w.locker, w.type, g) /\ w.type \in LockTypes
      BY <1>2, <2>2
    <3>3. S \subseteq Sharers(w.locker)
      OBVIOUS
    <3> HIDE DEF given, g, S, q
    <3>4. PICK v \in Locker, t \in LockTypes : v = w.locker /\ t = w.type
      BY <1>2, <3>2
    <3>5. /\ S \subseteq Sharers(v) /\ GrantOf(lk, v, t, q, S, ownFirst) \in Granted
          /\ given = Grant(lk, v, t, GrantOf(lk, v, t, q, S, ownFirst))
      BY <3>1, <3>2, <3>3, <3>4
    <3>6. /\ Good(given) /\ SameLine(lk, given)
          /\ \A m : m # v => Owned(given, m) = Owned(lk, m)
          /\ Owned(given, v) # {}
          /\ Owned(lk, v) = {} => Owned(given, v) = {[locker |-> v, type |-> t]}
          /\ \A p \in Owned(lk, v), o \in Owned(given, v) : o.type = get_upgrade(p.type, t)
      BY <3>5, GrantEffect
    <3> QED BY <2>2, <3>4, <3>6
  <2> QED BY <2>1, <2>2
<1> HIDE DEF given, y, g
<1>6. NextWaiter(given) = NextWaiter(lk) /\ Waiters(given) = Waiters(lk) /\ given \in Lock
  BY <1>5, SameLineEffect DEF Good, Sound
<1>7. Tidy(y) /\ Waiters(y) = {v \in Waiters(lk) : v.locker # w.locker}
  BY <1>4, <1>5, <1>6, PopWaiterEffect
<1>8. Owners(y) = Owners(given)
  BY <1>4, <1>6, WaiterOwners
<1>9. \A m : Owned(y, m) = Owned(given, m)
  BY <1>8 DEF Owned
<1> QED BY <1>3, <1>5, <1>7, <1>9 DEF Good, y, g

LEMMA GrantNextWait ==
  ASSUME Inv, WaitInv, NEW l \in Locker, NEW n \in Lsn, GrantNext(l, n)
  PROVE  WaitInv'
<1> DEFINE lk == lock_tables[n]
<1>1. PICK w \in NextWaiter(lk), ownFirst \in BOOLEAN :
        LET g == WaiterGrant(lk, w, l, ownFirst)
        IN /\ g \in Granted
           /\ lock_tables' = [lock_tables EXCEPT ![n] = GrantWaiter(lk, w, g)]
           /\ granted' = [granted EXCEPT ![w.locker] = TRUE]
  BY DEF GrantNext
<1> DEFINE v == w.locker
           y == GrantWaiter(lk, w, WaiterGrant(lk, w, l, ownFirst))
<1>2. /\ shard[n] = l /\ lock_tables' = [lock_tables EXCEPT ![n] = y]
      /\ granted' = [granted EXCEPT ![v] = TRUE]
      /\ UNCHANGED <<shard, waiter_graph, preempted, call, txn, recorded>>
  BY <1>1 DEF GrantNext
<1>3. Good(lk) /\ lk \in Lock
  BY TableGood DEF Sound
<1>4. w \in Waiters(lk) /\ v \in Locker
  BY <1>3, NoWaitersMeans, NextWaiterType DEF WaiterInfo
<1>5. /\ Good(y)
      /\ Waiters(y) = {x \in Waiters(lk) : x.locker # v}
      /\ \A m : m # v => Owned(y, m) = Owned(lk, m)
      /\ w.type = "Restart" => Owned(y, v) = Owned(lk, v)
      /\ w.type # "Restart" =>
           /\ Owned(y, v) # {}
           /\ Owned(lk, v) = {} => Owned(y, v) = {[locker |-> v, type |-> w.type]}
           /\ \A p \in Owned(lk, v), o \in Owned(y, v) : o.type = get_upgrade(p.type, w.type)
  <2> HIDE DEF lk
  <2> QED BY <1>1, <1>3, HandedOver
<1>6. w \in Que(n, v)
  BY <1>4 DEF Que, Queued
<1> HIDE DEF y, v
<1>7. /\ \A m : m # v => Queued(y, m) = Queued(lk, m)
      /\ Queued(y, v) = {}
  BY <1>5 DEF Queued
<1>8. \A m :
        /\ Own(n, m)' = Owned(y, m) /\ Que(n, m)' = Queued(y, m)
        /\ \A k \in Lsn \ {n} : Own(k, m)' = Own(k, m) /\ Que(k, m)' = Que(k, m)
  BY <1>2, TableStep
<1>9. \A m : Own(n, m) = Owned(lk, m) /\ Que(n, m) = Queued(lk, m)
  BY DEF Own, Que
<1>10. granted'[v] = TRUE /\ \A m \in Locker \ {v} : granted'[m] = granted[m]
  BY <1>2, <1>4 DEF Inv, TypeOK
<1> HIDE DEF lk
<1>11. ASSUME NEW m \in Locker \ {v} PROVE LockerInv(m)'
  <2>1. \A k \in Lsn : Que(k, m)' = Que(k, m) /\ Own(k, m)' = Own(k, m)
    BY <1>5, <1>7, <1>8, <1>9
  <2>2. LockerInv(m)
    BY DEF WaitInv
  <2> QED BY <1>2, <1>10, <2>1, <2>2, LockerKept DEF recorded
<1>12. LockerInv(v)
  BY <1>4 DEF WaitInv
<1>13. /\ call[v].pc \in WaitPcs \ {"clear"} /\ call[v].lsn = n /\ ~ granted[v]
       /\ w = Entry(v, call[v].type, call[v].wait)
       /\ \A o \in Own(n, v) : o.type # call[v].type
  BY <1>6, <1>12 DEF LockerInv, LineOf
<1>14. /\ call[v].type \in LockTypes
       /\ w.type = IF call[v].wait = "WaitRestart" THEN "Restart" ELSE call[v].type
       /\ call[v].wait = "WaitRestart" <=> w.type = "Restart"
  <2>1. call[v].type \in LockTypes
    BY <1>4, CallFields
  <2>2. "Restart" \notin LockTypes
    BY DEF LockTypes
  <2> QED BY <1>13, <2>1, <2>2 DEF Entry
<1>15. Waiting(v) /\ Waiting(v)' /\ Recorded(v)' = Recorded(v)
  BY <1>2, <1>13 DEF Waiting, Recorded, recorded
<1>16. /\ ~ Served(v)
       /\ Served(v)' <=> call[v].wait # "WaitRestart"
  BY <1>2, <1>10, <1>13, <1>15 DEF Served
<1>17. \A k \in Lsn : Own(k, v) # {} => k \in Recorded(v)
  BY <1>12, <1>16 DEF LockerInv, OwnOf
<1>18. /\ \A k \in Lsn \ {n} : Que(k, v)' = {} /\ Own(k, v)' = Own(k, v)
       /\ Que(n, v)' = {}
  <2>1. \A k \in Lsn \ {n} : Que(k, v) = {}
    BY <1>12, <1>13 DEF LockerInv, LineOf
  <2> QED BY <1>7, <1>8, <2>1
<1>19. LockerInv(v)'
  <2>1. LineOf(v)'
    BY <1>18 DEF LineOf
  <2>2. ThreadOf(v)'
    <3>1. "releasing" \notin WaitPcs
      BY DEF WaitPcs
    <3> QED BY <1>2, <1>10, <1>12, <1>13, <1>15, <3>1 DEF LockerInv, ThreadOf
  <2>3. OwnOf(v)'
    <3> SUFFICES ASSUME NEW k \in Lsn, Own(k, v)' # {}, k \notin Recorded(v)
                 PROVE  /\ Served(v)' /\ granted'[v] /\ call'[v].lsn = k
                        /\ \E o \in Own(k, v)' : o.type = call'[v].type
      BY <1>15 DEF OwnOf
    <3>1. k = n /\ Own(n, v) = {}
      BY <1>17, <1>18
    <3>2. w.type # "Restart"
      BY <1>5, <1>8, <1>9, <3>1
    <3>3. Own(n, v)' = {[locker |-> v, type |-> w.type]}
      BY <1>5, <1>8, <1>9, <3>1, <3>2
    <3> QED BY <1>2, <1>10, <1>13, <1>14, <1>16, <3>1, <3>2, <3>3
  <2>4. ServedOf(v)'
    <3>1. w.type # "Restart" => Own(n, v)' # {}
      BY <1>5, <1>8
    <3> QED BY <1>2, <1>13, <1>14, <1>16, <3>1 DEF ServedOf
  <2>5. KeepOf(v)'
    <3>1. Recorded(v) \subseteq Lsn
      BY <1>4 DEF Recorded, Inv, TypeOK
    <3>2. Own(n, v) # {} => Own(n, v)' # {}
      BY <1>5, <1>8, <1>9
    <3> QED BY <1>2, <1>12, <1>15, <1>18, <3>1, <3>2 DEF LockerInv, KeepOf
  <2>6. NewOf(v)'
    <3> SUFFICES ASSUME call[v].wait = "WaitNew"
                 PROVE  \A o \in Own(n, v)' : o.type = call[v].type
      BY <1>2, <1>13 DEF NewOf
    <3>1. Own(n, v) = {}
      BY <1>12, <1>13, <1>15 DEF LockerInv, NewOf
    <3>2. w.type # "Restart" /\ w.type = call[v].type
      BY <1>14
    <3>3. Own(n, v)' = {[locker |-> v, type |-> w.type]}
      BY <1>5, <1>8, <1>9, <3>1, <3>2
    <3> QED BY <3>2, <3>3
  <2>7. TypesOf(v)'
    <3>1. \A p \in Owned(lk, v) : p.type \in Reach
      BY <1>9, <1>12 DEF LockerInv, TypesOf
    <3>2. CASE w.type = "Restart"
      BY <1>2, <1>5, <1>8, <1>9, <1>12, <1>18, <3>2 DEF LockerInv, TypesOf
    <3>3. CASE w.type # "Restart"
      <4>1. w.type \in Reach
        BY <1>12, <1>14, <3>3 DEF LockerInv, TypesOf
      <4>2. \A o \in Owned(y, v) : o.type \in Reach
        BY <1>5, <3>1, <3>3, <4>1, GrantReach
      <4> QED BY <1>2, <1>8, <1>12, <1>18, <4>2 DEF LockerInv, TypesOf
    <3> QED BY <3>2, <3>3
  <2>8. PromotionOf(v)'
    <3> SUFFICES ASSUME call[v].wait = "WaitPromotion", NEW o \in Own(n, v)',
                        is_write_lock(o.type)
                 PROVE  \/ o.type = call[v].type
                        \/ o.type = "RangeWrite" /\ call[v].type = "Write"
      BY <1>2, <1>13 DEF PromotionOf
    <3>1. w.type # "Restart" /\ w.type = call[v].type /\ o \in Owned(y, v)
      BY <1>8, <1>14
    <3>2. CASE Owned(lk, v) = {}
      BY <1>5, <3>1, <3>2
    <3>3. ASSUME NEW p \in Owned(lk, v)
          PROVE  \/ o.type = call[v].type
                 \/ o.type = "RangeWrite" /\ call[v].type = "Write"
      <4>1. p.type # call[v].type
        BY <1>9, <1>13
      <4>2. is_write_lock(p.type) => p.type = "RangeWrite" /\ call[v].type = "Write"
        BY <1>9, <1>12, <1>13, <1>15, <4>1 DEF LockerInv, PromotionOf
      <4>3. o.type = get_upgrade(p.type, call[v].type)
        BY <1>5, <3>1
      <4>4. p.type \in LockTypes
        BY <1>3, OneEntry DEF Good
      <4> QED BY <1>14, <4>1, <4>2, <4>3, <4>4
              DEF get_upgrade, LockTypes, is_write_lock, causes_restart
    <3> QED BY <3>2, <3>3
  <2> QED BY <2>1, <2>2, <2>3, <2>4, <2>5, <2>6, <2>7, <2>8 DEF LockerInv
<1>20. \A k \in Lsn : LockInv(k)'
  <2>1. shard'[n] # NoLocker
    BY <1>2, LockerAssumption DEF NoLocker
  <2> QED BY <1>2, <1>5, <2>1, LocksKept DEF Good
<1> QED BY <1>11, <1>19, <1>20 DEF WaitInv

\* A waiter is refused only because of an owner.
LEMMA RefusedByOwner ==
  ASSUME NEW lk, Good(lk), NEW w \in NextWaiter(lk), NEW releaser, NEW ownFirst \in BOOLEAN,
         WaiterGrant(lk, w, releaser, ownFirst) \notin Granted
  PROVE  Owners(lk) # {}
<1>1. lk \in Lock /\ Sound(lk)
  BY DEF Good, Sound
<1>2. w.locker \in Locker /\ w.type \in LockTypes \cup {"Restart"}
  BY <1>1, NextWaiterType DEF WaiterInfo
<1>3. CASE w.type = "Restart"
  BY <1>3 DEF WaiterGrant, range_insert_conflict, Granted, Owners
<1>4. CASE w.type # "Restart"
  <2>1. GrantOf(lk, w.locker, w.type, TRUE, {}, ownFirst) \notin Granted
    BY <1>4 DEF WaiterGrant
  <2>2. w.type \in LockTypes
    BY <1>2, <1>4
  <2> QED BY <1>1, <1>2, <2>1, <2>2, GrantOfFacts
<1> QED BY <1>3, <1>4

LEMMA EndReleaseWait ==
  ASSUME Inv, WaitInv, NEW l \in Locker, NEW n \in Lsn, EndRelease(l, n)
  PROVE  WaitInv'
<1> DEFINE lk == lock_tables[n]
           y == Stored(lk)
<1>1. /\ shard[n] = l /\ lock_tables' = [lock_tables EXCEPT ![n] = y]
      /\ shard' = [shard EXCEPT ![n] = NoLocker]
      /\ call' = [call EXCEPT ![l] = NoCall]
      /\ UNCHANGED <<waiter_graph, preempted, granted, txn, recorded>>
  BY DEF EndRelease
<1>2. Good(lk) /\ lk \in Lock /\ LockerInv(l)
  BY TableGood DEF WaitInv, Sound
<1>3. Good(y) /\ Owners(y) = Owners(lk) /\ Waiters(y) = Waiters(lk)
  BY <1>2, StoredEffect
<1>4. Waiters(y) # {} => Owners(y) # {}
  <2>1. CASE NextWaiter(lk) = {}
    BY <1>2, <1>3, <2>1, NoWaitersMeans
  <2>2. CASE \E w \in NextWaiter(lk), ownFirst \in BOOLEAN :
               WaiterGrant(lk, w, l, ownFirst) \notin Granted
    <3> HIDE DEF lk, y
    <3> QED BY <1>2, <1>3, <2>2, RefusedByOwner
  <2> QED BY <2>1, <2>2 DEF EndRelease
<1> HIDE DEF y
<1>5. call[l].pc = "releasing" /\ call[l].lsn = n /\ \A k \in Lsn \ {n} : shard[k] # l
  BY <1>1, <1>2 DEF LockerInv, ThreadOf
<1>6. ~ Waiting(l)
  BY <1>5 DEF Waiting, WaitPcs
<1>7. /\ \A k \in Lsn : Que(k, l) = {}
      /\ \A k \in Lsn : Own(k, l) # {} => k \in Recorded(l)
      /\ waiter_graph[l] = {}
  BY <1>2, <1>6, Outside
<1>8. \A k \in Lsn : \A m : Que(k, m)' = Que(k, m) /\ Own(k, m)' = Own(k, m)
  <2>1. \A m :
          /\ Own(n, m)' = Owned(y, m) /\ Que(n, m)' = Queued(y, m)
          /\ \A k \in Lsn \ {n} : Own(k, m)' = Own(k, m) /\ Que(k, m)' = Que(k, m)
    BY <1>1, TableStep
  <2>2. \A m : Own(n, m) = Owned(lk, m) /\ Que(n, m) = Queued(lk, m)
    BY DEF Own, Que
  <2>3. \A m : Owned(y, m) = Owned(lk, m) /\ Queued(y, m) = Queued(lk, m)
    BY <1>3 DEF Owned, Queued
  <2> HIDE DEF lk
  <2> QED BY <2>1, <2>2, <2>3
<1>9. /\ shard'[n] = NoLocker /\ \A k \in Lsn \ {n} : shard'[k] = shard[k]
      /\ call'[l].pc = "idle" /\ call'[l].type = "Read"
      /\ \A m \in Locker \ {l} : call'[m] = call[m]
  BY <1>1 DEF Inv, TypeOK, NoCall
<1>10. ~ Waiting(l)' /\ Recorded(l)' = Recorded(l) /\ OnlyOf(l)
  BY <1>1, <1>9 DEF Waiting, WaitPcs, Recorded, recorded, OnlyOf
<1>11. \A k \in Lsn : shard'[k] # l
  BY <1>5, <1>9, LockerAssumption DEF NoLocker
<1>12. KeepOf(l)'
  <2>1. Recorded(l) \subseteq Lsn /\ preempted' = preempted /\ txn' = txn
    BY <1>1 DEF Recorded, Inv, TypeOK
  <2> QED BY <1>2, <1>8, <1>10, <2>1 DEF LockerInv, KeepOf
<1>15. TypesOf(l)'
  BY <1>2, <1>8, <1>9, ReachClosed DEF LockerInv, TypesOf
<1>13. LockerInv(l)'
  BY <1>1, <1>7, <1>8, <1>10, <1>11, <1>12, <1>15, OutsideAfter
<1>14. Untouched(lk, y, l) /\ Tidy(y)
  BY <1>3 DEF Untouched, Queued, Owned, Good
<1> QED BY <1>1, <1>4, <1>9, <1>10, <1>13, <1>14, StepKept

-----------------------------------------------------------------------------
LEMMA InitWait == Init => WaitInv
<1> SUFFICES ASSUME Init PROVE WaitInv
  OBVIOUS
<1>1. ASSUME NEW n \in Lsn PROVE LockInv(n)
  <2>1. lock_tables[n] = new
    BY DEF Init
  <2> QED BY <2>1, NewGood DEF LockInv, Good
<1>2. ASSUME NEW l \in Locker PROVE LockerInv(l)
  <2>1. \A n \in Lsn : Own(n, l) = {} /\ Que(n, l) = {}
    <3>1. \A n \in Lsn : lock_tables[n] = new
      BY DEF Init
    <3>2. Owned(new, l) = {} /\ Queued(new, l) = {}
      BY NewGood DEF Owned, Queued
    <3> QED BY <3>1, <3>2 DEF Own, Que
  <2>2. /\ call[l].pc = "idle" /\ call[l].type \in Reach
        /\ waiter_graph[l] = {} /\ Recorded(l) = {}
    BY ReachClosed DEF Init, NoCall, Recorded
  <2>3. ~ Waiting(l) /\ call[l].pc \notin WaitPcs /\ call[l].pc # "validate"
    BY <2>2 DEF Waiting, WaitPcs
  <2>4. \A n \in Lsn : shard[n] # l
    BY LockerAssumption DEF Init, NoLocker
  <2> QED BY <2>1, <2>2, <2>3, <2>4
          DEF LockerInv, LineOf, ThreadOf, OwnOf, ServedOf, Served, KeepOf, NewOf,
              PromotionOf, TypesOf
<1> QED BY <1>1, <1>2 DEF WaitInv

LEMMA StepWait == Inv /\ WaitInv /\ [Next]_vars => WaitInv'
<1> SUFFICES ASSUME Inv, WaitInv, [Next]_vars PROVE WaitInv'
  OBVIOUS
<1>1. ASSUME NEW l \in Locker, Step(l)
      PROVE  WaitInv'
  BY <1>1, RequestsWait, StealWait, WaitPathWait, ValidateWait, ClearWaitWait, EndOfTxnWait,
     GrantNextWait, EndReleaseWait DEF Step
<1>2. ASSUME NEW l \in Locker, Invoke(l)
      PROVE  WaitInv'
  BY <1>2, RequestsWait, ProbeWait, EndOfTxnWait, DemoteWait DEF Invoke
<1>3. CASE UNCHANGED vars
  <2>1. UNCHANGED <<lock_tables, shard, waiter_graph, preempted, granted, call, txn,
                    read_locks, write_locks>>
    BY <1>3 DEF vars
  <2>2. \A n, l : Own(n, l)' = Own(n, l) /\ Que(n, l)' = Que(n, l)
    BY <2>1 DEF Own, Que
  <2>3. \A l \in Locker : LockerInv(l)'
    BY <2>1, <2>2, LockerKept DEF WaitInv
  <2>4. \A n \in Lsn : LockInv(n)'
    BY <2>1 DEF WaitInv, LockInv, Free
  <2> QED BY <2>3, <2>4 DEF WaitInv
<1> QED BY <1>1, <1>2, <1>3 DEF Next, Finished

\* The inductive invariant of the wait side, on top of the types and the
\* compatibility of owners.
THEOREM WaitInvariance == Spec => [](Inv /\ WaitInv)
<1>1. Init => Inv /\ WaitInv
  BY InitInv, InitWait
<1>2. Inv /\ WaitInv /\ [Next]_vars => (Inv /\ WaitInv)'
  BY StepInv, StepWait
<1> QED BY <1>1, <1>2, PTL DEF Spec

\* Outside release's loop a line has an owner that will wake it, whatever
\* releases, steals, timeouts and deadlock victims interleave
\* (LockManager::release, validate_ownership_or_flush, steal_lock_in_wait).
THEOREM LinesAreAttended == Spec => []WaitersHaveOwner
<1>1. Inv /\ WaitInv => WaitersHaveOwner
  <2> SUFFICES ASSUME Inv, WaitInv, NEW n \in Lsn, Free(n), ~ NoWaiters(lock_tables[n])
               PROVE  Owners(lock_tables[n]) # {}
    BY DEF WaitersHaveOwner
  <2>1. Waiters(lock_tables[n]) # {}
    BY TableSound, NoWaitersMeans DEF Sound
  <2> QED BY <2>1 DEF WaitInv, LockInv
<1> QED BY <1>1, WaitInvariance, PTL

\* A locker stands in at most one line, once, while its thread waits there and
\* has not been granted; and a thread that waits stands in the line or has its
\* flag up (lock_with_timeout_and_txn, release, flush_waiter).
THEOREM LinesMatchThreads == Spec => []WaitsOnce
<1>1. Inv /\ WaitInv => WaitsOnce
  <2> SUFFICES ASSUME Inv, WaitInv, NEW l \in Locker
               PROVE  /\ \A n \in Lsn :
                           /\ l \in WaiterIds(lock_tables[n]) =>
                                /\ Waiting(l) /\ call[l].lsn = n /\ ~ granted[l]
                                /\ ~ (call[l].pc = "clear")
                           /\ LET lk == lock_tables[n]
                                  here == {i \in 1 .. Len(lk.waiter_list) :
                                             lk.waiter_list[i].locker = l}
                              IN Cardinality(here)
                                   + Cardinality({w \in lk.first_waiter : w.locker = l}) <= 1
                      /\ call[l].pc \in WaitPcs \ {"clear"} =>
                           granted[l] \/ l \in WaiterIds(lock_tables[call[l].lsn])
    BY DEF WaitsOnce
  <2>0. LockerInv(l)
    BY DEF WaitInv
  <2>1. ASSUME NEW n \in Lsn, l \in WaiterIds(lock_tables[n])
        PROVE  /\ Waiting(l) /\ call[l].lsn = n /\ ~ granted[l]
               /\ ~ (call[l].pc = "clear")
    <3>1. PICK w \in Waiters(lock_tables[n]) : w.locker = l
      BY <2>1 DEF WaiterIds
    <3>2. w \in Que(n, l)
      BY <3>1 DEF Que, Queued
    <3> QED BY <2>0, <3>2 DEF LockerInv, LineOf, Waiting
  <2>2. call[l].pc \in WaitPcs \ {"clear"} =>
          granted[l] \/ l \in WaiterIds(lock_tables[call[l].lsn])
    BY <2>0 DEF LockerInv, ThreadOf, Que, Queued, WaiterIds
  <2>3. ASSUME NEW n \in Lsn
        PROVE  LET lk == lock_tables[n]
                   here == {i \in 1 .. Len(lk.waiter_list) : lk.waiter_list[i].locker = l}
               IN Cardinality(here)
                    + Cardinality({w \in lk.first_waiter : w.locker = l}) <= 1
    <3> DEFINE lk == lock_tables[n]
               here == {i \in 1 .. Len(lk.waiter_list) : lk.waiter_list[i].locker = l}
               slot == {w \in lk.first_waiter : w.locker = l}
    <3>1. Tidy(lk) /\ lk \in Lock
      BY TableGood DEF Good, Sound
    <3>2. slot = {} \/ \E w : slot = {w}
      BY <3>1 DEF Lock, Opt
    <3>3. here = {} \/ \E i : here = {i}
      <4>1. ASSUME NEW i \in here PROVE here = {i}
        BY <3>1 DEF Tidy, Distinct
      <4> HIDE DEF here
      <4> QED BY <4>1
    <3>4. slot = {} \/ here = {}
      BY <3>1 DEF Tidy, Listed
    <3>5. Cardinality({}) = 0 /\ \A x : Cardinality({x}) = 1
      BY FS_EmptySet, FS_Singleton
    <3> HIDE DEF here, slot
    <3>6. Cardinality(here) + Cardinality(slot) <= 1
      <4>1. Cardinality(here) \in {0, 1} /\ Cardinality(slot) \in {0, 1}
        BY <3>2, <3>3, <3>5
      <4>2. Cardinality(here) = 0 \/ Cardinality(slot) = 0
        BY <3>4, <3>5
      <4> QED BY <4>1, <4>2
    <3> QED BY <3>6 DEF here, slot
  <2> QED BY <2>1, <2>2, <2>3
<1> QED BY <1>1, WaitInvariance, PTL

\* A locker owns only what its caller recorded or is about to record: an error
\* leaves no owner behind (the race of a grant with a timeout in
\* validate_ownership_or_flush).
THEOREM OwnersAreRecorded == Spec => []OwnedIsRecorded
<1>1. Inv /\ WaitInv => OwnedIsRecorded
  <2> SUFFICES ASSUME Inv, WaitInv, NEW l \in Locker, NEW n \in Lsn,
                      l \in OwnerIds(lock_tables[n]), n \notin read_locks[l] \cup write_locks[l]
               PROVE  /\ Waiting(l) /\ call[l].lsn = n /\ granted[l]
                      /\ call[l].pc = "clear" => call[l].outcome = "Granted"
    BY DEF OwnedIsRecorded
  <2>1. Own(n, l) # {} /\ n \notin Recorded(l)
    BY DEF Own, Owned, OwnerIds, Recorded
  <2> QED BY <2>1 DEF WaitInv, LockerInv, OwnOf, Served
<1> QED BY <1>1, WaitInvariance, PTL

\* The waits-for graph keeps no edge of a thread that has returned (record_wait,
\* clear_wait on every way out).
THEOREM NoEdgeIsStale == Spec => []NoStaleEdge
<1>1. WaitInv => NoStaleEdge
  BY DEF WaitInv, LockerInv, ThreadOf, NoStaleEdge
<1> QED BY <1>1, WaitInvariance, PTL

\* Without read-committed readers, who give up single locks, a caller that has
\* not begun to end owns every LSN it recorded, or carries the preempted mark
\* (steal_lock_in_wait, mark_preempted).
THEOREM NothingLostSilently ==
  ASSUME ReadCommitted = {}
  PROVE  Spec => []NoSilentLoss
<1>1. WaitInv => NoSilentLoss
  <2> SUFFICES ASSUME WaitInv, NEW l \in Locker, txn[l] \in {"Open", "MustAbort"},
                      NEW n \in read_locks[l] \cup write_locks[l]
               PROVE  l \in OwnerIds(lock_tables[n]) \/ l \in preempted
    BY DEF NoSilentLoss
  <2>1. Own(n, l) # {} \/ l \in preempted
    BY DEF WaitInv, LockerInv, KeepOf, Recorded
  <2> QED BY <2>1 DEF Own, Owned, OwnerIds
<1> QED BY <1>1, WaitInvariance, PTL

\* A request that reports an error was not granted (validate_ownership_or_flush
\* and the way to it), as long as nobody asks for write locks beside range locks:
\* the holder of a range read who waits for a write becomes a range writer, which
\* the exact comparison of is_owner does not recognise.
THEOREM ErrorsAreHonest ==
  ASSUME \/ "Write" \notin RequestTypes
         \/ RequestTypes \cap {"RangeRead", "RangeWrite"} = {}
  PROVE  Spec => []ErrorMeansNotGranted
<1>1. Inv /\ WaitInv => ErrorMeansNotGranted
  <2> SUFFICES ASSUME Inv, WaitInv, NEW l \in Locker, call[l].pc = "clear",
                      call[l].outcome # "Granted"
               PROVE  LET owned == Owned(lock_tables[call[l].lsn], l)
                      IN /\ call[l].wait = "WaitNew" => owned = {}
                         /\ call[l].wait = "WaitPromotion" =>
                              \A o \in owned : ~ is_write_lock(o.type)
    BY DEF ErrorMeansNotGranted
  <2>0. LockerInv(l) /\ Waiting(l)
    BY DEF WaitInv, Waiting, WaitPcs
  <2>1. call[l].lsn \in Lsn
    BY <2>0, CallLsn
  <2>2. call[l].wait = "WaitNew" => Own(call[l].lsn, l) = {}
    BY <2>0 DEF LockerInv, NewOf
  <2>3. call[l].wait = "WaitPromotion" => \A o \in Own(call[l].lsn, l) : ~ is_write_lock(o.type)
    <3> SUFFICES ASSUME call[l].wait = "WaitPromotion", NEW o \in Own(call[l].lsn, l),
                        is_write_lock(o.type)
                 PROVE  FALSE
      OBVIOUS
    <3>1. o.type = "RangeWrite" /\ call[l].type = "Write"
      BY <2>0 DEF LockerInv, PromotionOf
    <3>2. "RangeWrite" \in Reach /\ "Write" \in Reach
      BY <2>0, <2>1, <3>1 DEF LockerInv, TypesOf
    <3> QED BY <3>2 DEF Reach
  <2> QED BY <2>2, <2>3 DEF Own
<1> QED BY <1>1, WaitInvariance, PTL

-----------------------------------------------------------------------------
(* What a replay locker keeps *)

\* A step of m takes nothing from the records of another caller l, nor its request
\* from it; at most it raises its flag.
LEMMA OthersStandStill ==
  ASSUME Inv, WaitInv, NEW m \in Locker, Step(m) \/ Invoke(m), NEW l \in Locker \ {m}
  PROVE  /\ call'[l] = call[l]
         /\ read_locks'[l] = read_locks[l] /\ write_locks'[l] = write_locks[l]
         /\ granted[l] => granted'[l]
<1>0. /\ call \in [Locker -> Call] /\ granted \in [Locker -> BOOLEAN]
      /\ read_locks \in [Locker -> SUBSET Lsn] /\ write_locks \in [Locker -> SUBSET Lsn]
  BY DEF Inv, TypeOK
<1> DEFINE Still == /\ call'[l] = call[l]
                    /\ read_locks'[l] = read_locks[l] /\ write_locks'[l] = write_locks[l]
                    /\ granted[l] => granted'[l]
<1>1. ASSUME NEW n, NEW t, ReturnGranted(m, n, t)
      PROVE  /\ call'[l] = call[l]
             /\ read_locks'[l] = read_locks[l] /\ write_locks'[l] = write_locks[l]
  BY <1>1, ReturnGrantedFacts
<1>2. ASSUME NEW e, ReturnError(m, e)
      PROVE  /\ call'[l] = call[l]
             /\ read_locks'[l] = read_locks[l] /\ write_locks'[l] = write_locks[l]
  BY <1>2, ReturnErrorFacts DEF recorded
<1>3. ASSUME NEW n, NEW t, NEW nb \in BOOLEAN, NEW d, lock_with_timeout_and_txn(m, n, t, nb, d)
      PROVE  Still
  BY <1>0, <1>1, <1>2, <1>3 DEF lock_with_timeout_and_txn, Attempt, recorded
<1>4. ASSUME NEW n, ReleaseRead(m, n) \/ ReleaseWrite(m, n) PROVE Still
  BY <1>0, <1>4 DEF ReleaseRead, ReleaseWrite, release
<1>5. ASSUME Step(m) PROVE Still
  <2>1. CASE ProbedRead(m) \/ Fallback(m)
    <3> DEFINE yes == TRUE
               no  == FALSE
    <3>1. yes \in BOOLEAN /\ no \in BOOLEAN
      OBVIOUS
    <3>2. CASE ProbedRead(m)
      <4>1. lock_with_timeout_and_txn(m, call[m].lsn, "Read", yes, [call[m] EXCEPT !.pc = "fallback"])
        BY <3>2 DEF ProbedRead
      <4> HIDE DEF yes, Still
      <4> QED BY <1>3, <3>1, <4>1
    <3>3. CASE Fallback(m)
      <4>1. lock_with_timeout_and_txn(m, call[m].lsn, call[m].type, no, NoCall)
        BY <3>3 DEF Fallback
      <4> HIDE DEF no, Still
      <4> QED BY <1>3, <3>1, <4>1
    <3> QED BY <2>1, <3>2, <3>3
  <2>2. CASE Steal(m)
    <3>1. \/ ReturnGranted(m, call[m].lsn, call[m].type)
          \/ call' = [call EXCEPT ![m].pc = "fallback"] /\ UNCHANGED recorded
          \/ call' = [call EXCEPT ![m] = NoCall] /\ UNCHANGED recorded
      BY <2>2 DEF Steal
    <3>2. UNCHANGED granted
      BY <2>2 DEF Steal
    <3> QED BY <1>0, <1>1, <3>1, <3>2 DEF recorded
  <2>3. CASE \/ BudgetSpent(m) \/ record_wait(m) \/ check_deadlock_for_waiter(m)
             \/ compute_lock_counts(m) \/ Verdict(m) \/ Wake(m) \/ SliceExpires(m)
             \/ \E e \in {"LockTimeout", "TransactionTimeout"} : TimesOut(m, e)
             \/ validate_ownership_or_flush(m)
    BY <1>0, <2>3 DEF BudgetSpent, record_wait, check_deadlock_for_waiter, compute_lock_counts,
                      Verdict, Wake, SliceExpires, TimesOut, validate_ownership_or_flush,
                      recorded, Goto
  <2>4. CASE clear_wait(m)
    BY <1>0, <1>1, <1>2, <2>4 DEF clear_wait
  <2>5. CASE EndTxn(m) \/ Ended(m)
    BY <2>5 DEF EndTxn, Ended, recorded
  <2>6. CASE ReleaseNext(m)
    BY <1>4, <2>6 DEF ReleaseNext
  <2>7. CASE \E n \in Lsn : GrantNext(m, n) \/ EndRelease(m, n)
    BY <1>0, <2>7 DEF GrantNext, EndRelease, recorded
  <2> QED BY <1>5, <2>1, <2>2, <2>3, <2>4, <2>5, <2>6, <2>7 DEF Step
<1>6. ASSUME Invoke(m) PROVE Still
  <2>1. PICK n \in Lsn : \/ \E t \in RequestTypes :
                              \/ \E nonBlocking \in BOOLEAN : Request(m, n, t, nonBlocking)
                              \/ ImportunateRequest(m, n, t)
                         \/ Probe(m, n) \/ release_lock(m, n)
                         \/ release_range_insert_for_write(m, n) \/ Demote(m, n)
    BY <1>6 DEF Invoke
  <2>2. ASSUME NEW t \in RequestTypes, NEW nb \in BOOLEAN, Request(m, n, t, nb) PROVE Still
    <3>1. lock_with_timeout_and_txn(m, n, t, nb, NoCall)
      BY <2>2 DEF Request
    <3> HIDE DEF Still
    <3> QED BY <1>3, <3>1
  <2>3. ASSUME NEW t \in RequestTypes, ImportunateRequest(m, n, t) PROVE Still
    <3> DEFINE yes == TRUE
    <3>1. lock_with_timeout_and_txn(m, n, t, yes,
                                    [NoCall EXCEPT !.pc = "steal", !.lsn = n, !.type = t])
      BY <2>3 DEF ImportunateRequest
    <3>2. yes \in BOOLEAN
      OBVIOUS
    <3> HIDE DEF Still, yes
    <3> QED BY <1>3, <3>1, <3>2
  <2>4. CASE Probe(m, n)
    BY <1>0, <2>4 DEF Probe, recorded
  <2>5. CASE release_lock(m, n) \/ release_range_insert_for_write(m, n)
    BY <1>4, <2>5 DEF release_lock, release_range_insert_for_write
  <2>6. CASE Demote(m, n)
    BY <1>0, <2>6 DEF Demote
  <2> QED BY <2>1, <2>2, <2>3, <2>4, <2>5, <2>6
<1> QED BY <1>5, <1>6

\* Only a caller that ends, reads read-committed or gives up a next-key lock takes
\* an LSN off its record.
LEMMA RecordsKept ==
  ASSUME Inv, WaitInv, NEW l \in Locker, Step(l) \/ Invoke(l),
         l \notin ReadCommitted, "Write" \notin RequestTypes \/ "RangeInsert" \notin RequestTypes,
         txn'[l] \in {"Open", "MustAbort"}
  PROVE  Recorded(l) \subseteq Recorded(l)'
<1>0. /\ call \in [Locker -> Call] /\ txn \in [Locker -> {"Open", "MustAbort", "Ending", "Ended"}]
      /\ read_locks \in [Locker -> SUBSET Lsn] /\ write_locks \in [Locker -> SUBSET Lsn]
  BY DEF Inv, TypeOK
<1> DEFINE Kept == Recorded(l) \subseteq Recorded(l)'
<1>1. ASSUME NEW n, NEW t, ReturnGranted(l, n, t) PROVE Kept
  BY <1>1, ReturnGrantedFacts
<1>2. ASSUME UNCHANGED recorded PROVE Kept
  BY <1>2 DEF recorded, Recorded
<1>3. ASSUME NEW n, NEW t, NEW nb \in BOOLEAN, NEW d, lock_with_timeout_and_txn(l, n, t, nb, d)
      PROVE  Kept
  <2> HIDE DEF Kept
  <2> QED BY <1>1, <1>2, <1>3 DEF lock_with_timeout_and_txn, Attempt, ReturnError
<1>5. ASSUME Step(l) PROVE Kept
  <2> HIDE DEF Kept
  <2>1. CASE ProbedRead(l) \/ Fallback(l)
    <3> DEFINE yes == TRUE
               no  == FALSE
    <3>1. yes \in BOOLEAN /\ no \in BOOLEAN
      OBVIOUS
    <3>2. CASE ProbedRead(l)
      <4>1. lock_with_timeout_and_txn(l, call[l].lsn, "Read", yes, [call[l] EXCEPT !.pc = "fallback"])
        BY <3>2 DEF ProbedRead
      <4> HIDE DEF yes
      <4> QED BY <1>3, <3>1, <4>1
    <3>3. CASE Fallback(l)
      <4>1. lock_with_timeout_and_txn(l, call[l].lsn, call[l].type, no, NoCall)
        BY <3>3 DEF Fallback
      <4> HIDE DEF no
      <4> QED BY <1>3, <3>1, <4>1
    <3> QED BY <2>1, <3>2, <3>3
  <2>2. CASE Steal(l)
    <3>1. ReturnGranted(l, call[l].lsn, call[l].type) \/ UNCHANGED recorded
      BY <2>2 DEF Steal
    <3> QED BY <1>1, <1>2, <3>1
  <2>3. CASE \/ BudgetSpent(l) \/ record_wait(l) \/ check_deadlock_for_waiter(l)
             \/ compute_lock_counts(l) \/ Verdict(l) \/ Wake(l) \/ SliceExpires(l)
             \/ \E e \in {"LockTimeout", "TransactionTimeout"} : TimesOut(l, e)
             \/ validate_ownership_or_flush(l)
    BY <1>2, <2>3 DEF BudgetSpent, record_wait, check_deadlock_for_waiter, compute_lock_counts,
                      Verdict, Wake, SliceExpires, TimesOut, validate_ownership_or_flush
  <2>4. CASE clear_wait(l)
    BY <1>1, <1>2, <2>4 DEF clear_wait, ReturnError
  <2>5. CASE EndTxn(l) \/ Ended(l)
    BY <1>2, <2>5 DEF EndTxn, Ended
  <2>6. CASE ReleaseNext(l)
    BY <2>6 DEF ReleaseNext, ReleaseRead, ReleaseWrite, release
  <2>7. CASE \E n \in Lsn : GrantNext(l, n) \/ EndRelease(l, n)
    BY <1>2, <2>7 DEF GrantNext, EndRelease
  <2> QED BY <1>5, <2>1, <2>2, <2>3, <2>4, <2>5, <2>6, <2>7 DEF Step
<1>6. ASSUME Invoke(l) PROVE Kept
  <2>1. PICK n \in Lsn : \/ \E t \in RequestTypes :
                              \/ \E nonBlocking \in BOOLEAN : Request(l, n, t, nonBlocking)
                              \/ ImportunateRequest(l, n, t)
                         \/ Probe(l, n) \/ release_lock(l, n)
                         \/ release_range_insert_for_write(l, n) \/ Demote(l, n)
    BY <1>6 DEF Invoke
  <2>2. ASSUME NEW t \in RequestTypes, NEW nb \in BOOLEAN, Request(l, n, t, nb) PROVE Kept
    <3>1. lock_with_timeout_and_txn(l, n, t, nb, NoCall)
      BY <2>2 DEF Request
    <3> HIDE DEF Kept
    <3> QED BY <1>3, <3>1
  <2>3. ASSUME NEW t \in RequestTypes, ImportunateRequest(l, n, t) PROVE Kept
    <3> DEFINE yes == TRUE
    <3>1. lock_with_timeout_and_txn(l, n, t, yes,
                                    [NoCall EXCEPT !.pc = "steal", !.lsn = n, !.type = t])
      BY <2>3 DEF ImportunateRequest
    <3>2. yes \in BOOLEAN
      OBVIOUS
    <3> HIDE DEF Kept, yes
    <3> QED BY <1>3, <3>1, <3>2
  <2>4. CASE Probe(l, n) \/ release_lock(l, n)
    BY <2>4 DEF Probe, release_lock
  <2>5. CASE release_range_insert_for_write(l, n)
    <3>1. PICK o \in Own(n, l) : o.type = "RangeInsert"
      BY <2>5 DEF release_range_insert_for_write, is_owner, Own
    <3>2. "RangeInsert" \in Reach
      BY <3>1 DEF WaitInv, LockerInv, TypesOf
    <3>3. "RangeInsert" \in RequestTypes /\ "Write" \in RequestTypes
      BY <2>5, <3>2 DEF Reach, release_range_insert_for_write
    <3> QED BY <3>3
  <2>6. CASE Demote(l, n)
    BY <1>0, <2>6 DEF Demote, Recorded
  <2> QED BY <2>1, <2>2, <2>3, <2>4, <2>5, <2>6
<1> QED BY <1>5, <1>6

\* A request that was served with the type it asked for comes home: step by step
\* it stays served, and at the end its LSN is recorded.
LEMMA ServedComesHome ==
  ASSUME Inv, WaitInv, NEW l \in Locker, Step(l) \/ Invoke(l), NEW n \in Lsn,
         Served(l), granted[l], call[l].lsn = n, is_owner(lock_tables[n], l, call[l].type)
  PROVE  (Served(l)' /\ call'[l].lsn = n) \/ n \in Recorded(l)'
<1>0. call \in [Locker -> Call] /\ call[l] \in CallRecord
  BY DEF Inv, TypeOK, Call
<1>1. /\ call[l].pc \in WaitPcs /\ call[l].wait # "WaitRestart"
      /\ call[l].pc = "clear" => call[l].outcome = "Granted"
  BY DEF Served, Waiting
<1>2. call[l].pc \notin {"idle", "probed", "steal", "fallback", "releasing"}
  BY <1>1 DEF WaitPcs
<1>3. CASE Invoke(l)
  BY <1>2, <1>3 DEF Invoke, Request, ImportunateRequest, Probe, release_lock,
                    release_range_insert_for_write, Demote
<1>4. CASE Step(l)
  <2>1. CASE \/ BudgetSpent(l) \/ record_wait(l) \/ check_deadlock_for_waiter(l)
             \/ compute_lock_counts(l) \/ Verdict(l)
    <3>1. UNCHANGED granted
      BY <2>1 DEF BudgetSpent, record_wait, check_deadlock_for_waiter, compute_lock_counts, Verdict
    <3>2. /\ call'[l].pc \in {"validate", "check", "sleep", "counting"}
          /\ call'[l].lsn = call[l].lsn /\ call'[l].wait = call[l].wait
      <4>1. CASE BudgetSpent(l) \/ record_wait(l)
        BY <1>0, <4>1 DEF BudgetSpent, record_wait, Goto, CallRecord
      <4>2. CASE check_deadlock_for_waiter(l)
        BY <1>0, <4>2 DEF check_deadlock_for_waiter, Goto, CallRecord
      <4>3. CASE compute_lock_counts(l)
        BY <1>0, <4>3 DEF compute_lock_counts, CallRecord
      <4>4. CASE Verdict(l)
        BY <1>0, <4>4 DEF Verdict, CallRecord
      <4> QED BY <2>1, <4>1, <4>2, <4>3, <4>4
    <3> QED BY <1>1, <3>1, <3>2 DEF Served, Waiting, WaitPcs
  <2>2. CASE Wake(l)
    <3>1. /\ call'[l].pc = "clear" /\ call'[l].outcome = "Granted"
          /\ call'[l].lsn = call[l].lsn /\ call'[l].wait = call[l].wait
      BY <1>0, <2>2 DEF Wake, CallRecord
    <3> QED BY <1>1, <3>1 DEF Served, Waiting, WaitPcs
  <2>3. CASE SliceExpires(l) \/ \E e \in {"LockTimeout", "TransactionTimeout"} : TimesOut(l, e)
    BY <2>3 DEF SliceExpires, TimesOut
  <2>4. CASE validate_ownership_or_flush(l)
    <3>1. /\ call'[l].pc = "clear" /\ call'[l].outcome = "Granted"
          /\ call'[l].lsn = call[l].lsn /\ call'[l].wait = call[l].wait
      BY <1>0, <2>4 DEF validate_ownership_or_flush, CallRecord
    <3> QED BY <1>1, <3>1 DEF Served, Waiting, WaitPcs
  <2>5. CASE clear_wait(l)
    <3>1. ReturnGranted(l, n, call[l].type)
      BY <1>1, <2>5 DEF clear_wait
    <3>2. Recorded(l)' = Recorded(l) \cup {n}
      BY <3>1, ReturnGrantedFacts
    <3> QED BY <3>2
  <2>6. CASE \E k \in Lsn : GrantNext(l, k) \/ EndRelease(l, k)
    <3>1. \A k \in Lsn : shard[k] # l
      BY <1>2 DEF WaitInv, LockerInv, ThreadOf
    <3> QED BY <2>6, <3>1 DEF GrantNext, EndRelease
  <2>7. CASE ProbedRead(l) \/ Steal(l) \/ Fallback(l) \/ EndTxn(l) \/ ReleaseNext(l) \/ Ended(l)
    BY <1>2, <2>7 DEF ProbedRead, Steal, Fallback, EndTxn, ReleaseNext, Ended
  <2> QED BY <1>4, <2>1, <2>2, <2>3, <2>4, <2>5, <2>6, <2>7 DEF Step
<1> QED BY <1>3, <1>4

\* Nobody marks a replay locker: steal_lock_in_wait takes only from the others.
NeverMarked == preempted \cap Importunate = {}

LEMMA StepMarks == Inv /\ NeverMarked /\ [Next]_vars => NeverMarked'
<1> SUFFICES ASSUME Inv, NeverMarked, [Next]_vars PROVE NeverMarked'
  OBVIOUS
<1>1. preempted' \subseteq preempted \cup (Locker \ Importunate) => NeverMarked'
  BY DEF NeverMarked
<1> DEFINE Few == preempted' \subseteq preempted \cup (Locker \ Importunate)
<1>2. ASSUME NEW l \in Locker, Step(l) PROVE Few
  <2>1. CASE Steal(l)
    <3>1. \A lk : StolenFrom(lk, l, Locker \ Importunate) \subseteq Locker \ Importunate
      BY DEF StolenFrom
    <3> QED BY <2>1, <3>1 DEF Steal
  <2>2. CASE ~ Steal(l)
    BY <1>2, <2>2
       DEF Step, ProbedRead, Fallback, lock_with_timeout_and_txn, Attempt, BudgetSpent,
           record_wait, check_deadlock_for_waiter, compute_lock_counts, Verdict, Wake,
           SliceExpires, TimesOut, validate_ownership_or_flush, clear_wait, EndTxn, ReleaseNext,
           ReleaseRead, ReleaseWrite, release, Ended, GrantNext, EndRelease
  <2> QED BY <2>1, <2>2
<1>3. ASSUME NEW l \in Locker, Invoke(l) PROVE Few
  <2>1. ASSUME NEW n, NEW t, NEW nb, NEW d, lock_with_timeout_and_txn(l, n, t, nb, d)
        PROVE  UNCHANGED preempted
    BY <2>1 DEF lock_with_timeout_and_txn, Attempt
  <2>2. ASSUME NEW n, NEW t, NEW nb, Request(l, n, t, nb) \/ ImportunateRequest(l, n, t)
        PROVE  UNCHANGED preempted
    BY <2>1, <2>2 DEF Request, ImportunateRequest
  <2>3. ASSUME NEW n, \/ Probe(l, n) \/ release_lock(l, n)
                      \/ release_range_insert_for_write(l, n) \/ Demote(l, n)
        PROVE  UNCHANGED preempted
    BY <2>3 DEF Probe, release_lock, release_range_insert_for_write, ReleaseRead, release, Demote
  <2>4. UNCHANGED preempted
    BY <1>3, <2>2, <2>3 DEF Invoke
  <2> QED BY <2>4
<1>4. CASE UNCHANGED vars
  BY <1>4 DEF vars, NeverMarked
<1> QED BY <1>1, <1>2, <1>3, <1>4 DEF Next, Finished

\* A replay locker that gives up no single lock stays an owner until its
\* transaction ends, whoever steals, times out or releases (steal_lock_in_wait,
\* register_non_preemptable): its records never shrink, a request that was served
\* is recorded, and the invariant ties both to ownership.
THEOREM ReplayKeepsItsLocks ==
  ASSUME Importunate \cap ReadCommitted = {},
         "Write" \notin RequestTypes \/ "RangeInsert" \notin RequestTypes
  PROVE  Spec => ImportunateKeepsLocks
<1> DEFINE Keeps == \A l \in Importunate : \A n \in Lsn :
                      l \in OwnerIds(lock_tables[n]) /\ txn'[l] \in {"Open", "MustAbort"} =>
                        l \in OwnerIds(lock_tables'[n])
<1>1. Init => NeverMarked
  BY DEF Init, NeverMarked
<1>2. Spec => []NeverMarked
  <2>1. Spec => []Inv
    BY WaitInvariance, PTL
  <2> QED BY <1>1, <2>1, StepMarks, PTL DEF Spec
<1>3. Inv /\ WaitInv /\ (Inv /\ WaitInv)' /\ NeverMarked' /\ [Next]_vars => [Keeps]_vars
  <2> SUFFICES ASSUME Inv, WaitInv, WaitInv', NeverMarked', Next,
                      NEW l \in Importunate, NEW n \in Lsn,
                      l \in OwnerIds(lock_tables[n]), txn'[l] \in {"Open", "MustAbort"}
               PROVE  l \in OwnerIds(lock_tables'[n])
    OBVIOUS
  <2>0. l \in Locker /\ l \notin ReadCommitted /\ LockerInv(l) /\ LockerInv(l)'
    BY ClassAssumption DEF WaitInv
  <2>1. Own(n, l) # {}
    BY DEF Own, Owned, OwnerIds
  <2>2. \/ n \in Recorded(l)
        \/ /\ Served(l) /\ granted[l] /\ call[l].lsn = n
           /\ is_owner(lock_tables[n], l, call[l].type)
    BY <2>0, <2>1 DEF LockerInv, OwnOf, is_owner, Own
  <2>3. n \in Recorded(l)' \/ (Served(l)' /\ call'[l].lsn = n)
    <3>1. CASE Finished
      BY <2>2, <3>1 DEF Finished, vars, Recorded, Served, Waiting
    <3>2. ASSUME NEW m \in Locker \ {l}, Step(m) \/ Invoke(m)
          PROVE  n \in Recorded(l)' \/ (Served(l)' /\ call'[l].lsn = n)
      <4>1. /\ call'[l] = call[l] /\ (granted[l] => granted'[l])
            /\ read_locks'[l] = read_locks[l] /\ write_locks'[l] = write_locks[l]
        BY <2>0, <3>2, OthersStandStill
      <4> QED BY <2>2, <4>1 DEF Recorded, Served, Waiting
    <3>3. CASE Step(l) \/ Invoke(l)
      BY <2>0, <2>2, <3>3, RecordsKept, ServedComesHome
    <3> QED BY <3>1, <3>2, <3>3 DEF Next
  <2>4. l \notin preempted'
    BY DEF NeverMarked
  <2>5. Own(n, l)' # {}
    BY <2>0, <2>3, <2>4 DEF LockerInv, KeepOf, ServedOf
  <2> QED BY <2>5 DEF Own, Owned, OwnerIds
<1> QED BY <1>2, <1>3, WaitInvariance, PTL DEF Spec, ImportunateKeepsLocks
=============================================================================
