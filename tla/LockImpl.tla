------------------------------ MODULE LockImpl ------------------------------
(***************************************************************************)
(* The lock on one LSN: noxu-txn's LockType, LockUpgrade and LockImpl.     *)
(*                                                                         *)
(* Pure operators, no variables: a lock is a record, a method of LockImpl  *)
(* is an operator from locks to locks.  An Option<LockInfo> is a set with  *)
(* at most one element.  owner_set is a Vec in the code but only ever      *)
(* searched by locker, so it is a set here; waiter_list is a Vec whose     *)
(* order decides who is granted next, so it is a sequence.  ThinLockImpl   *)
(* (one owner, no waiters) is the same lock before its first conflict and  *)
(* has no state of its own.                                                *)
(***************************************************************************)
EXTENDS Integers, Sequences

CONSTANTS
  Locker,       \* locker ids; integers, since the deadlock victim is the largest
  ShareGroup    \* [Locker -> Nat]; 0: registered in no lock-sharing group

ASSUME LockerAssumption == Locker \subseteq Nat \ {0}
ASSUME ShareGroupAssumption == ShareGroup \in [Locker -> Nat]

NoLocker == 0

-----------------------------------------------------------------------------
(* LockType, LockConflict, LockUpgrade *)

LockTypes == {"Read", "Write", "RangeRead", "RangeWrite", "RangeInsert"}

is_write_lock(t) == t \in {"Write", "RangeWrite"}

causes_restart(t) == t \in {"RangeRead", "RangeWrite"}

\* Faulty variant: a read lock does not block a range write.
get_conflict_NoRangeWrite(held, requested) ==
  CASE held = "Read"        -> IF requested = "Write" THEN "Block" ELSE "Allow"
    [] held = "Write"       -> IF requested = "RangeInsert" THEN "Allow" ELSE "Block"
    [] held = "RangeRead"   -> IF requested \in {"Read", "RangeRead"} THEN "Allow" ELSE "Block"
    [] held = "RangeWrite"  -> "Block"
    [] held = "RangeInsert" -> IF causes_restart(requested) THEN "Restart" ELSE "Allow"
    [] OTHER                -> "Allow"

get_conflict(held, requested) ==
  CASE held = "Read"        -> IF is_write_lock(requested) THEN "Block" ELSE "Allow"
    [] held = "Write"       -> IF requested = "RangeInsert" THEN "Allow" ELSE "Block"
    [] held = "RangeRead"   -> IF requested \in {"Read", "RangeRead"} THEN "Allow" ELSE "Block"
    [] held = "RangeWrite"  -> "Block"
    [] held = "RangeInsert" -> IF causes_restart(requested) THEN "Restart" ELSE "Allow"
    [] OTHER                -> "Allow"

\* The type a holder of `held` owns after it is granted `requested`; "Illegal"
\* where LockUpgrade::Illegal, `held` itself where LockUpgrade::Existing.
get_upgrade(held, requested) ==
  IF (held = "RangeInsert") # (requested = "RangeInsert") THEN "Illegal"
  ELSE CASE held = "RangeInsert" \/ held = "RangeWrite" -> held
         [] held = "Write"     -> IF causes_restart(requested) THEN "RangeWrite" ELSE "Write"
         [] held = "RangeRead" -> IF is_write_lock(requested) THEN "RangeWrite" ELSE "RangeRead"
         [] OTHER              -> requested

\* LockUpgrade::is_promotion
is_promotion(held, requested) ==
  held \in {"Read", "RangeRead"} /\ is_write_lock(requested)

shares_fn(l, m) == ShareGroup[l] # 0 /\ ShareGroup[l] = ShareGroup[m]

Sharers(l) == {m \in Locker : shares_fn(l, m)}

-----------------------------------------------------------------------------
(* LockInfo and LockImpl *)

Info == [locker : Locker, type : LockTypes]
WaiterInfo == [locker : Locker, type : LockTypes \cup {"Restart"}]

Opt(S) == {{}} \cup {{x} : x \in S}

Lock == [first_owner  : Opt(Info),
         owner_set    : SUBSET Info,
         first_waiter : Opt(WaiterInfo),
         waiter_list  : Seq(WaiterInfo),
         list_made    : BOOLEAN]   \* waiter_list is Some, empty or not

new == [first_owner |-> {}, owner_set |-> {}, first_waiter |-> {},
        waiter_list |-> <<>>, list_made |-> FALSE]

Owners(lk) == lk.first_owner \cup lk.owner_set

Owned(lk, l) == {o \in Owners(lk) : o.locker = l}

OwnerIds(lk) == {o.locker : o \in Owners(lk)}

is_owner(lk, l, t) == \E o \in Owned(lk, l) : o.type = t

Waiters(lk) == lk.first_waiter \cup {lk.waiter_list[i] : i \in 1 .. Len(lk.waiter_list)}

WaiterIds(lk) == {w.locker : w \in Waiters(lk)}

NoWaiters(lk) == lk.first_waiter = {} /\ lk.waiter_list = <<>>

\* The waiter the release loop looks at next: first_waiter, and when that slot
\* is empty the first entry of waiter_list.
NextWaiter(lk) ==
  IF lk.first_waiter # {} THEN lk.first_waiter
  ELSE IF lk.waiter_list # <<>> THEN {Head(lk.waiter_list)} ELSE {}



add_owner(lk, info) ==
  IF lk.first_owner = {} THEN [lk EXCEPT !.first_owner = {info}]
  ELSE [lk EXCEPT !.owner_set = @ \cup {info}]

flush_owner(lk, l) ==
  IF \E o \in lk.first_owner : o.locker = l
  THEN [lk EXCEPT !.first_owner = {}]
  ELSE [lk EXCEPT !.owner_set = {o \in @ : o.locker # l}]

Retype(S, l, t) == {IF o.locker = l THEN [o EXCEPT !.type = t] ELSE o : o \in S}

update_owner_type(lk, l, t) ==
  [lk EXCEPT !.first_owner = Retype(@, l, t), !.owner_set = Retype(@, l, t)]

\* Faulty variant: a write lock is demoted to LockType::None, and not to Read.
demote_ToNone(lk, l) ==
  IF is_owner(lk, l, "RangeWrite") THEN update_owner_type(lk, l, "RangeRead")
  ELSE IF is_owner(lk, l, "Write") THEN update_owner_type(lk, l, "None")
  ELSE lk

demote(lk, l) ==
  IF is_owner(lk, l, "RangeWrite") THEN update_owner_type(lk, l, "RangeRead")
  ELSE IF is_owner(lk, l, "Write") THEN update_owner_type(lk, l, "Read")
  ELSE lk

\* steal_lock_preemptable: every preemptable owner other than l is removed.
StolenFrom(lk, l, preemptable) == (OwnerIds(lk) \cap preemptable) \ {l}

steal_lock_preemptable(lk, l, preemptable) ==
  LET keep(S) == {o \in S : o.locker \notin StolenFrom(lk, l, preemptable)}
  IN [lk EXCEPT !.first_owner = keep(@), !.owner_set = keep(@)]

add_waiter_to_end_of_list(lk, info) ==
  IF lk.list_made THEN [lk EXCEPT !.waiter_list = Append(@, info)]
  ELSE IF lk.first_waiter = {} THEN [lk EXCEPT !.first_waiter = {info}]
  ELSE [lk EXCEPT !.waiter_list = <<info>>, !.list_made = TRUE]

add_waiter_to_head_of_list(lk, info) ==
  [lk EXCEPT !.waiter_list = IF lk.first_waiter = {} THEN @
                             ELSE <<CHOOSE w \in lk.first_waiter : TRUE>> \o @,
             !.list_made = @ \/ lk.first_waiter # {},
             !.first_waiter = {info}]

\* Faulty variant: only the first-waiter slot is looked at.
flush_waiter_SlotOnly(lk, l) ==
  [lk EXCEPT !.first_waiter = {w \in @ : w.locker # l}]

\* The code's retain drops every entry of the locker; a locker waits in one
\* place at a time (WaitsOnce), so at most one entry goes.
flush_waiter(lk, l) ==
  IF \E w \in lk.first_waiter : w.locker = l THEN [lk EXCEPT !.first_waiter = {}]
  ELSE IF \E i \in 1 .. Len(lk.waiter_list) : lk.waiter_list[i].locker = l
  THEN LET i == CHOOSE i \in 1 .. Len(lk.waiter_list) : lk.waiter_list[i].locker = l
       IN [lk EXCEPT !.waiter_list =
             SubSeq(@, 1, i - 1) \o SubSeq(@, i + 1, Len(@))]
  ELSE lk

PopWaiter(lk) ==
  IF lk.first_waiter # {} THEN [lk EXCEPT !.first_waiter = {}]
  ELSE [lk EXCEPT !.waiter_list = Tail(@)]

-----------------------------------------------------------------------------
(* LockImpl::try_lock_with_sharing: the grant decision and its effect.       *)

Waits == {"WaitNew", "WaitPromotion", "WaitRestart"}
Granted == {"New", "Existing", "Promotion"}

\* Faulty variant: the loop over the owners ends at an empty first_owner slot.
Foreign_StopsAtEmptySlot(lk, l, sharers) ==
  IF lk.first_owner = {} THEN {}
  ELSE {o \in Owners(lk) : o.locker \notin {l} \cup sharers}

\* The owners whose type matters to l's request: not l, not one it shares with.
Foreign(lk, l, sharers) ==
  {o \in Owners(lk) : o.locker \notin {l} \cup sharers}

\* The loop over the owners stops at the first one that answers: the
\* requester's own entry when the type needs no change or the upgrade is
\* illegal, a foreign one when the conflict is Restart.  ownFirst says which is
\* met first when there are both.
GrantOf(lk, l, t, inLine, sharers, ownFirst) ==
  LET foreign   == Foreign(lk, l, sharers)
      restarts  == \E o \in foreign : get_conflict(o.type, t) = "Restart"
      blocked   == \E o \in foreign : get_conflict(o.type, t) = "Block"
      owned     == Owned(lk, l) # {}
      held      == (CHOOSE o \in Owned(lk, l) : TRUE).type
      upgrade   == get_upgrade(held, t)
      ownStops  == owned /\ upgrade \in {"Illegal", held}
  IN IF Owners(lk) = {} THEN "New"
     ELSE IF ownStops /\ (ownFirst \/ ~ restarts)
     THEN IF upgrade = "Illegal" THEN "IllegalUpgrade" ELSE "Existing"
     ELSE IF restarts THEN "WaitRestart"
     ELSE IF owned
     THEN IF blocked THEN "WaitPromotion"
          ELSE IF is_promotion(held, t) THEN "Promotion" ELSE "Existing"
     ELSE IF ~ blocked /\ (foreign = {} \/ inLine) THEN "New" ELSE "WaitNew"

\* What the lock becomes for a granted request (unchanged for the others).
Grant(lk, l, t, grant) ==
  CASE grant = "New" -> add_owner(lk, [locker |-> l, type |-> t])
    [] grant \in {"Existing", "Promotion"} ->
         update_owner_type(lk, l, get_upgrade((CHOOSE o \in Owned(lk, l) : TRUE).type, t))
    [] OTHER -> lk

\* Any two owners hold types the conflict matrix allows together or share locks,
\* and no locker is an owner twice.
Compatible(lk) ==
  \A o1, o2 \in Owners(lk) :
    o1 # o2 => /\ o1.locker # o2.locker
               /\ \/ shares_fn(o1.locker, o2.locker)
                  \/ get_conflict(o1.type, o2.type) = "Allow"

-----------------------------------------------------------------------------
(* LockImpl::lock_with_sharing *)

\* The scan for a waiter that turns the wait of a range request into a restart.
\* Like the code's loop it starts at first_waiter and stops at the first empty
\* slot: when first_waiter is empty, waiter_list is not looked at.
RestartBehindWaiter(lk, l, t) ==
  /\ causes_restart(t)
  /\ lk.first_waiter # {}
  /\ \E w \in Waiters(lk) :
       /\ w.type # "Restart"
       /\ w.locker # l
       /\ ~ shares_fn(l, w.locker)
       /\ get_conflict(w.type, t) = "Restart"

\* The grant a request is answered with, before non_blocking is considered.
Answer(lk, l, t, ownFirst) ==
  LET g == GrantOf(lk, l, t, NoWaiters(lk), Sharers(l), ownFirst)
  IN IF g \in Waits /\ RestartBehindWaiter(lk, l, t) THEN "WaitRestart" ELSE g

Enqueue(lk, l, t, grant) ==
  CASE grant = "WaitPromotion" ->
         add_waiter_to_head_of_list(lk, [locker |-> l, type |-> t])
    [] grant = "WaitRestart" ->
         add_waiter_to_end_of_list(lk, [locker |-> l, type |-> "Restart"])
    [] OTHER ->
         add_waiter_to_end_of_list(lk, [locker |-> l, type |-> t])

\* The lock after lock_with_sharing answered `grant` to a request.
AfterAnswer(lk, l, t, grant, nonBlocking) ==
  IF grant \in Waits
  THEN IF nonBlocking THEN lk ELSE Enqueue(lk, l, t, grant)
  ELSE Grant(lk, l, t, grant)

-----------------------------------------------------------------------------
(* One iteration of LockImpl::release_with_sharing's loop over the waiters.  *)

\* Stops at the first empty slot: when first_owner is empty, the loop of the
\* code never looks at owner_set.  The sharing predicate is the releaser's.
range_insert_conflict(lk, waiter, releaser) ==
  /\ lk.first_owner # {}
  /\ \E o \in Owners(lk) :
       /\ o.locker # waiter
       /\ ~ shares_fn(releaser, o.locker)
       /\ o.type = "RangeInsert"

\* The grant the waiter w at the head of the line gets from the release loop.
WaiterGrant(lk, w, releaser, ownFirst) ==
  IF w.type = "Restart"
  THEN IF range_insert_conflict(lk, w.locker, releaser) THEN "WaitNew" ELSE "New"
  ELSE GrantOf(lk, w.locker, w.type, TRUE, {}, ownFirst)

\* A RESTART waiter leaves the line without becoming an owner.
GrantWaiter(lk, w, grant) ==
  PopWaiter(IF w.type = "Restart" THEN lk ELSE Grant(lk, w.locker, w.type, grant))
=============================================================================
