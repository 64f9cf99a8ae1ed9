------------------------------ MODULE Elections ------------------------------
(***************************************************************************)
(* Master elections of noxu-rep: the driver of each node                   *)
(* (ReplicatedEnvironment::run_election_loop) runs rounds of a two-phase   *)
(* protocol (paxos.rs, run_election_with_phi_dtvlsn_self) against one      *)
(* acceptor session per peer (run_acceptor_with_state), which decides with *)
(* the crash-durable PersistentAcceptorState (acceptor_state.rs).          *)
(*                                                                         *)
(* Abstractions.  A node name is a positive integer, ordered as the code   *)
(* orders names.  The pair (dtvlsn, vlsn) that leads the ranking is one    *)
(* number, the position in the replicated log.  The wall clock that feeds  *)
(* the term generator is any value: clocks stand still, jump and go back.  *)
(* The group view is the same on every node.  The freeze latch of the      *)
(* replay thread, a best-effort delay by its own documentation, and the    *)
(* master transfer of the administrator are left out.                      *)
(***************************************************************************)
EXTENDS Integers, FiniteSets

CONSTANTS
    Node,        \* the members of the group
    Arbiter,     \* members that vote but cannot be master
    Secondary,   \* secondaries and monitors: not electable, not counted in the quorum
    Priority,    \* NODE_PRIORITY of each node
    InitVlsn,    \* log position of each node when the group starts
    MaxRound,    \* bound: rounds started, over all nodes
    MaxTerm,     \* bound: largest term a generator draws
    MaxVlsn,     \* bound: log position up to which masters commit
    MaxFault     \* bound: crashes and failed writes of acceptor.state

ASSUME ElectionsAssumption ==
    /\ Node \subseteq Nat \ {0} /\ IsFiniteSet(Node)
    /\ Arbiter \subseteq Node /\ Secondary \subseteq Node \ Arbiter
    /\ Priority \in [Node -> Nat]
    /\ InitVlsn \in [Node -> Nat]
    /\ MaxRound \in Nat /\ MaxTerm \in Nat /\ MaxVlsn \in Nat /\ MaxFault \in Nat

None == 0
Round == 1 .. MaxRound

(***************************************************************************)
(* Acceptor state: the promised proposal number (term, proposer) and the   *)
(* accepted term and master.  Only a fresh acceptor has no proposer, and   *)
(* nothing is accepted above the promise.                                  *)
(***************************************************************************)
AcceptorRecord == [term : Nat, proposer : Node \cup {None},
                   accTerm : Nat, accMaster : Node \cup {None}]
AcceptorState == {s \in AcceptorRecord : /\ s.term = 0 <=> s.proposer = None
                                         /\ s.accTerm = 0 <=> s.accMaster = None
                                         /\ s.accTerm <= s.term}
FreshAcceptor == [term |-> 0, proposer |-> None, accTerm |-> 0, accMaster |-> None]

\* A candidate as a Promise advertises it (Proposal).
Suggestion == [node : Node, vlsn : Nat, priority : Nat, arbiter : BOOLEAN]

SessionState == {"none", "connected", "asked", "promised", "rejected",
                 "told", "granted", "refused", "gone"}

VARIABLES
    up,        \* nodes that run
    mem,       \* acceptor state in memory
    disk,      \* acceptor.state
    role,      \* NodeStateMachine: Unknown, Master or Replica
    tracker,   \* MasterTracker: master name and term
    prev,      \* TimebasedProposalGenerator.prev
    vlsn,      \* log position
    adv,       \* ElectionAcceptorState.own_vlsn: the position a session advertises
    proposer, term, phase,   \* rounds: who, at which term, how far
    selfVote,  \* rounds: own acceptor promised (self_phase1_vote)
    pending,   \* rounds: peers this phase has still to call
    asking,    \* rounds: the peer whose answer the driver waits for
    promises, records,       \* rounds: peers that promised, what they suggested
    value, accepts,          \* rounds: phase-2 value, nodes that accepted it
    winner,    \* rounds: the elected node, once the round is won
    sess, snap,              \* acceptor session of each round at each peer
    faults,    \* number of crashes and failed writes so far
    lost       \* history: acceptors that started afresh over an unreadable file

nodeVars == <<up, role, tracker, prev, vlsn, adv>>
accVars == <<mem, disk, faults>>
roundVars == <<proposer, term, phase, selfVote, promises, records, value, accepts, winner>>
callVars == <<pending, asking>>
vars == <<nodeVars, accVars, roundVars, callVars, sess, snap, lost>>

Init ==
    /\ up = Node
    /\ mem = [n \in Node |-> FreshAcceptor]
    /\ disk = [n \in Node |-> FreshAcceptor]
    /\ role = [n \in Node |-> "Unknown"]
    /\ tracker = [n \in Node |-> [name |-> None, term |-> 0]]
    /\ prev = [n \in Node |-> 0]
    /\ vlsn = InitVlsn
    /\ adv = [n \in Node |-> 0]
    /\ proposer = [r \in Round |-> None]
    /\ term = [r \in Round |-> 0]
    /\ phase = [r \in Round |-> "new"]
    /\ selfVote = [r \in Round |-> FALSE]
    /\ pending = [r \in Round |-> {}]
    /\ asking = [r \in Round |-> None]
    /\ promises = [r \in Round |-> {}]
    /\ records = [r \in Round |-> {}]
    /\ value = [r \in Round |-> None]
    /\ accepts = [r \in Round |-> {}]
    /\ winner = [r \in Round |-> None]
    /\ sess = [r \in Round |-> [n \in Node |-> "none"]]
    /\ snap = [r \in Round |-> [n \in Node |-> 0]]
    /\ faults = 0
    /\ lost = {}

-----------------------------------------------------------------------------
(* PersistentAcceptorState *)

\* The promise s is strictly greater than the proposal number (t, p).
Outnumbers(s, t, p) == s.term > t \/ (s.term = t /\ s.proposer > p)

\* Faulty variant: the promise or vote is only in memory when the caller answers.
Flushed_MemoryOnly(a, s) == mem' = [mem EXCEPT ![a] = s] /\ UNCHANGED <<disk, faults>>

\* flush_locked: the new state is on disk before the caller answers.  A failure
\* rolls memory back; it may strike after the rename, and then the file is new.
Flushed(a, s) == /\ mem' = [mem EXCEPT ![a] = s]
                 /\ disk' = [disk EXCEPT ![a] = s]
                 /\ UNCHANGED faults
FlushFailed(a, s) == /\ faults < MaxFault
                     /\ faults' = faults + 1
                     /\ disk' \in {disk, [disk EXCEPT ![a] = s]}
                     /\ UNCHANGED mem

\* Faulty variant: the promise records the term and not the proposer.
try_promise_proposal_TermOnly(a, t, p, ok) ==
    LET s == [mem[a] EXCEPT !.term = t] IN
    \/ ~ok /\ Outnumbers(mem[a], t, p) /\ UNCHANGED accVars
    \/ ok /\ ~Outnumbers(mem[a], t, p) /\ Flushed(a, s)
    \/ ~ok /\ ~Outnumbers(mem[a], t, p) /\ FlushFailed(a, s)

try_promise_proposal(a, t, p, ok) ==
    LET s == [mem[a] EXCEPT !.term = t, !.proposer = p] IN
    \/ ~ok /\ Outnumbers(mem[a], t, p) /\ UNCHANGED accVars
    \/ ok /\ ~Outnumbers(mem[a], t, p) /\ Flushed(a, s)
    \/ ~ok /\ ~Outnumbers(mem[a], t, p) /\ FlushFailed(a, s)

\* Faulty variant: the vote looks at the promised term and not at the proposer.
Acceptable_TermOnly(s, t, p, m) == s.term = t /\ ~(s.accTerm = t /\ s.accMaster # m)

\* Faulty variant: a second Accept at the promised number may name another master.
Acceptable_AnyMaster(s, t, p, m) == s.term = t /\ s.proposer = p

\* The Accept must carry exactly the promised number, and must not change the
\* master already accepted at this term.
Acceptable(s, t, p, m) == /\ s.term = t /\ s.proposer = p
                          /\ ~(s.accTerm = t /\ s.accMaster # m)

try_accept_proposal(a, t, p, m, ok) ==
    LET s == [mem[a] EXCEPT !.accTerm = t, !.accMaster = m] IN
    \/ ~ok /\ ~Acceptable(mem[a], t, p, m) /\ UNCHANGED accVars
    \/ ok /\ Acceptable(mem[a], t, p, m) /\ Flushed(a, s)
    \/ ~ok /\ Acceptable(mem[a], t, p, m) /\ FlushFailed(a, s)

-----------------------------------------------------------------------------
(* Ranking and quorums *)

\* QuorumPolicy::SimpleMajority over RepGroup::electable_count, for both phases:
\* the group the driver builds never carries another policy.
Electable == Node \ Secondary
Majority == Cardinality(Electable) \div 2 + 1

\* Proposal::is_better_than.
Better(x, y) ==
    \/ x.vlsn > y.vlsn
    \/ x.vlsn = y.vlsn /\ x.priority > y.priority
    \/ x.vlsn = y.vlsn /\ x.priority = y.priority /\ x.node > y.node

\* choose_phase2_value: the best suggestion of a node that may be master, unless
\* it is the only one and an arbiter remembers more; None when there is none.
choose_phase2_value(recs) ==
    LET cand == {x \in recs : x.priority # 0 /\ ~x.arbiter}
        arbs == {x \in recs : x.priority # 0 /\ x.arbiter}
        veto(x) == Cardinality(cand) <= 1 /\ \E y \in arbs : Better(y, x)
        best == {x \in cand : (\A y \in cand : ~Better(y, x)) /\ ~veto(x)}
    IN  IF best = {} THEN None ELSE (CHOOSE x \in best : TRUE).node

-----------------------------------------------------------------------------
(* Roles *)

Active(n) == {r \in Round : proposer[r] = n /\ phase[r] \in {"phase1", "phase2"}}

\* Rounds are numbered in the order they start.
NextRound(r) == phase[r] = "new" /\ \A q \in 1 .. r - 1 : phase[q] # "new"

MaxOf(x, y) == IF x >= y THEN x ELSE y

\* become_master and become_replica: the role, and the tracker; a replica records
\* its master under term 0.  The driver then observes the tracker's term.
become_master(n, t) ==
    /\ role' = [role EXCEPT ![n] = "Master"]
    /\ tracker' = [tracker EXCEPT ![n] = [name |-> n, term |-> t]]
    /\ prev' = [prev EXCEPT ![n] = MaxOf(@, t)]
become_replica(n, m) ==
    /\ role' = [role EXCEPT ![n] = "Replica"]
    /\ tracker' = [tracker EXCEPT ![n] = [name |-> m, term |-> 0]]
    /\ UNCHANGED prev

\* The driver of an undecided node that knows a master follows it.
FollowTracked(n) ==
    /\ n \in up /\ role[n] = "Unknown"
    /\ tracker[n].name \notin {None, n} /\ Active(n) = {}
    /\ become_replica(n, tracker[n].name)
    /\ UNCHANGED <<up, vlsn, adv, accVars, roundVars, callVars, sess, snap, lost>>

\* The administrator's step-down (ensure_unknown_state): the tracker stays.
StepDown(n) ==
    /\ n \in up /\ role[n] # "Unknown"
    /\ role' = [role EXCEPT ![n] = "Unknown"]
    /\ UNCHANGED <<up, tracker, prev, vlsn, adv, accVars, roundVars, callVars, sess, snap, lost>>

\* The master logs an entry; a replica replays the next one of its master.
Commit(n) ==
    /\ n \in up /\ role[n] = "Master" /\ vlsn[n] < MaxVlsn
    /\ vlsn' = [vlsn EXCEPT ![n] = @ + 1]
    /\ UNCHANGED <<up, role, tracker, prev, adv, accVars, roundVars, callVars, sess, snap, lost>>
Replay(n) ==
    /\ n \in up /\ role[n] = "Replica" /\ tracker[n].name \in up
    /\ vlsn[n] < vlsn[tracker[n].name]
    /\ vlsn' = [vlsn EXCEPT ![n] = @ + 1]
    /\ UNCHANGED <<up, role, tracker, prev, adv, accVars, roundVars, callVars, sess, snap, lost>>

-----------------------------------------------------------------------------
(* The proposer *)

\* The round of an undecided node: draw a term, advertise the own position, connect
\* to the peers, of every node type, ask the own acceptor.  A session takes its snapshot of what it will
\* advertise when it starts.  A peer that runs but cannot be reached is one that
\* never reads what it is sent.
Undecided(n) == /\ n \in up /\ role[n] = "Unknown"
                /\ tracker[n].name \in {None, n} /\ Active(n) = {}

Eligible(n) == n \notin Arbiter \cup Secondary /\ Priority[n] # 0

Own(n) == [node |-> n, vlsn |-> vlsn[n], priority |-> Priority[n], arbiter |-> FALSE]

StartRound(n, r, t, ok) ==
    LET reach == up \ {n} IN
    /\ NextRound(r) /\ prev[n] < t /\ t <= MaxTerm
    /\ Undecided(n) /\ Eligible(n)
    /\ prev' = [prev EXCEPT ![n] = t]
    /\ adv' = [adv EXCEPT ![n] = vlsn[n]]
    /\ try_promise_proposal(n, t, n, ok)
    /\ proposer' = [proposer EXCEPT ![r] = n]
    /\ term' = [term EXCEPT ![r] = t]
    /\ phase' = [phase EXCEPT ![r] = "phase1"]
    /\ selfVote' = [selfVote EXCEPT ![r] = ok]
    /\ records' = [records EXCEPT ![r] = {Own(n)}]
    /\ pending' = [pending EXCEPT ![r] = reach]
    /\ sess' = [sess EXCEPT ![r] = [a \in Node |-> IF a \in reach THEN "connected" ELSE "none"]]
    /\ snap' = [snap EXCEPT ![r] = [a \in Node |-> IF a \in reach THEN adv[a] ELSE 0]]
    /\ UNCHANGED <<up, role, tracker, vlsn, promises, value, accepts, winner, asking, lost>>

\* A node that cannot be master refuses to propose itself; its driver has advertised
\* its position all the same.
RefuseToPropose(n) ==
    /\ ~Eligible(n) /\ Undecided(n)
    /\ adv' = [adv EXCEPT ![n] = vlsn[n]]
    /\ UNCHANGED <<up, role, tracker, prev, vlsn, accVars, roundVars, callVars, sess, snap, lost>>

\* The driver calls the peers of a phase one after the other.
CallPeer(r, a, before, after) ==
    /\ asking[r] = None /\ a \in pending[r]
    /\ pending' = [pending EXCEPT ![r] = @ \ {a}]
    /\ IF sess[r][a] = before
       THEN /\ asking' = [asking EXCEPT ![r] = a]
            /\ sess' = [sess EXCEPT ![r][a] = after]
       ELSE UNCHANGED <<asking, sess>>      \* the session is gone
    /\ UNCHANGED <<nodeVars, accVars, roundVars, snap, lost>>

SendProposal(r, a) == phase[r] = "phase1" /\ CallPeer(r, a, "connected", "asked")
SendResult(r, a) == phase[r] = "phase2" /\ CallPeer(r, a, "promised", "told")

\* The suggestion of the peer a.  A session advertises priority 1 whatever
\* NODE_PRIORITY is: the acceptor is built with that constant.
Suggested(r, a) == [node |-> a, vlsn |-> snap[r][a], priority |-> 1, arbiter |-> a \in Arbiter]

\* A closed channel, or no answer within the timeout: the driver goes on to the next
\* peer.  What it sent may still be read, or never be: a session that timed out is
\* one that takes no further step.
GiveUpOnPeer(r) ==
    /\ asking[r] # None
    /\ asking' = [asking EXCEPT ![r] = None]
    /\ UNCHANGED <<nodeVars, accVars, roundVars, pending, sess, snap, lost>>

EndPhase1(r) ==
    LET v == choose_phase2_value(records[r])
        votes == Cardinality(promises[r]) + (IF selfVote[r] THEN 1 ELSE 0)
    IN
    /\ phase[r] = "phase1" /\ asking[r] = None /\ pending[r] = {}
    /\ IF votes >= Majority /\ v # None
       THEN /\ phase' = [phase EXCEPT ![r] = "phase2"]
            /\ value' = [value EXCEPT ![r] = v]
            /\ pending' = [pending EXCEPT ![r] = promises[r]]
       ELSE /\ phase' = [phase EXCEPT ![r] = "over"]
            /\ UNCHANGED <<value, pending>>
    /\ UNCHANGED <<nodeVars, accVars, proposer, term, selfVote, promises, records, accepts, winner,
                   asking, sess, snap, lost>>

\* The own acceptor votes last, if it promised; then the driver acts on the outcome.
EndPhase2(r, ok) ==
    LET n == proposer[r]
        votes == IF ok THEN accepts[r] \cup {n} ELSE accepts[r]
    IN
    /\ phase[r] = "phase2" /\ asking[r] = None /\ pending[r] = {}
    /\ IF selfVote[r] THEN try_accept_proposal(n, term[r], n, value[r], ok)
                      ELSE ~ok /\ UNCHANGED accVars
    /\ phase' = [phase EXCEPT ![r] = "over"]
    /\ accepts' = [accepts EXCEPT ![r] = votes]
    /\ IF Cardinality(votes) >= Majority
       THEN /\ winner' = [winner EXCEPT ![r] = value[r]]
            /\ IF value[r] = n THEN become_master(n, term[r]) ELSE become_replica(n, value[r])
       ELSE UNCHANGED <<winner, role, tracker, prev>>
    /\ UNCHANGED <<up, vlsn, adv, proposer, term, selfVote, promises, records, value, pending,
                   asking, sess, snap, lost>>

-----------------------------------------------------------------------------
(* The acceptor session of round r at node a (run_acceptor_with_state) *)

\* The driver blocks on the answer: unless it has given up on this peer, it reads the
\* answer in the step that sends it.
Awaited(r, a) == asking[r] = a
Answered(r, a) == asking' = [asking EXCEPT ![r] = IF Awaited(r, a) THEN None ELSE @]

\* A secondary's promise counts like any other; it suggests nobody.
AcceptorPhase1(r, a, ok) ==
    /\ a \in up /\ sess[r][a] = "asked"
    /\ try_promise_proposal(a, term[r], proposer[r], ok)
    /\ sess' = [sess EXCEPT ![r][a] = IF ok THEN "promised" ELSE "rejected"]
    /\ IF ok /\ Awaited(r, a)
       THEN /\ promises' = [promises EXCEPT ![r] = @ \cup {a}]
            /\ records' = [records EXCEPT ![r] = @ \cup (IF a \in Secondary THEN {} ELSE {Suggested(r, a)})]
       ELSE UNCHANGED <<promises, records>>
    /\ Answered(r, a)
    /\ UNCHANGED <<nodeVars, proposer, term, phase, selfVote, value, accepts, winner, pending,
                   snap, lost>>

AcceptorPhase2(r, a, ok) ==
    /\ a \in up /\ sess[r][a] = "told"
    /\ try_accept_proposal(a, term[r], proposer[r], value[r], ok)
    /\ sess' = [sess EXCEPT ![r][a] = IF ok THEN "granted" ELSE "refused"]
    /\ accepts' = [accepts EXCEPT ![r] = IF ok /\ Awaited(r, a) THEN @ \cup {a} ELSE @]
    /\ Answered(r, a)
    /\ UNCHANGED <<nodeVars, proposer, term, phase, selfVote, promises, records, value, winner,
                   pending, snap, lost>>

-----------------------------------------------------------------------------
(* Crash and restart *)

Crash(n) ==
    /\ n \in up /\ faults < MaxFault
    /\ faults' = faults + 1
    /\ up' = up \ {n}
    /\ role' = [role EXCEPT ![n] = "Unknown"]
    /\ tracker' = [tracker EXCEPT ![n] = [name |-> None, term |-> 0]]
    /\ prev' = [prev EXCEPT ![n] = 0]
    /\ adv' = [adv EXCEPT ![n] = 0]
    /\ phase' = [r \in Round |-> IF r \in Active(n) THEN "over" ELSE phase[r]]
    /\ pending' = [r \in Round |-> IF r \in Active(n) THEN {} ELSE pending[r]]
    /\ asking' = [r \in Round |-> IF r \in Active(n) THEN None ELSE asking[r]]
    /\ sess' = [r \in Round |-> [sess[r] EXCEPT ![n] =
                  IF @ \in {"connected", "asked", "promised", "told"} THEN "gone" ELSE @]]
    /\ UNCHANGED <<vlsn, mem, disk, proposer, term, selfVote, promises, records, value, accepts,
                   winner, snap, lost>>

\* load_or_default: the file is loaded, or it cannot be read, and then it is removed
\* and the acceptor starts afresh.
Restart(n) ==
    /\ n \notin up
    /\ up' = up \cup {n}
    /\ \/ mem' = [mem EXCEPT ![n] = disk[n]] /\ UNCHANGED <<disk, lost>>
       \/ /\ disk[n] # FreshAcceptor
          /\ mem' = [mem EXCEPT ![n] = FreshAcceptor]
          /\ disk' = [disk EXCEPT ![n] = FreshAcceptor]
          /\ lost' = lost \cup {n}
    /\ UNCHANGED <<role, tracker, prev, vlsn, adv, faults, roundVars, callVars, sess, snap>>

-----------------------------------------------------------------------------
NodeStep == \E n \in Node :
    \/ FollowTracked(n) \/ StepDown(n) \/ Commit(n) \/ Replay(n)
    \/ RefuseToPropose(n) \/ Crash(n) \/ Restart(n)

StartStep == \E n \in Node, r \in Round, t \in 1 .. MaxTerm, ok \in BOOLEAN :
    StartRound(n, r, t, ok)

RoundStep == \E r \in Round :
    \/ GiveUpOnPeer(r) \/ EndPhase1(r)
    \/ \E ok \in BOOLEAN : EndPhase2(r, ok)
    \/ \E a \in Node : SendProposal(r, a) \/ SendResult(r, a)

SessionStep == \E r \in Round, a \in Node :
    \E ok \in BOOLEAN : AcceptorPhase1(r, a, ok) \/ AcceptorPhase2(r, a, ok)

Next == NodeStep \/ StartStep \/ RoundStep \/ SessionStep

Spec == Init /\ [][Next]_vars

-----------------------------------------------------------------------------
(* Properties *)

TypeOK ==
    /\ up \subseteq Node
    /\ mem \in [Node -> AcceptorState] /\ disk \in [Node -> AcceptorState]
    /\ role \in [Node -> {"Unknown", "Master", "Replica"}]
    /\ tracker \in [Node -> [name : Node \cup {None}, term : Nat]]
    /\ prev \in [Node -> Nat] /\ vlsn \in [Node -> Nat] /\ adv \in [Node -> Nat]
    /\ proposer \in [Round -> Node \cup {None}]
    /\ term \in [Round -> Nat]
    /\ phase \in [Round -> {"new", "phase1", "phase2", "over"}]
    /\ selfVote \in [Round -> BOOLEAN]
    /\ pending \in [Round -> SUBSET Node]
    /\ asking \in [Round -> Node \cup {None}]
    /\ promises \in [Round -> SUBSET Node]
    /\ records \in [Round -> SUBSET Suggestion]
    /\ value \in [Round -> Node \cup {None}]
    /\ accepts \in [Round -> SUBSET Node]
    /\ winner \in [Round -> Node \cup {None}]
    /\ sess \in [Round -> [Node -> SessionState]]
    /\ snap \in [Round -> [Node -> Nat]]
    /\ faults \in Nat
    /\ lost \subseteq Node

\* No acceptor helps two nodes to be master at one term (paxos.rs, "the interlock that
\* keeps at most one master per term"), although terms come from unsynchronised clocks,
\* proposers collide at a term, messages are late and acceptors crash: whoever voted in
\* two won rounds of a term with different winners had lost its acceptor.state.
OneMasterPerTerm ==
    \A r, q \in Round :
        winner[r] # None /\ winner[q] # None /\ term[r] = term[q] /\ winner[r] # winner[q] =>
            accepts[r] \cap accepts[q] \subseteq lost

\* What a won round rests on outlives any crash: as many acceptor.state files as the
\* quorum counts, of voters of any node type, record the winner at its term or have
\* moved on to a later term; only unreadable files are missing.
Settled(s, t, m) == s.accTerm > t \/ (s.accTerm = t /\ s.accMaster = m)
WinIsDurable ==
    \A r \in Round : winner[r] # None =>
        Cardinality({a \in Node : a \in lost \/ Settled(disk[a], term[r], winner[r])}) >= Majority

\* An acceptor never accepts below its highest promise (module comment of
\* acceptor_state.rs): a session that grants its vote holds the highest number among
\* the live sessions the same acceptor has promised, unless it lost its file.
Number(r) == <<term[r], proposer[r]>>
Below(x, y) == x[1] < y[1] \/ (x[1] = y[1] /\ x[2] < y[2])
VoteHonoursPromises ==
    [][\A r \in Round, a \in Node :
         a \notin lost /\ sess[r][a] = "told" /\ sess'[r][a] = "granted" =>
             \A q \in Round : sess[q][a] \in {"promised", "told", "granted"}
                                 => ~Below(Number(r), Number(q))]_vars
=============================================================================
