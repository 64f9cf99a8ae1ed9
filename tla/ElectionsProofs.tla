-------------------------- MODULE ElectionsProofs --------------------------
(***************************************************************************)
(* One master per term, durable wins and honoured promises, for every      *)
(* group, every number of rounds, terms and faults.                        *)
(*                                                                         *)
(* An acceptor's file and its memory may differ: a failed write rolls      *)
(* memory back and may leave the new file, which a restart then loads.     *)
(* What carries the proofs is that either of them only ever becomes a      *)
(* state that is later than the memory it was built from (AccStep).  With  *)
(* AccBound, which says that nothing is accepted above the promise, a vote *)
(* once counted stays in both (VoteInv), and two rounds of a term with a   *)
(* voter in common have one value (AgreeInv).  An acceptor whose file      *)
(* could not be read back is in lost, and nothing is said of it.           *)
(***************************************************************************)
EXTENDS Elections, FiniteSetTheorems, TLAPS

\* No acceptor has accepted a term above the one it promised.
AccBound == \A a \in Node : mem[a].accTerm <= mem[a].term /\ disk[a].accTerm <= disk[a].term

\* How far a round is: before phase 2 nobody votes, a round that is won is over.
RoundInv ==
  \A r \in Round :
    /\ phase[r] # "new" => proposer[r] \in Node /\ term[r] > 0
    /\ phase[r] = "phase2" => value[r] # None
    /\ \A a \in Node : sess[r][a] = "told" => value[r] # None
    /\ phase[r] = "new" => \A a \in Node : sess[r][a] = "none"
    /\ phase[r] \in {"new", "phase1"} =>
         accepts[r] = {} /\ \A a \in Node : sess[r][a] \notin {"told", "granted"}
    /\ winner[r] # None =>
         phase[r] = "over" /\ winner[r] = value[r] /\ Cardinality(accepts[r]) >= Majority

\* A vote the proposer counted is in the acceptor's memory and in its file.
VoteInv ==
  \A r \in Round : \A a \in accepts[r] \ lost :
    Settled(mem[a], term[r], value[r]) /\ Settled(disk[a], term[r], value[r])

\* An acceptor votes for one master per term.
AgreeInv ==
  \A r, q \in Round :
    term[r] = term[q] /\ (accepts[r] \cap accepts[q]) \ lost # {} => value[r] = value[q]

\* The acceptor's number, in memory and in the file, is at least the numbers of the live
\* sessions it promised.
PromiseInv ==
  \A q \in Round, a \in Node \ lost :
    sess[q][a] \in {"promised", "told", "granted"} =>
      /\ ~Below(<<mem[a].term, mem[a].proposer>>, Number(q))
      /\ ~Below(<<disk[a].term, disk[a].proposer>>, Number(q))

IInv == TypeOK /\ AccBound /\ RoundInv /\ VoteInv /\ AgreeInv /\ PromiseInv

\* The acceptor state n is later than s: the number did not fall, and what was accepted
\* is the same or of a later term.
Later(s, n) ==
  /\ ~Outnumbers(s, n.term, n.proposer)
  /\ n.accTerm > s.accTerm \/ (n.accTerm = s.accTerm /\ n.accMaster = s.accMaster)

\* What any step does to memory and file of the acceptors.
AccStep ==
  /\ lost \subseteq lost'
  /\ \A a \in Node \ lost' :
       /\ mem'[a] \in {mem[a], disk[a]} \/ Later(mem[a], mem'[a])
       /\ disk'[a] = disk[a] \/ Later(mem[a], disk'[a])

AccTypeOK == mem \in [Node -> AcceptorState] /\ disk \in [Node -> AcceptorState] /\ faults \in Nat

\* The rounds leave their number, value and votes alone.
SameVotes == UNCHANGED <<term, proposer, value, accepts>>

-----------------------------------------------------------------------------
\* Names and terms are numbers.
LEMMA Numbers ==
  /\ Node \subseteq Nat /\ None \in Nat /\ None \notin Node
  /\ \A s \in AcceptorState : s.term \in Nat /\ s.proposer \in Nat /\ s.accTerm \in Nat
<1>1. Node \subseteq Nat /\ None \in Nat /\ None \notin Node
  BY ElectionsAssumption DEF None
<1>2. ASSUME NEW s \in AcceptorState
      PROVE s.term \in Nat /\ s.proposer \in Nat /\ s.accTerm \in Nat
  BY <1>1, <1>2 DEF AcceptorState, AcceptorRecord
<1>3. QED
  BY <1>1, <1>2

\* Updating a function at one argument keeps its type.
LEMMA UpdateType ==
  ASSUME NEW D, NEW R, NEW f \in [D -> R], NEW x \in D, NEW v \in R
  PROVE  [f EXCEPT ![x] = v] \in [D -> R]
  OBVIOUS

\* Two quorums have a member in common when every two sets of their size do.
LEMMA MajoritiesMeet ==
  ASSUME 2 * Majority > Cardinality(Node), NEW S, NEW T, S \subseteq Node, T \subseteq Node,
         Cardinality(S) >= Majority, Cardinality(T) >= Majority
  PROVE  S \cap T # {}
<1>1. IsFiniteSet(Node) /\ IsFiniteSet(S) /\ IsFiniteSet(T)
  BY ElectionsAssumption, FS_Subset
<1>2. /\ Cardinality(Node) \in Nat /\ Cardinality(S) \in Nat /\ Cardinality(T) \in Nat
      /\ Cardinality(S \cup T) \in Nat
  BY <1>1, FS_CardinalityType, FS_Union
<1>3. Cardinality(S \cup T) <= Cardinality(Node)
  BY <1>1, FS_Subset
<1>4. Cardinality(S \cup T) = Cardinality(S) + Cardinality(T) - Cardinality(S \cap T)
  BY <1>1, FS_Union
<1>5. SUFFICES ASSUME S \cap T = {} PROVE FALSE
  OBVIOUS
<1>6. Cardinality(S \cap T) = 0
  BY <1>5, FS_EmptySet
<1>7. Majority \in Int
  BY ElectionsAssumption, FS_Subset, FS_CardinalityType DEF Majority, Electable
<1>8. QED
  BY <1>2, <1>3, <1>4, <1>6, <1>7

\* try_promise_proposal keeps the types and the bound, makes the acceptor later, and when it
\* promises leaves the promised number in memory and in the file.
LEMMA PromiseStep ==
  ASSUME AccTypeOK, AccBound, UNCHANGED lost, NEW a \in Node, NEW t \in Nat \ {0},
         NEW p \in Node, NEW ok \in BOOLEAN,
         try_promise_proposal(a, t, p, ok)
  PROVE  /\ AccTypeOK' /\ AccBound' /\ AccStep
         /\ ok => /\ mem'[a].term = t /\ mem'[a].proposer = p
                  /\ disk'[a].term = t /\ disk'[a].proposer = p
<1> DEFINE s == [mem[a] EXCEPT !.term = t, !.proposer = p]
<1>1. /\ mem[a] \in AcceptorState /\ s \in AcceptorRecord
      /\ s.term = t /\ s.proposer = p
      /\ s.accTerm = mem[a].accTerm /\ s.accMaster = mem[a].accMaster
  BY DEF AccTypeOK, AcceptorState, AcceptorRecord
<1>2. CASE UNCHANGED accVars /\ ~ok
  BY <1>2 DEF AccTypeOK, AccBound, AccStep, accVars
<1>3. CASE ~Outnumbers(mem[a], t, p) /\ (Flushed(a, s) \/ (FlushFailed(a, s) /\ ~ok))
  <2>0. Later(mem[a], s) /\ s.accTerm <= s.term
    BY <1>1, <1>3, Numbers DEF Later, Outnumbers, AccBound
  <2>1. s \in AcceptorState
    BY <1>1, <2>0, Numbers DEF AcceptorState
  <2> HIDE DEF s
  <2>2. AccTypeOK'
    BY <1>1, <1>3, <2>1 DEF AccTypeOK, Flushed, FlushFailed
  <2>3. QED
    BY <1>1, <1>3, <2>0, <2>2 DEF AccTypeOK, AccBound, AccStep, Flushed, FlushFailed
<1>4. QED
  BY <1>2, <1>3 DEF try_promise_proposal

\* try_accept_proposal keeps the types and the bound, makes the acceptor later, and when it
\* accepts the vote is in memory and in the file, at the promised number and at no other
\* master than the one already accepted at this term.
LEMMA AcceptStep ==
  ASSUME AccTypeOK, AccBound, UNCHANGED lost, NEW a \in Node, NEW t \in Nat \ {0}, NEW p \in Node,
         NEW m \in Node, NEW ok \in BOOLEAN, try_accept_proposal(a, t, p, m, ok)
  PROVE  /\ AccTypeOK' /\ AccBound' /\ AccStep
         /\ ok => /\ Settled(mem'[a], t, m) /\ Settled(disk'[a], t, m)
                  /\ Acceptable(mem[a], t, p, m)
<1> DEFINE s == [mem[a] EXCEPT !.accTerm = t, !.accMaster = m]
<1>1. /\ mem[a] \in AcceptorState /\ s \in AcceptorRecord
      /\ s.term = mem[a].term /\ s.proposer = mem[a].proposer
      /\ s.accTerm = t /\ s.accMaster = m
  BY DEF AccTypeOK, AcceptorState, AcceptorRecord
<1>2. CASE UNCHANGED accVars /\ ~ok
  BY <1>2 DEF AccTypeOK, AccBound, AccStep, accVars
<1>3. CASE Acceptable(mem[a], t, p, m) /\ (Flushed(a, s) \/ (FlushFailed(a, s) /\ ~ok))
  <2>0. Later(mem[a], s) /\ s.accTerm <= s.term /\ Settled(s, t, m)
    BY <1>1, <1>3, Numbers DEF Later, Outnumbers, AccBound, Acceptable, Settled
  <2>1. s \in AcceptorState
    BY <1>1, <2>0, Numbers DEF AcceptorState
  <2> HIDE DEF s
  <2>2. AccTypeOK'
    BY <1>1, <1>3, <2>1 DEF AccTypeOK, Flushed, FlushFailed
  <2>3. QED
    BY <1>1, <1>3, <2>0, <2>2 DEF AccTypeOK, AccBound, AccStep, Flushed, FlushFailed
<1>4. QED
  BY <1>2, <1>3 DEF try_accept_proposal

\* A vote in memory and file is still in both after any step of the acceptors.
LEMMA SettledKept ==
  ASSUME AccTypeOK, AccTypeOK', AccStep, NEW a \in Node \ lost', NEW t \in Nat, NEW m,
         Settled(mem[a], t, m), Settled(disk[a], t, m)
  PROVE  Settled(mem'[a], t, m) /\ Settled(disk'[a], t, m)
<1>1. /\ mem[a].accTerm \in Nat /\ mem'[a].accTerm \in Nat
      /\ disk[a].accTerm \in Nat /\ disk'[a].accTerm \in Nat
  BY Numbers DEF AccTypeOK
<1>2. QED
  BY <1>1 DEF AccStep, Later, Settled

\* A number that bounds memory and file from below still does.
LEMMA BoundKept ==
  ASSUME AccTypeOK, AccTypeOK', AccStep, NEW a \in Node \ lost', NEW t \in Nat, NEW p \in Nat,
         ~Below(<<mem[a].term, mem[a].proposer>>, <<t, p>>),
         ~Below(<<disk[a].term, disk[a].proposer>>, <<t, p>>)
  PROVE  /\ ~Below(<<mem'[a].term, mem'[a].proposer>>, <<t, p>>)
         /\ ~Below(<<disk'[a].term, disk'[a].proposer>>, <<t, p>>)
<1>1. /\ mem[a] \in AcceptorState /\ mem'[a] \in AcceptorState
      /\ disk[a] \in AcceptorState /\ disk'[a] \in AcceptorState
  BY DEF AccTypeOK
<1>2. QED
  BY <1>1, Numbers DEF AccStep, Later, Outnumbers, Below

\* A step that counts no vote and leaves the numbers and values of the rounds with votes
\* alone keeps the votes.
LEMMA VotesKept ==
  ASSUME TypeOK, AccTypeOK', AccStep, VoteInv, AgreeInv, SameVotes
  PROVE  VoteInv' /\ AgreeInv'
<1>1. VoteInv'
  <2> SUFFICES ASSUME NEW r \in Round, NEW a \in accepts[r] \ lost'
               PROVE Settled(mem'[a], term[r], value[r]) /\ Settled(disk'[a], term[r], value[r])
    BY DEF SameVotes, VoteInv, Settled
  <2>1. a \in Node \ lost' /\ a \in accepts[r] \ lost /\ term[r] \in Nat /\ AccTypeOK
    BY DEF TypeOK, AccTypeOK, AccStep
  <2>2. QED
    BY <2>1, SettledKept DEF VoteInv
<1>2. AgreeInv'
  BY DEF SameVotes, AgreeInv, AccStep
<1>3. QED
  BY <1>1, <1>2

\* A step that promises no session keeps the bound of the promises.
LEMMA PromisesKept ==
  ASSUME TypeOK, AccTypeOK', AccStep, PromiseInv, UNCHANGED <<term, proposer>>,
         \A q \in Round, a \in Node :
           sess'[q][a] \in {"promised", "told", "granted"} =>
             sess[q][a] \in {"promised", "told", "granted"}
  PROVE  PromiseInv'
<1> SUFFICES ASSUME NEW q \in Round, NEW a \in Node \ lost',
                    sess[q][a] \in {"promised", "told", "granted"}
             PROVE  /\ ~Below(<<mem'[a].term, mem'[a].proposer>>, Number(q))
                    /\ ~Below(<<disk'[a].term, disk'[a].proposer>>, Number(q))
  BY DEF PromiseInv, Number
<1>1. term[q] \in Nat /\ proposer[q] \in Nat /\ AccTypeOK /\ a \in Node \ lost
  BY Numbers DEF TypeOK, AccTypeOK, AccStep
<1>2. QED
  BY <1>1, BoundKept DEF PromiseInv, Number

\* FollowTracked moves one node and no acceptor, round or session.
LEMMA FollowTrackedKeeps ==
  ASSUME IInv, NEW n \in Node, FollowTracked(n) PROVE IInv'
<1>type. TypeOK'
  BY Numbers DEF IInv, TypeOK, FollowTracked, become_replica, nodeVars, accVars, roundVars,
     callVars
<1> QED
  BY <1>type DEF IInv, AccBound, RoundInv, VoteInv, AgreeInv, PromiseInv, Number, Settled,
     FollowTracked, become_replica, nodeVars, accVars, roundVars, callVars

\* StepDown moves one node and no acceptor, round or session.
LEMMA StepDownKeeps ==
  ASSUME IInv, NEW n \in Node, StepDown(n) PROVE IInv'
<1>type. TypeOK'
  BY Numbers DEF IInv, TypeOK, StepDown, nodeVars, accVars, roundVars, callVars
<1> QED
  BY <1>type DEF IInv, AccBound, RoundInv, VoteInv, AgreeInv, PromiseInv, Number, Settled,
     StepDown, nodeVars, accVars, roundVars, callVars

\* Commit moves one node and no acceptor, round or session.
LEMMA CommitKeeps ==
  ASSUME IInv, NEW n \in Node, Commit(n) PROVE IInv'
<1>type. TypeOK'
  BY Numbers DEF IInv, TypeOK, Commit, nodeVars, accVars, roundVars, callVars
<1> QED
  BY <1>type DEF IInv, AccBound, RoundInv, VoteInv, AgreeInv, PromiseInv, Number, Settled,
     Commit, nodeVars, accVars, roundVars, callVars

\* Replay moves one node and no acceptor, round or session.
LEMMA ReplayKeeps ==
  ASSUME IInv, NEW n \in Node, Replay(n) PROVE IInv'
<1>type. TypeOK'
  BY Numbers DEF IInv, TypeOK, Replay, nodeVars, accVars, roundVars, callVars
<1> QED
  BY <1>type DEF IInv, AccBound, RoundInv, VoteInv, AgreeInv, PromiseInv, Number, Settled,
     Replay, nodeVars, accVars, roundVars, callVars

\* RefuseToPropose moves one node and no acceptor, round or session.
LEMMA RefuseToProposeKeeps ==
  ASSUME IInv, NEW n \in Node, RefuseToPropose(n) PROVE IInv'
<1>type. TypeOK'
  BY Numbers DEF IInv, TypeOK, RefuseToPropose, nodeVars, accVars, roundVars, callVars
<1> QED
  BY <1>type DEF IInv, AccBound, RoundInv, VoteInv, AgreeInv, PromiseInv, Number, Settled,
     RefuseToPropose, nodeVars, accVars, roundVars, callVars

\* Crash ends the node's own rounds and its live sessions; memory is read again from the
\* file only by Restart.
LEMMA CrashKeeps ==
  ASSUME IInv, NEW n \in Node, Crash(n) PROVE IInv'
<1>type. TypeOK'
  BY Numbers, ElectionsAssumption DEF IInv, TypeOK, Crash, SessionState
<1>sess. \A r \in Round, a \in Node : sess'[r][a] = sess[r][a]
           \/ (sess[r][a] # "none" /\ sess'[r][a] = "gone")
  BY DEF IInv, TypeOK, Crash
<1>acc. AccTypeOK /\ AccTypeOK' /\ AccStep /\ SameVotes
  BY <1>type DEF IInv, TypeOK, AccTypeOK, AccStep, SameVotes, Crash
<1>phase. \A r \in Round : phase'[r] = phase[r] \/ (phase[r] \in {"phase1", "phase2"} /\ phase'[r] = "over")
  BY DEF IInv, TypeOK, Crash, Active
<1>round. RoundInv'
  BY <1>phase, <1>sess DEF IInv, RoundInv, Crash
<1>votes. VoteInv' /\ AgreeInv'
  BY <1>acc, VotesKept DEF IInv
<1>prom. PromiseInv'
  BY <1>acc, <1>sess, PromisesKept DEF IInv, SameVotes
<1> QED
  BY <1>type, <1>round, <1>votes, <1>prom DEF IInv, AccBound, Crash

\* Restart: the acceptor resumes from its file, or afresh and is lost.
LEMMA RestartKeeps ==
  ASSUME IInv, NEW n \in Node, Restart(n) PROVE IInv'
<1>same. /\ SameVotes /\ UNCHANGED <<phase, winner, sess, faults>>
         /\ lost' \in {lost, lost \cup {n}}
         /\ \A a \in Node \ {n} : mem'[a] = mem[a] /\ disk'[a] = disk[a]
         /\ n \notin lost' => mem'[n] = disk[n] /\ disk'[n] = disk[n]
         /\ mem'[n] \in {disk[n], FreshAcceptor} /\ disk'[n] \in {disk[n], FreshAcceptor}
  BY DEF IInv, TypeOK, Restart, SameVotes, roundVars
<1>type. TypeOK'
  <2>1. FreshAcceptor \in AcceptorState
    BY Numbers DEF FreshAcceptor, AcceptorState, AcceptorRecord
  <2> HIDE DEF FreshAcceptor
  <2>2. mem' \in [Node -> AcceptorState] /\ disk' \in [Node -> AcceptorState] /\ lost' \subseteq Node
    <3>1. /\ mem \in [Node -> AcceptorState] /\ disk \in [Node -> AcceptorState] /\ lost \subseteq Node
          /\ disk[n] \in AcceptorState
      BY DEF IInv, TypeOK
    <3>2. \/ mem' = [mem EXCEPT ![n] = disk[n]] /\ disk' = disk /\ lost' = lost
          \/ /\ mem' = [mem EXCEPT ![n] = FreshAcceptor] /\ disk' = [disk EXCEPT ![n] = FreshAcceptor]
             /\ lost' = lost \cup {n}
      BY DEF Restart
    <3>3. QED
      BY <2>1, <3>1, <3>2
  <2>3. QED
    BY <2>2 DEF IInv, TypeOK, Restart, roundVars, callVars
<1>acc. AccTypeOK' /\ AccStep
  BY <1>type, <1>same DEF TypeOK, AccTypeOK, AccStep
<1>bound. AccBound'
  BY <1>same DEF IInv, AccBound, FreshAcceptor
<1>round. RoundInv'
  BY <1>same DEF IInv, RoundInv, SameVotes
<1>votes. VoteInv' /\ AgreeInv'
  BY <1>acc, <1>same, VotesKept DEF IInv
<1>prom. PromiseInv'
  BY <1>acc, <1>same, PromisesKept DEF IInv, SameVotes
<1> QED
  BY <1>type, <1>bound, <1>round, <1>votes, <1>prom DEF IInv

\* StartRound: a fresh number, no vote yet, and the own acceptor asked.
LEMMA StartRoundKeeps ==
  ASSUME IInv, NEW n \in Node, NEW r \in Round, NEW t \in 1 .. MaxTerm, NEW ok \in BOOLEAN,
         StartRound(n, r, t, ok)
  PROVE  IInv'
<1>acc. AccTypeOK' /\ AccBound' /\ AccStep
  BY PromiseStep DEF IInv, TypeOK, AccTypeOK, StartRound
<1>type. TypeOK'
  <2>1. Own(n) \in Suggestion
    BY ElectionsAssumption DEF IInv, TypeOK, Own, Suggestion
  <2>2. t \in Nat
    OBVIOUS
  <2>3. sess' \in [Round -> [Node -> SessionState]] /\ snap' \in [Round -> [Node -> Nat]]
    BY DEF IInv, TypeOK, StartRound, SessionState
  <2>4. records' \in [Round -> SUBSET Suggestion]
    BY <2>1, UpdateType DEF IInv, TypeOK, StartRound
  <2>5. pending' \in [Round -> SUBSET Node]
    <3>1. up \ {n} \in SUBSET Node
      BY DEF IInv, TypeOK
    <3>2. QED
      BY <3>1, UpdateType DEF IInv, TypeOK, StartRound
  <2>6. prev' \in [Node -> Nat] /\ adv' \in [Node -> Nat] /\ term' \in [Round -> Nat]
    BY <2>2 DEF IInv, TypeOK, StartRound
  <2>7. /\ proposer' \in [Round -> Node \cup {None}] /\ selfVote' \in [Round -> BOOLEAN]
        /\ phase' \in [Round -> {"new", "phase1", "phase2", "over"}]
    BY DEF IInv, TypeOK, StartRound
  <2>8. QED
    BY <1>acc, <2>3, <2>4, <2>5, <2>6, <2>7 DEF IInv, TypeOK, AccTypeOK, StartRound
<1>new. phase[r] = "new" /\ accepts[r] = {}
  BY DEF IInv, RoundInv, StartRound, NextRound
<1>sess. /\ \A a \in Node : sess'[r][a] \in {"none", "connected"}
         /\ \A q \in Round \ {r} : sess'[q] = sess[q]
  BY DEF IInv, TypeOK, StartRound
<1>same. \A q \in Round \ {r} : term'[q] = term[q] /\ proposer'[q] = proposer[q] /\ phase'[q] = phase[q]
  BY DEF IInv, TypeOK, StartRound
<1>here. proposer'[r] = n /\ term'[r] > 0 /\ phase'[r] = "phase1" /\ value' = value /\ accepts' = accepts /\ winner' = winner
  BY DEF IInv, TypeOK, StartRound
<1>round. RoundInv'
  BY <1>new, <1>sess, <1>same, <1>here DEF IInv, RoundInv
<1>votes. VoteInv'
  <2> SUFFICES ASSUME NEW q \in Round, NEW a \in accepts[q] \ lost'
               PROVE Settled(mem'[a], term'[q], value[q]) /\ Settled(disk'[a], term'[q], value[q])
    BY <1>here DEF VoteInv, Settled
  <2>1. /\ q # r /\ term'[q] = term[q] /\ a \in Node \ lost' /\ a \notin lost
        /\ term[q] \in Nat /\ AccTypeOK
    BY <1>new, <1>same, <1>acc DEF IInv, TypeOK, AccTypeOK, AccStep
  <2>2. QED
    BY <2>1, <1>acc, SettledKept DEF IInv, VoteInv
<1>agree. AgreeInv'
  BY <1>new, <1>same, <1>here, <1>acc DEF IInv, AgreeInv, AccStep
<1>prom. PromiseInv'
  <2> SUFFICES ASSUME NEW q \in Round, NEW a \in Node \ lost',
                      sess'[q][a] \in {"promised", "told", "granted"}
               PROVE  /\ ~Below(<<mem'[a].term, mem'[a].proposer>>, <<term'[q], proposer'[q]>>)
                      /\ ~Below(<<disk'[a].term, disk'[a].proposer>>, <<term'[q], proposer'[q]>>)
    BY DEF PromiseInv, Number
  <2>1. q # r /\ sess[q][a] \in {"promised", "told", "granted"} /\ a \notin lost
    BY <1>sess, <1>acc DEF AccStep
  <2>2. term'[q] = term[q] /\ proposer'[q] = proposer[q]
    BY <2>1, <1>same
  <2>3. term[q] \in Nat /\ proposer[q] \in Nat /\ AccTypeOK
    BY Numbers DEF IInv, TypeOK, AccTypeOK
  <2>4. QED
    BY <2>1, <2>2, <2>3, <1>acc, BoundKept DEF IInv, PromiseInv, Number
<1> QED
  BY <1>type, <1>acc, <1>round, <1>votes, <1>agree, <1>prom DEF IInv

\* GiveUpOnPeer only forgets whom the driver waits for.
LEMMA GiveUpOnPeerKeeps ==
  ASSUME IInv, NEW r \in Round, GiveUpOnPeer(r) PROVE IInv'
<1>type. TypeOK'
  BY Numbers DEF IInv, TypeOK, GiveUpOnPeer, nodeVars, accVars, roundVars
<1> QED
  BY <1>type DEF IInv, AccBound, RoundInv, VoteInv, AgreeInv, PromiseInv, Number, Settled,
     GiveUpOnPeer, accVars, roundVars

\* SendProposal: the session moves on, unless it is gone.
LEMMA SendProposalKeeps ==
  ASSUME IInv, NEW r \in Round, NEW a \in Node, SendProposal(r, a) PROVE IInv'
<1>type. TypeOK'
  <2>1. pending' \in [Round -> SUBSET Node]
    <3>1. pending[r] \ {a} \in SUBSET Node
      BY DEF IInv, TypeOK
    <3>2. QED
      BY <3>1, UpdateType DEF IInv, TypeOK, SendProposal, CallPeer
  <2>2. asking' \in [Round -> Node \cup {None}]
    <3>1. asking' = asking \/ asking' = [asking EXCEPT ![r] = a]
      BY DEF SendProposal, CallPeer
    <3>2. QED
      BY <3>1 DEF IInv, TypeOK
  <2>3. sess' \in [Round -> [Node -> SessionState]]
    <3>1. sess' = sess \/ sess' = [sess EXCEPT ![r][a] = "asked"]
      BY DEF SendProposal, CallPeer
    <3>2. sess \in [Round -> [Node -> SessionState]] /\ "asked" \in SessionState
      BY DEF IInv, TypeOK, SessionState
    <3>3. QED
      BY <3>1, <3>2
  <2>4. QED
    BY <2>1, <2>2, <2>3 DEF IInv, TypeOK, SendProposal, CallPeer, nodeVars, accVars, roundVars
<1>sess. /\ \A q \in Round, b \in Node : sess'[q][b] = sess[q][b]
                 \/ (q = r /\ sess[q][b] = "connected" /\ sess'[q][b] = "asked")
         /\ phase[r] = "phase1"
  BY DEF IInv, TypeOK, SendProposal, CallPeer
<1>acc. AccTypeOK' /\ AccBound' /\ AccStep /\ SameVotes
  BY DEF IInv, TypeOK, AccTypeOK, AccBound, AccStep, SameVotes, SendProposal, CallPeer,
     accVars, roundVars
<1>round. RoundInv'
  BY <1>sess DEF IInv, RoundInv, SendProposal, CallPeer, roundVars
<1>votes. VoteInv' /\ AgreeInv'
  BY <1>acc, VotesKept DEF IInv
<1>prom. PromiseInv'
  BY <1>acc, <1>sess, PromisesKept DEF IInv, SameVotes
<1> QED
  BY <1>type, <1>acc, <1>round, <1>votes, <1>prom DEF IInv

\* SendResult: the session moves on, unless it is gone.
LEMMA SendResultKeeps ==
  ASSUME IInv, NEW r \in Round, NEW a \in Node, SendResult(r, a) PROVE IInv'
<1>type. TypeOK'
  <2>1. pending' \in [Round -> SUBSET Node]
    <3>1. pending[r] \ {a} \in SUBSET Node
      BY DEF IInv, TypeOK
    <3>2. QED
      BY <3>1, UpdateType DEF IInv, TypeOK, SendResult, CallPeer
  <2>2. asking' \in [Round -> Node \cup {None}]
    <3>1. asking' = asking \/ asking' = [asking EXCEPT ![r] = a]
      BY DEF SendResult, CallPeer
    <3>2. QED
      BY <3>1 DEF IInv, TypeOK
  <2>3. sess' \in [Round -> [Node -> SessionState]]
    <3>1. sess' = sess \/ sess' = [sess EXCEPT ![r][a] = "told"]
      BY DEF SendResult, CallPeer
    <3>2. sess \in [Round -> [Node -> SessionState]] /\ "told" \in SessionState
      BY DEF IInv, TypeOK, SessionState
    <3>3. QED
      BY <3>1, <3>2
  <2>4. QED
    BY <2>1, <2>2, <2>3 DEF IInv, TypeOK, SendResult, CallPeer, nodeVars, accVars, roundVars
<1>sess. /\ \A q \in Round, b \in Node : sess'[q][b] = sess[q][b]
                 \/ (q = r /\ sess[q][b] = "promised" /\ sess'[q][b] = "told")
         /\ phase[r] = "phase2"
  BY DEF IInv, TypeOK, SendResult, CallPeer
<1>acc. AccTypeOK' /\ AccBound' /\ AccStep /\ SameVotes
  BY DEF IInv, TypeOK, AccTypeOK, AccBound, AccStep, SameVotes, SendResult, CallPeer, accVars,
     roundVars
<1>round. RoundInv'
  BY <1>sess DEF IInv, RoundInv, SendResult, CallPeer, roundVars
<1>votes. VoteInv' /\ AgreeInv'
  BY <1>acc, VotesKept DEF IInv
<1>prom. PromiseInv'
  BY <1>acc, <1>sess, PromisesKept DEF IInv, SameVotes
<1> QED
  BY <1>type, <1>acc, <1>round, <1>votes, <1>prom DEF IInv

\* choose_phase2_value picks a suggested node, or none.
LEMMA ChosenIsNode ==
  ASSUME NEW recs, recs \subseteq Suggestion
  PROVE  choose_phase2_value(recs) \in Node \cup {None}
  BY DEF choose_phase2_value, Suggestion

\* EndPhase1 fixes the value of a round nobody has voted in.
LEMMA EndPhase1Keeps ==
  ASSUME IInv, NEW r \in Round, EndPhase1(r) PROVE IInv'
<1>value. choose_phase2_value(records[r]) \in Node \cup {None}
  BY ChosenIsNode DEF IInv, TypeOK
<1>type. TypeOK'
  <2> DEFINE v == choose_phase2_value(records[r])
  <2>1. v \in Node \cup {None}
    BY <1>value
  <2> HIDE DEF v
  <2>2. value' = value \/ value' = [value EXCEPT ![r] = v]
    BY DEF EndPhase1, v
  <2>3. pending' = pending \/ pending' = [pending EXCEPT ![r] = promises[r]]
    BY DEF EndPhase1
  <2>4. phase' = [phase EXCEPT ![r] = "phase2"] \/ phase' = [phase EXCEPT ![r] = "over"]
    BY DEF EndPhase1
  <2>5. UNCHANGED <<nodeVars, accVars, proposer, term, selfVote, promises, records, accepts, winner,
                   asking, sess, snap, lost>>
    BY DEF EndPhase1
  <2>6. value' \in [Round -> Node \cup {None}]
    <3>1. value \in [Round -> Node \cup {None}]
      BY DEF IInv, TypeOK
    <3>2. QED
      BY <2>1, <2>2, <3>1, UpdateType
  <2>7. pending' \in [Round -> SUBSET Node]
    <3>1. pending \in [Round -> SUBSET Node] /\ promises[r] \in SUBSET Node
      BY DEF IInv, TypeOK
    <3>2. QED
      BY <3>1, <2>3, UpdateType
  <2>8. phase' \in [Round -> {"new", "phase1", "phase2", "over"}]
    BY <2>4 DEF IInv, TypeOK
  <2>9. QED
    BY <2>5, <2>6, <2>7, <2>8 DEF IInv, TypeOK, nodeVars, accVars
<1>before. /\ phase[r] = "phase1" /\ accepts[r] = {} /\ winner[r] = None
           /\ \A a \in Node : sess[r][a] # "told"
  BY DEF IInv, RoundInv, EndPhase1
<1>after. /\ phase'[r] \in {"phase2", "over"}
          /\ phase'[r] = "phase2" => value'[r] # None
          /\ \A q \in Round \ {r} : phase'[q] = phase[q] /\ value'[q] = value[q]
  BY DEF IInv, TypeOK, EndPhase1
<1>same. UNCHANGED <<mem, disk, proposer, term, accepts, winner, sess, lost>>
  BY DEF EndPhase1, accVars
<1>round. RoundInv'
  BY <1>before, <1>after, <1>same DEF IInv, RoundInv
<1>votes. VoteInv'
  BY <1>before, <1>after, <1>same DEF IInv, VoteInv, Settled
<1>agree. AgreeInv'
  BY <1>before, <1>after, <1>same DEF IInv, AgreeInv
<1> QED
  BY <1>type, <1>round, <1>votes, <1>agree, <1>same DEF IInv, AccBound, PromiseInv, Number

\* Counting the vote of an acceptor that has just accepted keeps what is known of the votes:
\* an earlier vote at this term is what its accepted master still says.
LEMMA VoteCounted ==
  ASSUME TypeOK, AccBound, VoteInv, AgreeInv, AccTypeOK', AccStep, UNCHANGED <<term, value>>,
         NEW r \in Round, NEW a \in Node,
         accepts' = [accepts EXCEPT ![r] = @ \cup {a}],
         Acceptable(mem[a], term[r], proposer[r], value[r]),
         Settled(mem'[a], term[r], value[r]), Settled(disk'[a], term[r], value[r])
  PROVE  VoteInv' /\ AgreeInv'
<1>types. AccTypeOK /\ accepts'[r] = accepts[r] \cup {a} /\ \A q \in Round \ {r} : accepts'[q] = accepts[q]
  BY DEF TypeOK, AccTypeOK
<1>votes. VoteInv'
  <2> SUFFICES ASSUME NEW q \in Round, NEW b \in accepts'[q] \ lost'
               PROVE Settled(mem'[b], term[q], value[q]) /\ Settled(disk'[b], term[q], value[q])
    BY DEF VoteInv, Settled
  <2>1. CASE b \in accepts[q]
    <3>1. b \in Node \ lost' /\ b \notin lost /\ term[q] \in Nat
      BY <2>1 DEF TypeOK, AccStep
    <3>2. QED
      BY <2>1, <3>1, <1>types, SettledKept DEF VoteInv
  <2>2. CASE b \notin accepts[q]
    BY <2>2, <1>types
  <2>3. QED
    BY <2>1, <2>2
<1>once. ASSUME NEW q \in Round, a \in accepts[q] \ lost, term[q] = term[r]
         PROVE value[q] = value[r]
  <2>1. Settled(mem[a], term[r], value[q])
    BY <1>once DEF VoteInv
  <2>2. mem[a].accTerm \in Nat /\ mem[a].term \in Nat /\ mem[a].accTerm <= mem[a].term
    BY Numbers, <1>types DEF AccTypeOK, AccBound
  <2>3. QED
    BY <2>1, <2>2 DEF Settled, Acceptable
<1>agree. AgreeInv'
  <2> SUFFICES ASSUME NEW p \in Round, NEW q \in Round, term[p] = term[q],
                      NEW b, b \in accepts'[p], b \in accepts'[q], b \notin lost
               PROVE value[p] = value[q]
    BY DEF AgreeInv, AccStep
  <2>1. CASE b \in accepts[p] /\ b \in accepts[q]
    BY <2>1 DEF AgreeInv
  <2>2. CASE b \notin accepts[p]
    BY <2>2, <1>types, <1>once
  <2>3. CASE b \notin accepts[q]
    BY <2>3, <1>types, <1>once
  <2>4. QED
    BY <2>1, <2>2, <2>3
<1> QED
  BY <1>votes, <1>agree

\* EndPhase2: the own vote, then the outcome.
LEMMA EndPhase2Keeps ==
  ASSUME IInv, NEW r \in Round, NEW ok \in BOOLEAN, EndPhase2(r, ok) PROVE IInv'
<1> DEFINE n == proposer[r]
           votes == IF ok THEN accepts[r] \cup {n} ELSE accepts[r]
<1>n. /\ n \in Node /\ term[r] \in Nat \ {0} /\ value[r] \in Node /\ winner[r] = None
      /\ phase[r] = "phase2" /\ AccTypeOK /\ UNCHANGED lost
  <2>1. phase[r] = "phase2" /\ UNCHANGED lost
    BY DEF EndPhase2
  <2>2. n \in Node /\ term[r] > 0 /\ value[r] # None /\ winner[r] = None
    BY <2>1 DEF IInv, RoundInv
  <2>3. term[r] \in Nat /\ value[r] \in Node \cup {None} /\ AccTypeOK
    BY DEF IInv, TypeOK, AccTypeOK
  <2>4. QED
    BY <2>1, <2>2, <2>3
<1>acc. /\ AccTypeOK' /\ AccBound' /\ AccStep
        /\ ok => /\ Settled(mem'[n], term[r], value[r]) /\ Settled(disk'[n], term[r], value[r])
                 /\ Acceptable(mem[n], term[r], n, value[r])
  <2>1. CASE selfVote[r]
    <3>1. try_accept_proposal(n, term[r], n, value[r], ok)
      BY <2>1 DEF EndPhase2
    <3>2. QED
      BY <3>1, <1>n, AcceptStep DEF IInv
  <2>2. CASE ~selfVote[r]
    BY <2>2, <1>n DEF EndPhase2, IInv, AccTypeOK, AccBound, AccStep, accVars
  <2>3. QED
    BY <2>1, <2>2
<1>votes. votes \in SUBSET Node /\ accepts' = [accepts EXCEPT ![r] = votes]
  BY <1>n DEF EndPhase2, IInv, TypeOK
<1>roles. /\ role' \in [Node -> {"Unknown", "Master", "Replica"}]
          /\ tracker' \in [Node -> [name : Node \cup {None}, term : Nat]]
          /\ prev' \in [Node -> Nat]
  <2> DEFINE W == [name : Node \cup {None}, term : Nat]
  <2>1. CASE UNCHANGED <<role, tracker, prev>>
    BY <2>1 DEF IInv, TypeOK
  <2>2. CASE become_master(n, term[r])
    <3>1. [name |-> n, term |-> term[r]] \in W /\ MaxOf(prev[n], term[r]) \in Nat
      BY <1>n DEF MaxOf, IInv, TypeOK
    <3>2. QED
      BY <2>2, <3>1, <1>n, UpdateType DEF become_master, IInv, TypeOK
  <2>3. CASE become_replica(n, value[r])
    <3>1. [name |-> value[r], term |-> 0] \in W
      BY <1>n
    <3>2. QED
      BY <2>3, <3>1, <1>n, UpdateType DEF become_replica, IInv, TypeOK
  <2>4. QED
    BY <2>1, <2>2, <2>3 DEF EndPhase2
<1>win. \/ winner' = winner
        \/ winner' = [winner EXCEPT ![r] = value[r]] /\ Cardinality(votes) >= Majority
  BY DEF EndPhase2
<1>same. /\ phase' = [phase EXCEPT ![r] = "over"]
         /\ UNCHANGED <<up, vlsn, adv, proposer, term, selfVote, promises, records, value, pending,
                   asking, sess, snap, lost>>
  BY DEF EndPhase2
<1> HIDE DEF votes
<1>type. TypeOK'
  BY <1>n, <1>acc, <1>votes, <1>roles, <1>win, <1>same DEF IInv, TypeOK, AccTypeOK
<1>round. RoundInv'
  <2>1. accepts'[r] = votes /\ \A q \in Round \ {r} : accepts'[q] = accepts[q] /\ winner'[q] = winner[q]
    BY <1>votes, <1>win DEF IInv, TypeOK
  <2>2. phase'[r] = "over" /\ \A q \in Round \ {r} : phase'[q] = phase[q]
    BY <1>same DEF IInv, TypeOK
  <2>3. winner'[r] # None => winner'[r] = value[r] /\ Cardinality(votes) >= Majority
    BY <1>win, <1>n DEF IInv, TypeOK
  <2>4. QED
    BY <2>1, <2>2, <2>3, <1>n, <1>same DEF IInv, RoundInv
<1>count. VoteInv' /\ AgreeInv'
  <2>1. CASE ok
    <3>1. accepts' = [accepts EXCEPT ![r] = @ \cup {n}]
      BY <2>1, <1>votes DEF votes
    <3>2. QED
      BY <2>1, <3>1, <1>n, <1>acc, <1>same, VoteCounted DEF IInv
  <2>2. CASE ~ok
    <3>1. accepts' = accepts
      BY <2>2, <1>votes DEF votes, IInv, TypeOK
    <3>2. QED
      BY <3>1, <1>acc, <1>same, VotesKept DEF IInv, SameVotes
  <2>3. QED
    BY <2>1, <2>2
<1>prom. PromiseInv'
  BY <1>acc, <1>same, PromisesKept DEF IInv
<1> QED
  BY <1>type, <1>acc, <1>round, <1>count, <1>prom DEF IInv

\* AcceptorPhase1: the promise, its answer and the suggestion that comes with it.
LEMMA AcceptorPhase1Keeps ==
  ASSUME IInv, NEW r \in Round, NEW a \in Node, NEW ok \in BOOLEAN, AcceptorPhase1(r, a, ok)
  PROVE  IInv'
<1>r. /\ phase[r] # "new" /\ proposer[r] \in Node /\ term[r] \in Nat \ {0} /\ AccTypeOK
      /\ UNCHANGED lost
  BY DEF IInv, TypeOK, AccTypeOK, RoundInv, AcceptorPhase1
<1>acc. /\ AccTypeOK' /\ AccBound' /\ AccStep
        /\ ok => /\ mem'[a].term = term[r] /\ mem'[a].proposer = proposer[r]
                 /\ disk'[a].term = term[r] /\ disk'[a].proposer = proposer[r]
  BY <1>r, PromiseStep DEF IInv, AcceptorPhase1
<1>sess. /\ sess'[r][a] \in {"promised", "rejected"} /\ (sess'[r][a] = "promised" => ok)
         /\ \A q \in Round, b \in Node : (q = r /\ b = a) \/ sess'[q][b] = sess[q][b]
  BY DEF IInv, TypeOK, AcceptorPhase1
<1>same. SameVotes /\ UNCHANGED <<phase, winner>>
  BY DEF SameVotes, AcceptorPhase1
<1>type. TypeOK'
  <2> DEFINE add == IF a \in Secondary THEN {} ELSE {Suggested(r, a)}
  <2>1. add \subseteq Suggestion
    <3>1. Suggested(r, a) \in Suggestion
      BY DEF IInv, TypeOK, Suggested, Suggestion
    <3>2. QED
      BY <3>1
  <2>2. promises' \in [Round -> SUBSET Node] /\ records' \in [Round -> SUBSET Suggestion]
    <3>1. promises[r] \cup {a} \in SUBSET Node /\ records[r] \cup add \in SUBSET Suggestion
      BY <2>1 DEF IInv, TypeOK
    <3>2. /\ promises' = promises \/ promises' = [promises EXCEPT ![r] = promises[r] \cup {a}]
          /\ records' = records \/ records' = [records EXCEPT ![r] = records[r] \cup add]
      BY DEF AcceptorPhase1
    <3>3. promises \in [Round -> SUBSET Node] /\ records \in [Round -> SUBSET Suggestion]
      BY DEF IInv, TypeOK
    <3> HIDE DEF add
    <3>4. QED
      BY <3>1, <3>2, <3>3, UpdateType
  <2>3. asking' \in [Round -> Node \cup {None}]
    BY DEF IInv, TypeOK, AcceptorPhase1, Answered
  <2>4. sess' \in [Round -> [Node -> SessionState]]
    BY DEF IInv, TypeOK, AcceptorPhase1, SessionState
  <2>5. QED
    BY <1>acc, <2>2, <2>3, <2>4 DEF IInv, TypeOK, AccTypeOK, AcceptorPhase1, nodeVars
<1>round. RoundInv'
  BY <1>r, <1>sess, <1>same DEF IInv, RoundInv, SameVotes
<1>votes. VoteInv' /\ AgreeInv'
  BY <1>acc, <1>same, VotesKept DEF IInv
<1>prom. PromiseInv'
  <2> SUFFICES ASSUME NEW q \in Round, NEW b \in Node \ lost',
                      sess'[q][b] \in {"promised", "told", "granted"}
               PROVE  /\ ~Below(<<mem'[b].term, mem'[b].proposer>>, <<term[q], proposer[q]>>)
                      /\ ~Below(<<disk'[b].term, disk'[b].proposer>>, <<term[q], proposer[q]>>)
    BY <1>same DEF PromiseInv, Number, SameVotes
  <2>1. term[q] \in Nat /\ proposer[q] \in Nat
    BY Numbers DEF IInv, TypeOK
  <2>2. CASE q = r /\ b = a
    <3>1. ok
      BY <2>2, <1>sess
    <3>2. QED
      BY <2>1, <2>2, <3>1, <1>acc DEF Below
  <2>3. CASE ~(q = r /\ b = a)
    <3>1. sess[q][b] \in {"promised", "told", "granted"}
      BY <2>3, <1>sess
    <3>2. QED
      BY <2>1, <3>1, <1>r, <1>acc, BoundKept DEF IInv, PromiseInv, Number
  <2>4. QED
    BY <2>2, <2>3
<1> QED
  BY <1>type, <1>acc, <1>round, <1>votes, <1>prom DEF IInv

\* AcceptorPhase2: the vote, counted if the driver still waits for it.
LEMMA AcceptorPhase2Keeps ==
  ASSUME IInv, NEW r \in Round, NEW a \in Node, NEW ok \in BOOLEAN, AcceptorPhase2(r, a, ok)
  PROVE  IInv'
<1>r. /\ phase[r] \notin {"new", "phase1"} /\ proposer[r] \in Node /\ term[r] \in Nat \ {0}
      /\ value[r] \in Node /\ AccTypeOK /\ UNCHANGED lost
  BY DEF IInv, TypeOK, AccTypeOK, RoundInv, AcceptorPhase2
<1>acc. /\ AccTypeOK' /\ AccBound' /\ AccStep
        /\ ok => /\ Settled(mem'[a], term[r], value[r]) /\ Settled(disk'[a], term[r], value[r])
                 /\ Acceptable(mem[a], term[r], proposer[r], value[r])
  BY <1>r, AcceptStep DEF IInv, AcceptorPhase2
<1>sess. /\ sess[r][a] = "told" /\ sess'[r][a] \in {"granted", "refused"}
         /\ \A q \in Round, b \in Node : (q = r /\ b = a) \/ sess'[q][b] = sess[q][b]
  BY DEF IInv, TypeOK, AcceptorPhase2
<1>same. UNCHANGED <<term, proposer, value, phase, winner>>
  BY DEF AcceptorPhase2
<1>count. \/ ok /\ accepts' = [accepts EXCEPT ![r] = @ \cup {a}]
          \/ accepts' = accepts
  BY DEF IInv, TypeOK, AcceptorPhase2
<1>type. TypeOK'
  <2>1. accepts' \in [Round -> SUBSET Node]
    <3>1. accepts \in [Round -> SUBSET Node] /\ accepts[r] \cup {a} \in SUBSET Node
      BY DEF IInv, TypeOK
    <3>2. QED
      BY <3>1, <1>count, UpdateType
  <2>2. asking' \in [Round -> Node \cup {None}]
    BY DEF IInv, TypeOK, AcceptorPhase2, Answered
  <2>3. sess' \in [Round -> [Node -> SessionState]]
    BY DEF IInv, TypeOK, AcceptorPhase2, SessionState
  <2>4. QED
    BY <1>acc, <2>1, <2>2, <2>3 DEF IInv, TypeOK, AccTypeOK, AcceptorPhase2, nodeVars
<1>round. RoundInv'
  <2>1. ASSUME NEW q \in Round PROVE Cardinality(accepts'[q]) >= Cardinality(accepts[q])
    <3>1. accepts[q] \subseteq accepts'[q] /\ accepts'[q] \subseteq Node
      <4>1. accepts'[q] = accepts[q] \/ accepts'[q] = accepts[q] \cup {a}
        BY <1>count DEF IInv, TypeOK
      <4>2. accepts'[q] \in SUBSET Node
        BY <1>type DEF TypeOK
      <4>3. QED
        BY <4>1, <4>2
    <3>2. IsFiniteSet(accepts'[q])
      BY <3>1, ElectionsAssumption, FS_Subset
    <3>3. IsFiniteSet(accepts[q])
      BY <3>1, <3>2, FS_Subset
    <3>4. QED
      BY <3>1, <3>2, <3>3, FS_Subset, FS_CardinalityType
  <2>2. ASSUME NEW q \in Round, Cardinality(accepts[q]) >= Majority
        PROVE Cardinality(accepts'[q]) >= Majority
    <3>1. IsFiniteSet(accepts[q]) /\ IsFiniteSet(accepts'[q]) /\ IsFiniteSet(Node)
      BY <1>type, ElectionsAssumption, FS_Subset DEF IInv, TypeOK
    <3>2. Cardinality(accepts[q]) \in Nat /\ Cardinality(accepts'[q]) \in Nat /\ Majority \in Int
      BY <3>1, ElectionsAssumption, FS_Subset, FS_CardinalityType DEF Majority, Electable
    <3>3. QED
      BY <2>1, <2>2, <3>2
  <2>3. \A q \in Round \ {r} : accepts'[q] = accepts[q]
    BY <1>count DEF IInv, TypeOK
  <2>4. QED
    BY <1>r, <1>sess, <1>same, <2>2, <2>3 DEF IInv, RoundInv
<1>votes. VoteInv' /\ AgreeInv'
  <2>1. CASE ok /\ accepts' = [accepts EXCEPT ![r] = @ \cup {a}]
    BY <2>1, <1>acc, <1>same, VoteCounted DEF IInv
  <2>2. CASE accepts' = accepts
    BY <2>2, <1>acc, <1>same, VotesKept DEF IInv, SameVotes
  <2>3. QED
    BY <1>count, <2>1, <2>2
<1>prom. PromiseInv'
  <2>1. \A q \in Round, b \in Node :
           sess'[q][b] \in {"promised", "told", "granted"} =>
             sess[q][b] \in {"promised", "told", "granted"}
    BY <1>sess
  <2>2. QED
    BY <2>1, <1>acc, <1>same, PromisesKept DEF IInv
<1> QED
  BY <1>type, <1>acc, <1>round, <1>votes, <1>prom DEF IInv

\* The inductive invariant holds at the start and every step keeps it.
LEMMA IInvHolds == Spec => []IInv
<1>1. Init => IInv
  <2> SUFFICES ASSUME Init PROVE IInv
    OBVIOUS
  <2>1. FreshAcceptor \in AcceptorState
    BY Numbers DEF FreshAcceptor, AcceptorState, AcceptorRecord
  <2>2. TypeOK
    BY <2>1, ElectionsAssumption DEF Init, TypeOK, SessionState
  <2>3. QED
    BY <2>2 DEF Init, IInv, AccBound, RoundInv, VoteInv, AgreeInv, PromiseInv, FreshAcceptor
<1>2. IInv /\ [Next]_vars => IInv'
  <2> SUFFICES ASSUME IInv, [Next]_vars PROVE IInv'
    OBVIOUS
  <2>1. CASE NodeStep
    BY <2>1, FollowTrackedKeeps, StepDownKeeps, CommitKeeps, ReplayKeeps,
       RefuseToProposeKeeps,
       CrashKeeps, RestartKeeps DEF NodeStep
  <2>2. CASE StartStep
    BY <2>2, StartRoundKeeps DEF StartStep
  <2>3. CASE RoundStep
    BY <2>3, GiveUpOnPeerKeeps, EndPhase1Keeps, EndPhase2Keeps, SendProposalKeeps,
       SendResultKeeps
    DEF RoundStep
  <2>4. CASE SessionStep
    BY <2>4, AcceptorPhase1Keeps, AcceptorPhase2Keeps DEF SessionStep
  <2>5. CASE UNCHANGED vars
    BY <2>5 DEF IInv, TypeOK, AccBound, RoundInv, VoteInv, AgreeInv, PromiseInv, Number,
       Settled,
       vars, nodeVars, accVars, roundVars, callVars
  <2>6. QED
    BY <2>1, <2>2, <2>3, <2>4, <2>5 DEF Next
<1>3. QED
  BY <1>1, <1>2, PTL DEF Spec

-----------------------------------------------------------------------------
\* Every reachable state of the election protocol is typed.
THEOREM TypeCorrect == Spec => []TypeOK
  BY IInvHolds, PTL DEF IInv

\* No acceptor that kept its file has a part in the election of two masters at a term, for
\* any clocks, collisions, late answers, failed writes and crashes.
THEOREM OneMasterHolds == Spec => []OneMasterPerTerm
<1>1. IInv => OneMasterPerTerm
  BY DEF IInv, RoundInv, AgreeInv, OneMasterPerTerm
<1>2. QED
  BY <1>1, IInvHolds, PTL

\* Where the quorum is more than half of all the nodes that vote, secondaries included, at
\* most one master is elected per term as long as every file could be read back.
THEOREM OneMasterPerGroup ==
  ASSUME 2 * Majority > Cardinality(Node)
  PROVE  Spec => [](lost = {} => \A r, q \in Round :
           winner[r] # None /\ winner[q] # None /\ term[r] = term[q] => winner[r] = winner[q])
<1> DEFINE One == lost = {} => \A r, q \in Round :
           winner[r] # None /\ winner[q] # None /\ term[r] = term[q] => winner[r] = winner[q]
<1>1. IInv => One
  <2> SUFFICES ASSUME IInv, lost = {}, NEW r \in Round, NEW q \in Round,
                      winner[r] # None, winner[q] # None, term[r] = term[q]
               PROVE winner[r] = winner[q]
    OBVIOUS
  <2>1. accepts[r] \subseteq Node /\ accepts[q] \subseteq Node
    BY DEF IInv, TypeOK
  <2>2. Cardinality(accepts[r]) >= Majority /\ Cardinality(accepts[q]) >= Majority
    BY DEF IInv, RoundInv
  <2>3. accepts[r] \cap accepts[q] # {}
    BY <2>1, <2>2, MajoritiesMeet
  <2>4. QED
    BY <2>3 DEF IInv, RoundInv, AgreeInv
<1>2. QED
  BY <1>1, IInvHolds, PTL

\* As many acceptor.state files as the quorum counts record a win or have moved to a later
\* term; only files that could not be read back are missing.
THEOREM WinsAreDurable == Spec => []WinIsDurable
<1>1. IInv => WinIsDurable
  <2> SUFFICES ASSUME IInv, NEW r \in Round, winner[r] # None
               PROVE Cardinality({a \in Node : a \in lost \/ Settled(disk[a], term[r], winner[r])})
                       >= Majority
    BY DEF WinIsDurable
  <2> DEFINE S == {a \in Node : a \in lost \/ Settled(disk[a], term[r], winner[r])}
  <2>1. accepts[r] \subseteq S /\ Cardinality(accepts[r]) >= Majority
    BY DEF IInv, TypeOK, RoundInv, VoteInv
  <2>2. IsFiniteSet(S) /\ IsFiniteSet(Node)
    BY ElectionsAssumption, FS_Subset
  <2> HIDE DEF S
  <2>3. IsFiniteSet(accepts[r]) /\ Cardinality(accepts[r]) <= Cardinality(S)
    BY <2>1, <2>2, FS_Subset
  <2>4. Cardinality(accepts[r]) \in Nat /\ Cardinality(S) \in Nat /\ Majority \in Int
    BY <2>2, <2>3, ElectionsAssumption, FS_Subset, FS_CardinalityType DEF Majority, Electable
  <2>5. Cardinality(S) >= Majority
    BY <2>1, <2>3, <2>4
  <2>6. QED
    BY <2>5 DEF S
<1>2. QED
  BY <1>1, IInvHolds, PTL

\* A session that grants its vote holds the highest number among the live sessions its
\* acceptor has promised, unless that acceptor lost its file.
THEOREM PromisesAreHonoured == Spec => VoteHonoursPromises
<1> DEFINE Honours == \A r \in Round, a \in Node :
         a \notin lost /\ sess[r][a] = "told" /\ sess'[r][a] = "granted" =>
             \A q \in Round : sess[q][a] \in {"promised", "told", "granted"}
                                 => ~Below(Number(r), Number(q))
<1>1. IInv /\ [Next]_vars => [Honours]_vars
  <2> SUFFICES ASSUME IInv, Next, NEW r \in Round, NEW a \in Node, a \notin lost,
                      sess[r][a] = "told", sess'[r][a] = "granted"
               PROVE \A q \in Round : sess[q][a] \in {"promised", "told", "granted"}
                                 => ~Below(Number(r), Number(q))
    OBVIOUS
  <2>1. AcceptorPhase2(r, a, TRUE)
    <3>1. CASE NodeStep
      <4>1. CASE \E n \in Node : Crash(n)
        BY <4>1 DEF IInv, TypeOK, Crash
      <4>2. CASE UNCHANGED sess
        BY <4>2
      <4>3. QED
        BY <3>1, <4>1, <4>2 DEF NodeStep, FollowTracked, StepDown, Commit, Replay,
           RefuseToPropose,
           Restart
    <3>2. CASE StartStep
      <4>1. PICK n \in Node, q \in Round, t \in 1 .. MaxTerm, ok \in BOOLEAN : StartRound(n, q, t, ok)
        BY <3>2 DEF StartStep
      <4>2. QED
        BY <4>1 DEF IInv, TypeOK, StartRound
    <3>3. CASE RoundStep
      <4>1. CASE \E q \in Round, b \in Node : SendProposal(q, b) \/ SendResult(q, b)
        <5>1. PICK q \in Round, b \in Node : SendProposal(q, b) \/ SendResult(q, b)
          BY <4>1
        <5>2. UNCHANGED sess \/ sess' = [sess EXCEPT ![q][b] = "asked"]
                \/ sess' = [sess EXCEPT ![q][b] = "told"]
          BY <5>1 DEF SendProposal, SendResult, CallPeer
        <5>3. sess \in [Round -> [Node -> SessionState]]
          BY DEF IInv, TypeOK
        <5>4. CASE q = r /\ b = a
          BY <5>2, <5>3, <5>4
        <5>5. CASE q # r \/ b # a
          BY <5>2, <5>3, <5>5
        <5>6. QED
          BY <5>4, <5>5
      <4>2. CASE UNCHANGED sess
        BY <4>2
      <4>3. QED
        BY <3>3, <4>1, <4>2 DEF RoundStep, GiveUpOnPeer, EndPhase1, EndPhase2
    <3>4. CASE SessionStep
      <4>1. PICK q \in Round, b \in Node, ok \in BOOLEAN :
              AcceptorPhase1(q, b, ok) \/ AcceptorPhase2(q, b, ok)
        BY <3>4 DEF SessionStep
      <4>2. CASE AcceptorPhase1(q, b, ok)
        BY <4>2 DEF IInv, TypeOK, AcceptorPhase1
      <4>3. CASE AcceptorPhase2(q, b, ok)
        <5>1. q = r /\ b = a /\ ok = TRUE
          BY <4>3 DEF IInv, TypeOK, AcceptorPhase2
        <5>2. QED
          BY <4>3, <5>1
      <4>4. QED
        BY <4>1, <4>2, <4>3
    <3>5. QED
      BY <3>1, <3>2, <3>3, <3>4 DEF Next
  <2>2. mem[a].term = term[r] /\ mem[a].proposer = proposer[r]
    BY <2>1 DEF AcceptorPhase2, try_accept_proposal, Acceptable
  <2>3. QED
    BY <2>2 DEF IInv, PromiseInv, Number
<1>2. QED
  BY <1>1, IInvHolds, PTL DEF Spec, VoteHonoursPromises
=============================================================================
