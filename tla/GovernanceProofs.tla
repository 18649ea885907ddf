-------------------------- MODULE GovernanceProofs --------------------------
(* Governance for every set of ids and voters, every timelock and every     *)
(* bound: its types, one vote each, who is put under the timelock, and when *)
(* an execution may happen.                                                 *)
EXTENDS Governance, SequenceTheorems, TLAPS

\* The invariants are inductive together: a vote needs the types, and what
\* moved a proposal needs both.
GovInv == GovTypeOK /\ OneVoteEachInv /\ MovedByVoteInv

\* The first proposal of an id is one proposal.
LEMMA FirstIsUnique ==
  ASSUME GovTypeOK, NEW i \in 1 .. Len(proposals), NEW j \in 1 .. Len(proposals),
         IsFirst(i), IsFirst(j), proposals[i].id = proposals[j].id
  PROVE  i = j
<1>1. Len(proposals) \in Nat
  BY LenProperties DEF GovTypeOK
<1>2. CASE i < j
  <2>1. i \in 1 .. j - 1
    BY <1>1, <1>2
  <2> QED BY <2>1 DEF IsFirst
<1>3. CASE j < i
  <2>1. j \in 1 .. i - 1
    BY <1>1, <1>3
  <2> QED BY <2>1 DEF IsFirst
<1> QED BY <1>1, <1>2, <1>3

\* Restating the first proposal of an id changes that one's status and release
\* time and nothing else.
LEMMA RestatedShape ==
  ASSUME GovTypeOK, NEW id \in Ids,
         NEW status \in {"Active", "Timelocked", "Executed"}, NEW release \in Nat
  PROVE  /\ Restated(id, status, release) \in Seq(Proposal)
         /\ Len(Restated(id, status, release)) = Len(proposals)
         /\ \A i \in 1 .. Len(proposals) :
               Restated(id, status, release)[i] =
                 IF proposals[i].id = id /\ IsFirst(i)
                 THEN [id |-> id, status |-> status, release |-> release]
                 ELSE proposals[i]
<1> DEFINE r == Restated(id, status, release)
<1>1. /\ Len(proposals) \in Nat
      /\ \A i \in 1 .. Len(proposals) : proposals[i] \in Proposal
  BY LenProperties, ElementOfSeq DEF GovTypeOK
<1>2. [id |-> id, status |-> status, release |-> release] \in Proposal
  BY DEF Proposal
<1>3. r \in [1 .. Len(proposals) -> Proposal]
  BY <1>1, <1>2 DEF Restated
<1>4. r \in Seq(Proposal) /\ Len(r) = Len(proposals)
  BY <1>1, <1>3
<1> QED BY <1>4 DEF Restated

\* Restating changes no id, so it changes no proposal's being the first.
LEMMA RestatedKeepsIds ==
  ASSUME GovTypeOK, NEW id \in Ids,
         NEW status \in {"Active", "Timelocked", "Executed"}, NEW release \in Nat,
         proposals' = Restated(id, status, release)
  PROVE  /\ \A i \in 1 .. Len(proposals) : proposals'[i].id = proposals[i].id
         /\ \A i \in 1 .. Len(proposals) : IsFirst(i) => IsFirst(i)'
<1>1. ASSUME NEW i \in 1 .. Len(proposals)
      PROVE  proposals'[i].id = proposals[i].id
  <2>1. proposals'[i] = IF proposals[i].id = id /\ IsFirst(i)
                        THEN [id |-> id, status |-> status, release |-> release]
                        ELSE proposals[i]
    BY RestatedShape
  <2> QED BY <2>1
<1>2. ASSUME NEW i \in 1 .. Len(proposals), IsFirst(i)
      PROVE  IsFirst(i)'
  <2>1. Len(proposals) \in Nat
    BY LenProperties DEF GovTypeOK
  <2>2. \A j \in 1 .. i - 1 : j \in 1 .. Len(proposals)
    BY <2>1
  <2> QED BY <1>1, <1>2, <2>2 DEF IsFirst
<1> QED BY <1>1, <1>2

\* A proof is about one identity's nullifier of one proposal.
LEMMA ProofsExplainNullifiers ==
  ASSUME NEW x \in Proofs
  PROVE  x.nullifier \in Nullifier /\ x.nullifier[2] = x.proposal_id
<1>1. PICK secret \in Voters : Circuit(secret, x)
  BY DEF Proofs
<1>2. x.nullifier = <<secret, x.proposal_id>> /\ x.proposal_id \in Ids
  BY <1>1 DEF Circuit, Poseidon, Proofs, PublicInputs
<1> QED BY <1>2 DEF Nullifier

\* A vote that counts spends a fresh nullifier of its own proposal.
LEMMA VotableSpendsItsNullifier ==
  ASSUME NEW v \in Ballot, Votable(v)
  PROVE  /\ v.voter_hash \in Hash
         /\ v.voter_hash.nullifier[2] = v.proposal_id
         /\ Bytes(v.voter_hash) \in Hash \cup {Zero}
         /\ v.proposal_id \in Ids /\ v.approve \in BOOLEAN
         /\ \A k \in DOMAIN nullifiers : nullifiers[k] # Bytes(v.voter_hash)
<1>1. /\ v.proof \in Proofs /\ v.voter_hash \in Hash \cup {Zero}
      /\ v.proposal_id \in Ids /\ v.approve \in BOOLEAN
  BY DEF Ballot
<1>2. /\ v.proof.nullifier = Field(v.voter_hash)
      /\ v.proof.proposal_id = v.proposal_id
  BY DEF Votable, verify_zk_proof
<1>3. Field(v.voter_hash) \in Nullifier /\ Field(v.voter_hash)[2] = v.proposal_id
  BY <1>1, <1>2, ProofsExplainNullifiers
<1>4. v.voter_hash # Zero
  BY <1>3, ZeroAssumption DEF Field, Nullifier
<1>5. v.voter_hash \in Hash /\ v.voter_hash.nullifier[2] = v.proposal_id
  BY <1>1, <1>3, <1>4 DEF Field
<1>6. Bytes(v.voter_hash) \in Hash \cup {Zero}
  BY <1>5 DEF Bytes
<1> QED BY <1>1, <1>5, <1>6 DEF Votable

\* The vote page casts a well-formed vote.
LEMMA VotePageCastsABallot ==
  ASSUME NEW id \in Ids, NEW approve \in BOOLEAN, HandleVoteRequest(id, approve)
  PROVE  \E v \in Ballot : CastVote(v)
<1> DEFINE hash == [nullifier |-> derive_nullifier(BuiltIn, id), form |-> "canonical"]
           v == [proposal_id |-> id, voter_hash |-> hash,
                 commitment |-> commitment(BuiltIn), approve |-> approve,
                 proof |-> generate_proof(BuiltIn, id, approve)]
<1>1. hash \in Hash
  BY BuiltInAssumption DEF Hash, Forms, Nullifier, derive_nullifier, Poseidon
<1>2. generate_proof(BuiltIn, id, approve) \in PublicInputs
  BY BuiltInAssumption DEF generate_proof, PublicInputs, Nullifier, derive_nullifier, Poseidon
<1>3. Circuit(BuiltIn, generate_proof(BuiltIn, id, approve))
  BY DEF Circuit, generate_proof, commitment, derive_nullifier
<1>4. generate_proof(BuiltIn, id, approve) \in Proofs
  BY <1>2, <1>3, BuiltInAssumption DEF Proofs
<1>5. v \in Ballot
  BY <1>1, <1>4, BuiltInAssumption DEF Ballot
<1>6. CastVote(v)
  BY DEF HandleVoteRequest
<1> QED BY <1>5, <1>6

---------------------------------------------------------------------------

LEMMA InitHolds == GovInit => GovInv
<1> SUFFICES ASSUME GovInit PROVE GovInv
  OBVIOUS
<1>1. GovTypeOK
  BY BoundAssumption, EmptySeq DEF GovInit, GovTypeOK
<1>2. OneVoteEachInv /\ MovedByVoteInv
  BY DEF GovInit, OneVoteEachInv, MovedByVoteInv
<1> QED BY <1>1, <1>2 DEF GovInv

\* A new proposal is open and comes last, behind any other of its id.
LEMMA SubmitKeeps ==
  ASSUME GovInv, NEW id \in Ids, SubmitProposal(id)
  PROVE  GovInv'
<1> DEFINE new == [id |-> id, status |-> "Active", release |-> 0]
<1>1. proposals \in Seq(Proposal) /\ new \in Proposal
  BY DEF GovInv, GovTypeOK, Proposal
<1>2. /\ proposals' \in Seq(Proposal)
      /\ Len(proposals') = Len(proposals) + 1
      /\ \A i \in 1 .. Len(proposals) : proposals'[i] = proposals[i]
      /\ proposals'[Len(proposals) + 1] = new
      /\ Len(proposals) \in Nat
  BY <1>1, AppendProperties, LenProperties DEF SubmitProposal
<1>3. GovTypeOK'
  BY <1>2 DEF GovInv, GovTypeOK, SubmitProposal
<1>4. OneVoteEachInv'
  BY DEF GovInv, OneVoteEachInv, SubmitProposal
<1>5. ASSUME NEW i \in 1 .. Len(proposals'), proposals'[i].status # "Active"
      PROVE  /\ IsFirst(i)'
             /\ \E k \in 1 .. Len(votes') : votes'[k].proposal_id = proposals'[i].id
             /\ proposals'[i].status = "Timelocked" =>
                   proposals'[i].release = votedAt'[proposals'[i].id] + Timelock
  <2>1. i \in 1 .. Len(proposals)
    BY <1>2, <1>5
  <2>2. proposals'[i] = proposals[i] /\ IsFirst(i)
    BY <1>2, <1>5, <2>1 DEF GovInv, MovedByVoteInv
  <2>3. \A j \in 1 .. i - 1 : j \in 1 .. Len(proposals)
    BY <1>2, <2>1
  <2>4. IsFirst(i)'
    BY <1>2, <2>2, <2>3 DEF IsFirst
  <2> QED BY <2>1, <2>2, <2>4, <1>5 DEF GovInv, MovedByVoteInv, SubmitProposal
<1> QED BY <1>3, <1>4, <1>5 DEF GovInv, MovedByVoteInv

\* A counted vote spends a fresh nullifier and restarts the timelock of the
\* first proposal of its id.
LEMMA CastKeeps ==
  ASSUME GovInv, NEW v \in Ballot, CastVote(v)
  PROVE  GovInv'
<1> DEFINE id == v.proposal_id
           spent == Bytes(v.voter_hash)
           counted == [proposal_id |-> id, voter_hash |-> v.voter_hash,
                       approve |-> v.approve]
<1>1. /\ v.voter_hash \in Hash
      /\ v.voter_hash.nullifier[2] = id
      /\ spent \in Hash \cup {Zero}
      /\ id \in Ids /\ v.approve \in BOOLEAN
      /\ \A k \in DOMAIN nullifiers : nullifiers[k] # spent
  BY VotableSpendsItsNullifier DEF CastVote
<1>2. now \in Nat /\ Timelock \in Nat /\ now + Timelock \in Nat
  BY TimelockAssumption DEF GovInv, GovTypeOK
<1>3. proposals' = Restated(id, "Timelocked", now + Timelock)
  BY DEF CastVote, queue_execution
<1>4. /\ proposals' \in Seq(Proposal)
      /\ Len(proposals') = Len(proposals)
      /\ \A i \in 1 .. Len(proposals) :
            proposals'[i] = IF proposals[i].id = id /\ IsFirst(i)
                            THEN [id |-> id, status |-> "Timelocked",
                                  release |-> now + Timelock]
                            ELSE proposals[i]
  BY <1>1, <1>2, <1>3, RestatedShape DEF GovInv
<1>5. /\ votes \in Seq(Counted) /\ counted \in Counted /\ votes' = Append(votes, counted)
      /\ nullifiers \in Seq(Hash \cup {Zero})
      /\ nullifiers' = Append(nullifiers, spent)
  BY <1>1 DEF CastVote, GovInv, GovTypeOK, Counted
<1>6. /\ votes' \in Seq(Counted) /\ Len(votes') = Len(votes) + 1
      /\ \A k \in 1 .. Len(votes) : votes'[k] = votes[k]
      /\ votes'[Len(votes) + 1] = counted
      /\ Len(votes) \in Nat
  BY <1>5, AppendProperties, LenProperties
<1>7. /\ nullifiers' \in Seq(Hash \cup {Zero})
      /\ Len(nullifiers') = Len(nullifiers) + 1
      /\ \A k \in 1 .. Len(nullifiers) : nullifiers'[k] = nullifiers[k]
      /\ nullifiers'[Len(nullifiers) + 1] = spent
      /\ Len(nullifiers) \in Nat /\ DOMAIN nullifiers = 1 .. Len(nullifiers)
  BY <1>1, <1>5, AppendProperties, LenProperties
<1>8. /\ votedAt' \in [Ids -> Nat] /\ votedAt'[id] = now
      /\ \A o \in Ids : o # id => votedAt'[o] = votedAt[o]
      /\ now' = now
  BY <1>1, <1>2 DEF CastVote, GovInv, GovTypeOK
<1>9. GovTypeOK'
  BY <1>2, <1>4, <1>6, <1>7, <1>8 DEF GovTypeOK
<1> HIDE DEF id
<1>10. OneVoteEachInv'
  <2>1. Len(votes') = Len(nullifiers')
    BY <1>6, <1>7 DEF GovInv, OneVoteEachInv
  <2>2. ASSUME NEW k \in 1 .. Len(votes')
        PROVE  /\ nullifiers'[k] = Bytes(votes'[k].voter_hash)
               /\ votes'[k].voter_hash.nullifier[2] = votes'[k].proposal_id
    <3>1. CASE k = Len(votes) + 1
      BY <3>1, <1>1, <1>6, <1>7 DEF GovInv, OneVoteEachInv
    <3>2. CASE k # Len(votes) + 1
      <4>1. k \in 1 .. Len(votes) /\ k \in 1 .. Len(nullifiers)
        BY <3>2, <1>6 DEF GovInv, OneVoteEachInv
      <4> QED BY <4>1, <1>6, <1>7 DEF GovInv, OneVoteEachInv
    <3> QED BY <3>1, <3>2
  <2>3. ASSUME NEW k \in 1 .. Len(nullifiers'), NEW l \in 1 .. Len(nullifiers'),
               nullifiers'[k] = nullifiers'[l]
        PROVE  k = l
    <3>1. \A m \in 1 .. Len(nullifiers') :
             m # Len(nullifiers) + 1 => m \in 1 .. Len(nullifiers)
      BY <1>7
    <3>2. \A m \in 1 .. Len(nullifiers) : nullifiers'[m] # spent
      BY <1>1, <1>7
    <3>3. k \in 1 .. Len(nullifiers) <=> l \in 1 .. Len(nullifiers)
      BY <2>3, <3>1, <3>2, <1>7
    <3>4. CASE k \in 1 .. Len(nullifiers)
      <4>1. nullifiers[k] = nullifiers[l]
        BY <2>3, <3>3, <3>4, <1>7
      <4> QED BY <4>1, <3>3, <3>4 DEF GovInv, OneVoteEachInv
    <3> QED BY <3>1, <3>3, <3>4
  <2> QED BY <2>1, <2>2, <2>3 DEF OneVoteEachInv
<1>11. ASSUME NEW i \in 1 .. Len(proposals'), proposals'[i].status # "Active"
       PROVE  /\ IsFirst(i)'
              /\ \E k \in 1 .. Len(votes') : votes'[k].proposal_id = proposals'[i].id
              /\ proposals'[i].status = "Timelocked" =>
                    proposals'[i].release = votedAt'[proposals'[i].id] + Timelock
  <2>0. i \in 1 .. Len(proposals) /\ proposals \in Seq(Proposal)
    BY <1>4 DEF GovInv, GovTypeOK
  <2>1. i \in 1 .. Len(proposals) /\ proposals[i] \in Proposal /\ proposals[i].id \in Ids
    <3>1. proposals[i] \in Proposal
      BY <2>0, ElementOfSeq
    <3> QED BY <2>0, <3>1 DEF Proposal
  <2>2. proposals'[i].id = proposals[i].id /\ (IsFirst(i) => IsFirst(i)')
    BY <1>1, <1>2, <1>3, <2>1, RestatedKeepsIds DEF GovInv
  <2>3. CASE proposals[i].id = id /\ IsFirst(i)
    <3>1. proposals'[i] = [id |-> id, status |-> "Timelocked", release |-> now + Timelock]
      BY <1>4, <2>1, <2>3
    <3>2. proposals'[i].id = id /\ proposals'[i].release = now + Timelock
      BY <3>1
    <3>3. /\ Len(votes) + 1 \in 1 .. Len(votes')
          /\ votes'[Len(votes) + 1].proposal_id = proposals'[i].id
      BY <1>6, <3>2
    <3>4. proposals'[i].release = votedAt'[proposals'[i].id] + Timelock
      BY <1>8, <3>2
    <3> QED BY <3>3, <3>4, <2>2, <2>3
  <2>4. CASE ~(proposals[i].id = id /\ IsFirst(i))
    <3>1. proposals'[i] = proposals[i]
      BY <1>4, <2>1, <2>4
    <3>2. IsFirst(i) /\ proposals[i].id # id
      BY <3>1, <1>11, <2>1, <2>4 DEF GovInv, MovedByVoteInv
    <3>3. PICK k \in 1 .. Len(votes) : votes[k].proposal_id = proposals[i].id
      BY <3>1, <1>11, <2>1 DEF GovInv, MovedByVoteInv
    <3>4. k \in 1 .. Len(votes') /\ votes'[k].proposal_id = proposals'[i].id
      BY <3>1, <3>3, <1>6
    <3>5. votedAt'[proposals[i].id] = votedAt[proposals[i].id]
      BY <3>2, <2>1, <1>8
    <3> QED BY <3>1, <3>2, <3>4, <3>5, <2>1, <2>2, <1>11 DEF GovInv, MovedByVoteInv
  <2> QED BY <2>3, <2>4
<1> QED BY <1>9, <1>10, <1>11 DEF GovInv, MovedByVoteInv

\* An execution moves the proposal a vote had put under the timelock.
LEMMA ExecuteKeeps ==
  ASSUME GovInv, NEW id \in Ids, ExecuteProposal(id)
  PROVE  GovInv'
<1>1. proposals' = Restated(id, "Executed", 0)
  BY DEF ExecuteProposal
<1>2. /\ proposals' \in Seq(Proposal)
      /\ Len(proposals') = Len(proposals)
      /\ \A i \in 1 .. Len(proposals) :
            proposals'[i] = IF proposals[i].id = id /\ IsFirst(i)
                            THEN [id |-> id, status |-> "Executed", release |-> 0]
                            ELSE proposals[i]
  BY <1>1, RestatedShape DEF GovInv
<1>3. GovTypeOK'
  BY <1>2 DEF GovInv, GovTypeOK, ExecuteProposal
<1>4. OneVoteEachInv'
  BY DEF GovInv, OneVoteEachInv, ExecuteProposal
<1>5. PICK f \in DOMAIN proposals : /\ proposals[f].id = id /\ IsFirst(f)
                                    /\ proposals[f].status = "Timelocked"
  BY DEF ExecuteProposal
<1>6. f \in 1 .. Len(proposals)
  BY <1>5, LenProperties DEF GovInv, GovTypeOK
<1>7. ASSUME NEW i \in 1 .. Len(proposals'), proposals'[i].status # "Active"
      PROVE  /\ IsFirst(i)'
             /\ \E k \in 1 .. Len(votes') : votes'[k].proposal_id = proposals'[i].id
             /\ proposals'[i].status = "Timelocked" =>
                   proposals'[i].release = votedAt'[proposals'[i].id] + Timelock
  <2>1. i \in 1 .. Len(proposals)
    BY <1>2, <1>7
  <2>2. proposals'[i].id = proposals[i].id /\ (IsFirst(i) => IsFirst(i)')
    BY <1>1, <2>1, RestatedKeepsIds DEF GovInv
  <2>3. proposals[i].status # "Active"
    <3>1. CASE proposals[i].id = id /\ IsFirst(i)
      <4>1. i = f
        BY <3>1, <1>5, <1>6, <2>1, FirstIsUnique DEF GovInv
      <4> QED BY <4>1, <1>5
    <3>2. CASE ~(proposals[i].id = id /\ IsFirst(i))
      BY <3>2, <1>2, <1>7, <2>1
    <3> QED BY <3>1, <3>2
  <2>4. /\ IsFirst(i)
        /\ \E k \in 1 .. Len(votes) : votes[k].proposal_id = proposals[i].id
        /\ proposals[i].status = "Timelocked" =>
              proposals[i].release = votedAt[proposals[i].id] + Timelock
    BY <2>1, <2>3 DEF GovInv, MovedByVoteInv
  <2>5. votes' = votes /\ votedAt' = votedAt
    BY DEF ExecuteProposal
  <2>6. proposals'[i].status = "Timelocked" => proposals'[i] = proposals[i]
    BY <1>2, <2>1
  <2> QED BY <2>2, <2>4, <2>5, <2>6
<1> QED BY <1>3, <1>4, <1>7 DEF GovInv, MovedByVoteInv

LEMMA ClockKeeps ==
  ASSUME GovInv, ClockMoves \/ UNCHANGED govVars
  PROVE  GovInv'
<1>1. GovTypeOK'
  BY BoundAssumption DEF GovInv, GovTypeOK, ClockMoves, govVars
<1>2. OneVoteEachInv'
  BY DEF GovInv, OneVoteEachInv, ClockMoves, govVars
<1>3. MovedByVoteInv'
  BY DEF GovInv, MovedByVoteInv, IsFirst, ClockMoves, govVars
<1> QED BY <1>1, <1>2, <1>3 DEF GovInv

LEMMA StepHolds == GovInv /\ [GovNext]_govVars => GovInv'
<1> SUFFICES ASSUME GovInv, [GovNext]_govVars PROVE GovInv'
  OBVIOUS
<1>1. CASE \E id \in Ids : SubmitProposal(id)
  BY <1>1, SubmitKeeps
<1>2. CASE \E id \in Ids : ExecuteProposal(id)
  BY <1>2, ExecuteKeeps
<1>3. CASE \E id \in Ids, approve \in BOOLEAN : HandleVoteRequest(id, approve)
  BY <1>3, VotePageCastsABallot, CastKeeps
<1>4. CASE \E v \in Ballot : CastVote(v)
  BY <1>4, CastKeeps
<1>5. CASE ClockMoves \/ UNCHANGED govVars
  BY <1>5, ClockKeeps
<1> QED BY <1>1, <1>2, <1>3, <1>4, <1>5 DEF GovNext

LEMMA InvariantHolds == GovSpec => []GovInv
BY InitHolds, StepHolds, PTL DEF GovSpec

\* The engine's vectors keep their shapes (GovernanceEngine, Vote, Proposal).
THEOREM EngineIsTyped == GovSpec => []GovTypeOK
<1>1. GovInv => GovTypeOK
  BY DEF GovInv
<1> QED BY <1>1, InvariantHolds, PTL

\* No nullifier is spent twice and each is its vote's own, so no identity has two
\* counted votes on an id that write its nullifier alike (cast_vote).
THEOREM OneVoteEach == GovSpec => []OneVoteEachInv
<1>1. GovInv => OneVoteEachInv
  BY DEF GovInv
<1> QED BY <1>1, InvariantHolds, PTL

\* Only the first proposal of an id leaves Active, moved by a counted vote
\* whose time fixes its release (queue_execution).
THEOREM MovedByVote == GovSpec => []MovedByVoteInv
<1>1. GovInv => MovedByVoteInv
  BY DEF GovInv
<1> QED BY <1>1, InvariantHolds, PTL

---------------------------------------------------------------------------

\* What a step does to the status of a proposal that was there before it.
LEMMA StatusMoves ==
  ASSUME GovInv, [GovNext]_govVars, NEW i \in 1 .. Len(proposals)
  PROVE  \/ proposals'[i].status = proposals[i].status
         \/ /\ proposals'[i].status = "Timelocked"
            /\ IsActive(proposals[i].id)
         \/ /\ proposals'[i].status = "Executed"
            /\ proposals[i].status = "Timelocked"
            /\ now >= proposals[i].release
<1>1. ASSUME NEW id \in Ids, SubmitProposal(id)
      PROVE  proposals'[i].status = proposals[i].status
  <2>1. /\ proposals \in Seq(Proposal)
        /\ [id |-> id, status |-> "Active", release |-> 0] \in Proposal
    BY DEF GovInv, GovTypeOK, Proposal
  <2>2. proposals'[i] = proposals[i]
    BY <1>1, <2>1, AppendProperties DEF SubmitProposal
  <2> QED BY <2>2
<1>2. ASSUME NEW v \in Ballot, CastVote(v)
      PROVE  \/ proposals'[i].status = proposals[i].status
             \/ proposals'[i].status = "Timelocked" /\ IsActive(proposals[i].id)
  <2>1. now + Timelock \in Nat /\ v.proposal_id \in Ids
    BY <1>2, TimelockAssumption DEF GovInv, GovTypeOK, Ballot
  <2>2. proposals' = Restated(v.proposal_id, "Timelocked", now + Timelock)
    BY <1>2 DEF CastVote, queue_execution
  <2>3. proposals'[i] = IF proposals[i].id = v.proposal_id /\ IsFirst(i)
                        THEN [id |-> v.proposal_id, status |-> "Timelocked",
                              release |-> now + Timelock]
                        ELSE proposals[i]
    BY <2>1, <2>2, RestatedShape DEF GovInv
  <2>4. IsActive(v.proposal_id)
    BY <1>2 DEF CastVote, Votable
  <2> QED BY <2>3, <2>4
<1>3. ASSUME NEW id \in Ids, ExecuteProposal(id)
      PROVE  \/ proposals'[i].status = proposals[i].status
             \/ /\ proposals'[i].status = "Executed"
                /\ proposals[i].status = "Timelocked"
                /\ now >= proposals[i].release
  <2>1. PICK f \in DOMAIN proposals : /\ proposals[f].id = id /\ IsFirst(f)
                                      /\ proposals[f].status = "Timelocked"
                                      /\ now >= proposals[f].release
    BY <1>3 DEF ExecuteProposal
  <2>2. f \in 1 .. Len(proposals)
    BY <2>1, LenProperties DEF GovInv, GovTypeOK
  <2>3. proposals'[i] = IF proposals[i].id = id /\ IsFirst(i)
                        THEN [id |-> id, status |-> "Executed", release |-> 0]
                        ELSE proposals[i]
    BY <1>3, RestatedShape DEF GovInv, ExecuteProposal
  <2>4. CASE proposals[i].id = id /\ IsFirst(i)
    <3>1. i = f
      BY <2>1, <2>2, <2>4, FirstIsUnique DEF GovInv
    <3> QED BY <3>1, <2>1, <2>3, <2>4
  <2> QED BY <2>3, <2>4
<1>4. ASSUME ClockMoves \/ UNCHANGED govVars
      PROVE  proposals'[i].status = proposals[i].status
  BY <1>4 DEF ClockMoves, govVars
<1>5. CASE \E id \in Ids, approve \in BOOLEAN : HandleVoteRequest(id, approve)
  BY <1>2, <1>5, VotePageCastsABallot
<1> QED BY <1>1, <1>2, <1>3, <1>4, <1>5 DEF GovNext

\* No execution within the timelock of the last counted vote on the id
\* (execute_proposal against queue_execution).
THEOREM DelayIsKept == GovSpec => ExecutesAfterDelay
<1> DEFINE Kept == \A i \in 1 .. Len(proposals) :
                     /\ proposals[i].status # "Executed"
                     /\ proposals'[i].status = "Executed"
                     => now >= votedAt[proposals[i].id] + Timelock
<1>1. GovInv /\ [GovNext]_govVars => [Kept]_govVars
  <2> SUFFICES ASSUME GovInv, [GovNext]_govVars, NEW i \in 1 .. Len(proposals),
                      proposals[i].status # "Executed", proposals'[i].status = "Executed"
               PROVE  now >= votedAt[proposals[i].id] + Timelock
    OBVIOUS
  <2>1. proposals[i].status = "Timelocked" /\ now >= proposals[i].release
    BY StatusMoves
  <2>2. proposals[i].release = votedAt[proposals[i].id] + Timelock
    BY <2>1 DEF GovInv, MovedByVoteInv
  <2> QED BY <2>1, <2>2
<1> QED BY <1>1, InvariantHolds, PTL DEF GovSpec, ExecutesAfterDelay

\* An executed proposal whose id is not submitted again stays executed
\* (cast_vote looks for an Active proposal of the id before it queues).
THEOREM ExecutionIsFinal == GovSpec => ExecutedIsFinal
<1> DEFINE Final == \A i \in 1 .. Len(proposals) :
                      /\ proposals[i].status = "Executed"
                      /\ \A j \in 1 .. Len(proposals) :
                            proposals[j].id = proposals[i].id => j = i
                      => proposals'[i].status = "Executed"
<1>1. GovInv /\ [GovNext]_govVars => [Final]_govVars
  <2> SUFFICES ASSUME GovInv, [GovNext]_govVars, NEW i \in 1 .. Len(proposals),
                      proposals[i].status = "Executed",
                      \A j \in 1 .. Len(proposals) :
                         proposals[j].id = proposals[i].id => j = i
               PROVE  proposals'[i].status = "Executed"
    OBVIOUS
  <2>1. DOMAIN proposals = 1 .. Len(proposals)
    BY LenProperties DEF GovInv, GovTypeOK
  <2>2. ~IsActive(proposals[i].id)
    BY <2>1 DEF IsActive
  <2> QED BY <2>2, StatusMoves
<1> QED BY <1>1, InvariantHolds, PTL DEF GovSpec, ExecutedIsFinal
=============================================================================
