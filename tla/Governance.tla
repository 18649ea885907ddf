----------------------------- MODULE Governance -----------------------------
(* The governance engine: proposals, anonymous votes that spend a           *)
(* nullifier, the 48 h timelock a vote starts and the execution after it.   *)
(* Mirrors governance/src/lib.rs and the vote page of core/src/lib.rs.      *)
(*                                                                          *)
(* Cryptography is ideal: the Poseidon hash is injective and never zero,    *)
(* and a proof verifies exactly for the public inputs it was generated for. *)
(* A secret is the field element its bytes are reduced to.                  *)
EXTENDS Integers, Sequences

CONSTANTS Ids,          \* proposal ids (u64)
          Voters,       \* the secrets of the identities that vote
          BuiltIn,      \* the secret of the identity the vote page uses
          Zero,         \* [0u8; 32]
          Timelock,     \* 172800 s in the code
          MaxProposals, \* bound on the proposals submitted
          MaxVotes,     \* bound on the votes counted
          MaxClock      \* bound on the wall clock

ASSUME TimelockAssumption == Timelock \in Nat \ {0}
ASSUME BuiltInAssumption == BuiltIn \in Voters
ASSUME ZeroAssumption == Zero \notin Voters \X Ids
ASSUME BoundAssumption == MaxProposals \in Nat /\ MaxVotes \in Nat /\ MaxClock \in Nat

VARIABLES proposals,   \* Vec<(Proposal, ProposalStatus)>
          votes,       \* Vec<Vote>
          nullifiers,  \* Vec<[u8; 32]>
          now,         \* SystemTime::now()
          votedAt      \* history: when the last vote on an id was counted

govVars == <<proposals, votes, nullifiers, now, votedAt>>

(* A commitment or a nullifier is the list of what was hashed.              *)
Poseidon(inputs) == inputs
Nullifier == Voters \X Ids

(* How a voter_hash writes its nullifier: as the engine itself does, as     *)
(* another 32 bytes that reduce to it, or in more than 32 bytes.            *)
Forms == {"canonical", "unreduced", "overlong"}
Hash  == [nullifier : Nullifier, form : Forms]

(* What a voter_hash is remembered as, and what it is verified as; one that *)
(* is no hexadecimal number is Zero both times.                             *)
Bytes(h) == IF h = Zero \/ h.form = "overlong" THEN Zero ELSE h
Field(h) == IF h = Zero THEN Zero ELSE h.nullifier

(* A status is "Timelocked" until release; Pending, Passed and Failed are   *)
(* never assigned by the code.                                              *)
Proposal == [id : Ids, status : {"Active", "Timelocked", "Executed"}, release : Nat]
Counted  == [proposal_id : Ids, voter_hash : Hash, approve : BOOLEAN]

commitment(secret) == Poseidon(<<secret>>)

derive_nullifier(secret, id) == Poseidon(<<secret, id>>)

(* SentinelVoteCircuit: what the secret must explain; the choice is public  *)
(* and otherwise free.                                                      *)
Circuit(secret, x) == /\ x.commitment = Poseidon(<<secret>>)
                      /\ x.nullifier = Poseidon(<<secret, x.proposal_id>>)

PublicInputs == [commitment : {commitment(s) : s \in Voters}, proposal_id : Ids,
                 nullifier : Nullifier, signal : BOOLEAN]

(* A proof is what it proves; there is none of anything else.               *)
Proofs == {x \in PublicInputs : \E secret \in Voters : Circuit(secret, x)}

generate_proof(secret, id, approve) ==
    [commitment |-> commitment(secret), proposal_id |-> id,
     nullifier |-> derive_nullifier(secret, id), signal |-> approve]

Ballot == [proposal_id : Ids, voter_hash : Hash \cup {Zero},
           commitment : {commitment(s) : s \in Voters}, approve : BOOLEAN,
           proof : Proofs]

verify_zk_proof(v) ==
    v.proof = [commitment |-> v.commitment, proposal_id |-> v.proposal_id,
               nullifier |-> Field(v.voter_hash), signal |-> v.approve]

---------------------------------------------------------------------------

GovInit == /\ proposals = <<>> /\ votes = <<>> /\ nullifiers = <<>>
           /\ now \in 0 .. MaxClock
           /\ votedAt = [id \in Ids |-> 0]

IsActive(id) ==
    \E i \in DOMAIN proposals : /\ proposals[i].id = id
                                /\ proposals[i].status = "Active"

(* proposals.iter().find(id): where ids repeat, the earliest.               *)
IsFirst(i) == \A j \in 1 .. i - 1 : proposals[j].id # proposals[i].id

Restated(id, status, release) ==
    [i \in 1 .. Len(proposals) |->
        IF proposals[i].id = id /\ IsFirst(i)
        THEN [id |-> id, status |-> status, release |-> release]
        ELSE proposals[i]]

SubmitProposal(id) ==
    /\ Len(proposals) < MaxProposals
    /\ proposals' = Append(proposals, [id |-> id, status |-> "Active", release |-> 0])
    /\ UNCHANGED <<votes, nullifiers, now, votedAt>>

(* mutant: only the proposal that is still open is put under the timelock *)
QueueOnce(id) ==
    proposals' = [i \in 1 .. Len(proposals) |->
        IF proposals[i].id = id /\ IsFirst(i) /\ proposals[i].status = "Active"
        THEN [id |-> id, status |-> "Timelocked", release |-> now + Timelock]
        ELSE proposals[i]]

(* mutant: the open one among the proposals with the id, not the first *)
QueueOpen(id) ==
    proposals' = [i \in 1 .. Len(proposals) |->
        IF proposals[i].id = id /\ proposals[i].status = "Active"
        THEN [id |-> id, status |-> "Timelocked", release |-> now + Timelock]
        ELSE proposals[i]]

queue_execution(id) ==
    proposals' = Restated(id, "Timelocked", now + Timelock)

(* mutant: a vote is accepted for any known proposal *)
VotableIfKnown(v) == /\ \E i \in DOMAIN proposals : proposals[i].id = v.proposal_id
                     /\ \A k \in DOMAIN nullifiers : nullifiers[k] # Bytes(v.voter_hash)
                     /\ verify_zk_proof(v)

(* mutant: spent nullifiers are not looked up *)
VotableAgain(v) == IsActive(v.proposal_id) /\ verify_zk_proof(v)

(* mutant: the proof is not checked against what the vote says *)
VotableUnverified(v) == /\ IsActive(v.proposal_id)
                        /\ \A k \in DOMAIN nullifiers : nullifiers[k] # Bytes(v.voter_hash)

Votable(v) == /\ IsActive(v.proposal_id)
              /\ \A k \in DOMAIN nullifiers : nullifiers[k] # Bytes(v.voter_hash)
              /\ verify_zk_proof(v)

(* Any other vote returns false and changes nothing.                        *)
CastVote(v) ==
    /\ Len(votes) < MaxVotes
    /\ Votable(v)
    /\ nullifiers' = Append(nullifiers, Bytes(v.voter_hash))
    /\ votes' = Append(votes, [proposal_id |-> v.proposal_id,
                               voter_hash |-> v.voter_hash, approve |-> v.approve])
    /\ queue_execution(v.proposal_id)
    /\ votedAt' = [votedAt EXCEPT ![v.proposal_id] = now]
    /\ UNCHANGED now

ExecuteProposal(id) ==
    /\ \E i \in DOMAIN proposals :
          /\ proposals[i].id = id /\ IsFirst(i)
          /\ proposals[i].status = "Timelocked"
          /\ now >= proposals[i].release
    /\ proposals' = Restated(id, "Executed", 0)
    /\ UNCHANGED <<votes, nullifiers, now, votedAt>>

(* The wall clock runs, or is set, forwards or backwards.                   *)
ClockMoves == /\ now' \in 0 .. MaxClock
              /\ UNCHANGED <<proposals, votes, nullifiers, votedAt>>

(* The vote page: the built-in identity votes with a proof of its own; id 0  *)
(* (which is also what an unreadable id parses to) is refused.              *)
HandleVoteRequest(id, approve) ==
    /\ id # 0
    /\ CastVote([proposal_id |-> id,
                 voter_hash |-> [nullifier |-> derive_nullifier(BuiltIn, id),
                                 form |-> "canonical"],
                 commitment |-> commitment(BuiltIn), approve |-> approve,
                 proof |-> generate_proof(BuiltIn, id, approve)])

GovNext == \/ \E id \in Ids : SubmitProposal(id) \/ ExecuteProposal(id)
           \/ \E id \in Ids, approve \in BOOLEAN : HandleVoteRequest(id, approve)
           \/ \E v \in Ballot : CastVote(v)
           \/ ClockMoves

GovSpec == GovInit /\ [][GovNext]_govVars

---------------------------------------------------------------------------

(* The shapes of the engine's vectors, and a clock that never goes below 0. *)
GovTypeOK ==
    /\ proposals \in Seq(Proposal) /\ votes \in Seq(Counted)
    /\ nullifiers \in Seq(Hash \cup {Zero})
    /\ now \in Nat /\ votedAt \in [Ids -> Nat]

(* The spent nullifiers are exactly those of the counted votes, each spent  *)
(* on the proposal it was derived for, and none twice: no identity has two  *)
(* counted votes on an id that write its nullifier the same way.  (Written  *)
(* another way it counts as another one, see Forms.)  The code relates the  *)
(* two vectors only by pushing to both in cast_vote.                        *)
OneVoteEachInv ==
    /\ Len(votes) = Len(nullifiers)
    /\ \A k \in 1 .. Len(votes) :
          /\ nullifiers[k] = Bytes(votes[k].voter_hash)
          /\ votes[k].voter_hash.nullifier[2] = votes[k].proposal_id
    /\ \A k, l \in 1 .. Len(nullifiers) : nullifiers[k] = nullifiers[l] => k = l

(* Where ids repeat, only the first proposal of an id ever leaves Active;   *)
(* and it left because a vote on its id was counted, whose time plus the    *)
(* timelock is the release time it shows.                                   *)
MovedByVoteInv ==
    \A i \in 1 .. Len(proposals) : proposals[i].status # "Active" =>
        /\ IsFirst(i)
        /\ \E k \in 1 .. Len(votes) : votes[k].proposal_id = proposals[i].id
        /\ proposals[i].status = "Timelocked" =>
              proposals[i].release = votedAt[proposals[i].id] + Timelock

(* No proposal is executed within the timelock of the last vote counted on  *)
(* its id, however the votes, the repeated ids and the clock interleave.    *)
ExecutesAfterDelay ==
    [][\A i \in 1 .. Len(proposals) :
          /\ proposals[i].status # "Executed"
          /\ proposals'[i].status = "Executed"
          => now >= votedAt[proposals[i].id] + Timelock]_govVars

(* An executed proposal stays executed, so it executes once, as long as its *)
(* id was submitted once (a second submission reopens the vote, and the     *)
(* vote puts the first one back under the timelock).                        *)
ExecutedIsFinal ==
    [][\A i \in 1 .. Len(proposals) :
          /\ proposals[i].status = "Executed"
          /\ \A j \in 1 .. Len(proposals) : proposals[j].id = proposals[i].id => j = i
          => proposals'[i].status = "Executed"]_govVars
=============================================================================
