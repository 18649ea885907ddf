SPECIFICATION GovSpec
CONSTANTS
  Ids = {0, 1}
  Voters = {v1, v2}
  BuiltIn = v1
  Zero = zero
  Timelock = 1
  MaxProposals = 3
  MaxClock = 2
  MaxVotes = 2
INVARIANTS GovTypeOK OneVoteEachInv MovedByVoteInv
PROPERTIES ExecutesAfterDelay ExecutedIsFinal
