---------------------------- MODULE ValidatorSets ----------------------------
(***************************************************************************)
(* Validator sets, commits, and the pure functions CometMock applies to    *)
(* them: validateValidatorUpdates and UpdateState (abci_client/client.go)  *)
(* and BuildExtendedCommitInfo and BuildLastCommitInfo (utils/state.go).   *)
(*                                                                         *)
(* A validator set is a record of the voting powers, 0 for an address that *)
(* is not in the set, and the proposer.  CometBFT keeps the members as a   *)
(* list sorted by power and then by address; Position is the place in that *)
(* list, for the code that looks at it.  How CometBFT rotates proposer       *)
(* priorities is left open: any member may be the next proposer.           *)
(***************************************************************************)
EXTENDS Integers, FiniteSets, Sequences, Functions

CONSTANTS Addresses,   \* validator addresses, ordered as numbers
          NoAddress,   \* the nil proposer of an empty validator set
          NoUpdate     \* what a response leaves as it is

ASSUME AddressesAreOrdered == /\ Addresses \subseteq Nat /\ IsFiniteSet(Addresses)
                              /\ NoAddress \notin Addresses

Powers == [Addresses -> Nat]
NoPower == [a \in Addresses |-> 0]
Members(power) == {a \in Addresses : power[a] > 0}

ValidatorSet == [power : Powers, proposer : Addresses \cup {NoAddress}]
EmptyValidatorSet == [power |-> NoPower, proposer |-> NoAddress]

(* The answers to FinalizeBlock: power 0 removes a validator.              *)
Response == [updates : [Addresses -> Int \cup {NoUpdate}], params : Int \cup {NoUpdate}]

(* types.NewValidatorSet and ValidatorSet.IncrementProposerPriority.       *)
WithProposer(power) == {[power |-> power, proposer |-> p] : p \in Members(power)}

(* ValidatorSet.Validators: by decreasing power, then by address.          *)
Position(power, a) ==
  Cardinality({b \in Members(power) : \/ power[b] > power[a]
                                      \/ power[b] = power[a] /\ b <= a})

(* VoteSet.AddVote: the quorum that makes a block hash the majority.       *)
TwoThirds(power, signed) ==
  SumFunctionOnSet(power, signed) >= ((2 * SumFunction(power)) \div 3) + 1

-----------------------------------------------------------------------------
Updated(updates) == {a \in Addresses : updates[a] # NoUpdate}
Removed(updates) == {a \in Updated(updates) : updates[a] = 0}

(* Faulty variant: negative powers pass.                                   *)
validateNothing(updates) == TRUE

validateValidatorUpdates(updates) == \A a \in Updated(updates) : updates[a] >= 0

(* ValidatorSet.UpdateWithChangeSet: only members are removed, and never   *)
(* all of them.                                                            *)
ChangeSetAllowed(power, updates) ==
  /\ Removed(updates) \subseteq Members(power)
  /\ (Members(power) \cup Updated(updates)) \ Removed(updates) # {}

UpdateWithChangeSet(power, updates) ==
  [a \in Addresses |-> IF a \in Updated(updates) THEN updates[a] ELSE power[a]]

(* ConsensusParams.ValidateBasic, for the one parameter the model keeps.   *)
ParamsValid(params) == params # NoUpdate => params >= 0

(* ABCIParams.VoteExtensionsEnabled.                                       *)
VoteExtensionsEnabled(enableHeight, height) ==
  enableHeight # 0 /\ enableHeight <= height

-----------------------------------------------------------------------------
(* A commit keeps the powers of the set that was asked to sign, because    *)
(* signature i belongs to position i of that set.                          *)
Commit == [height : Nat, hash : Nat, power : Powers,
           signed : SUBSET Addresses, extended : BOOLEAN]

EmptyCommit == [height |-> 0, hash |-> 0, power |-> NoPower, signed |-> {},
                extended |-> FALSE]

CommitSize(commit) == Cardinality(Members(commit.power))

(* BuildExtendedCommitInfo panics unless the commit has one signature per  *)
(* validator, every present signature is by the validator at its position, *)
(* and extensions are present exactly if they are enabled at its height.   *)
ExtendedCommitInfoPanics(commit, power, initialHeight, enableHeight) ==
  /\ commit.height >= initialHeight
  /\ \/ CommitSize(commit) # Cardinality(Members(power))
     \/ \E a \in commit.signed : \/ a \notin Members(power)
                                 \/ Position(commit.power, a) # Position(power, a)
     \/ /\ commit.signed # {}
        /\ commit.extended # VoteExtensionsEnabled(enableHeight, commit.height)

(* BuildLastCommitInfo panics unless the sizes agree.                      *)
LastCommitInfoPanics(height, commit, power, initialHeight) ==
  /\ height # initialHeight
  /\ CommitSize(commit) # Cardinality(Members(power))

(* The validators that BuildLastCommitInfo reports to the application as   *)
(* having signed: the flag of signature i goes to validator i of power.    *)
BuildLastCommitInfo(commit, power) ==
  {v \in Members(power) :
     \E a \in commit.signed : Position(commit.power, a) = Position(power, v)}
=============================================================================
