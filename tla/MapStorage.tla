----------------------------- MODULE MapStorage -----------------------------
(***************************************************************************)
(* The in-memory storage of storage/storage.go: four maps from heights to  *)
(* blocks, commits, states and FinalizeBlock responses, and the lock that  *)
(* the block pipeline takes around their update.  The getters take the     *)
(* lock for reading and release it before they return, so a getter is one  *)
(* step with the guard StoresReadable.                                     *)
(***************************************************************************)
EXTENDS Integers

CONSTANTS Free,     \* nobody holds the mutex
          Leaked    \* its holder is gone and will never release it

VARIABLES stateUpdateMutex, blocks, commits, states, responses

storageVars == <<stateUpdateMutex, blocks, commits, states, responses>>

StorageInit == /\ stateUpdateMutex = Free
               /\ blocks = <<>>
               /\ commits = <<>>
               /\ states = <<>>
               /\ responses = <<>>

(* Assignment to a key of a Go map.                                        *)
Insert(map, height, value) ==
  [h \in DOMAIN map \cup {height} |-> IF h = height THEN value ELSE map[h]]

StoresReadable == stateUpdateMutex = Free

(* Faulty variant: the lock is not waited for.                             *)
TakeOverLock(owner) == stateUpdateMutex' = owner

LockBeforeStateUpdate(owner) ==
  /\ stateUpdateMutex = Free
  /\ stateUpdateMutex' = owner

(* Faulty variants: the commit of the block below is stored, or the commit *)
(* is stored for the block below.                                          *)
UpdateStoresLastCommit(height, block, commit, state, response) ==
  /\ blocks' = Insert(blocks, height, block)
  /\ commits' = Insert(commits, height, block.lastCommit)
  /\ states' = Insert(states, height, state)
  /\ responses' = Insert(responses, height, response)

UpdateStoresShifted(height, block, commit, state, response) ==
  /\ blocks' = Insert(blocks, height, block)
  /\ commits' = Insert(commits, height - 1, commit)
  /\ states' = Insert(states, height, state)
  /\ responses' = Insert(responses, height, response)

UpdateStores(height, block, commit, state, response) ==
  /\ blocks' = Insert(blocks, height, block)
  /\ commits' = Insert(commits, height, commit)
  /\ states' = Insert(states, height, state)
  /\ responses' = Insert(responses, height, response)

(* Faulty variant: the lock is kept.                                       *)
KeepLock == UNCHANGED storageVars

UnlockAfterStateUpdate ==
  /\ stateUpdateMutex' = Free
  /\ UNCHANGED <<blocks, commits, states, responses>>
=============================================================================
