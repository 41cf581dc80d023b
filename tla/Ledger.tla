------------------------------- MODULE Ledger -------------------------------
(***************************************************************************)
(* What CometMock promises to the users of its chain, without goroutines,  *)
(* locks, queues or failures: one chain of certified blocks that only      *)
(* grows, and applications that follow it, each always at a block of the   *)
(* chain and never going back.                                             *)
(***************************************************************************)
EXTENDS Integers

CONSTANTS Clients,           \* the applications
          Certified(_)       \* whether a block carries the signatures it needs

VARIABLES height,            \* of the newest block
          chain,             \* the blocks [hash, parent, commit] at 1..height
          committed          \* the [height, hash] of each application's last block

ledgerVars == <<height, chain, committed>>

Tip == [height |-> height, hash |-> IF height = 0 THEN 0 ELSE chain[height].hash]

Init == /\ height = 0
        /\ chain = <<>>
        /\ committed = [c \in Clients |-> Tip]

(* A block is put on top of the chain.                                     *)
Extend == /\ height' = height + 1
          /\ DOMAIN chain' = 1..height'
          /\ \A h \in 1..height : chain'[h] = chain[h]
          /\ chain'[height'].parent = Tip.hash
          /\ Certified(chain'[height'])
          /\ UNCHANGED committed

(* An application that is behind commits the newest block.                 *)
Commit(c) == /\ committed[c].height < height
             /\ committed' = [committed EXCEPT ![c] = Tip]
             /\ UNCHANGED <<height, chain>>

Next == Extend \/ \E c \in Clients : Commit(c)

Spec == Init /\ [][Next]_ledgerVars
=============================================================================
