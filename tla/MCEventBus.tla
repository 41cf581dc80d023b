----------------------------- MODULE MCEventBus -----------------------------
(* Values of the constants of EventBus for model checking.                 *)
EXTENDS EventBus, MCAbciClient

\* One connection, with a subscription to blocks and one to transactions.
OneAddr == [s \in Subscriptions |-> "addr"]
NewBlocks == [s \in Subscriptions |-> {"NewBlock"}]
TxsAndBlocks == [s \in Subscriptions |-> {"NewBlock", "Tx"}]
=============================================================================
