------------------------------ MODULE MC_ChainConfig ------------------------------
(* The three networks, with every height up to 30 visited. *)
EXTENDS ChainConfig

CONSTANTS MainnetNet, TestnetNet, DevNet

MCNetworks == {MainnetNet, TestnetNet, DevNet}
=============================================================================
