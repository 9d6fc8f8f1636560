------------------------------ MODULE MCMiner -------------------------------
(* Small instances of Miner for TLC.                                       *)
EXTENDS Miner

CONSTANTS t1, t2, t3

Txs == {t1, t2, t3}
=============================================================================
