------------------------------- MODULE MCCompute ------------------------------
(* Chats are interchangeable; the tables of delays are short.                    *)
EXTENDS ComputeNode, TLC

MCBackoff == <<2, 3>>
MCRetryDelay == <<1, 2>>
ChatSymmetry == Permutations(Wakers)
=============================================================================
