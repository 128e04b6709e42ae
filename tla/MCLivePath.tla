------------------------------ MODULE MCLivePath ------------------------------
(* A small instance of LivePath: transfers of different kinds in its blocks. *)
EXTENDS LivePath

CONSTANT Alice

Transfer(k, f, t, v) == [key |-> k, from |-> f, to |-> t, value |-> v]

MCUsers == {Alice}

MCMined ==
    [b \in EventBlocks |-> IF b = 1 THEN Transfer("mint", Zero, Alice, 3)
                                    ELSE Transfer("burn", Alice, Zero, 1)]

MCTransfers == {MCMined[b] : b \in EventBlocks}
=============================================================================
