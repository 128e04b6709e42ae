--------------------------- MODULE MCEventPipeline ---------------------------
(* Small instances of EventPipeline: two users and a few transfers.          *)
EXTENDS EventPipeline

CONSTANTS Alice, Bob

Transfer(k, f, t, v) == [key |-> k, from |-> f, to |-> t, value |-> v]

MCUsers == {Alice, Bob}

Mint == Transfer("mint", Zero, Alice, 3)
Send == Transfer("send", Alice, Bob, 1)
Burn == Transfer("burn", Alice, Zero, 1)

MCMintSend == {Mint, Send}
MCMintBurn == {Mint, Burn}
=============================================================================
