--------------------------- MODULE MC_BlizzardPoll ---------------------------
(***************************************************************************)
(* Values for the constants of BlizzardPoll that a .cfg cannot write.      *)
(***************************************************************************)
EXTENDS BlizzardPoll

CONSTANTS r1, r2

TwoClients == <<r1, r2>>

\* With batches of two: a full and a partial batch, then exactly one batch.
ListingsOfThreeAndTwo == <<3, 2>>

\* A listing without auctions opens its transaction after the stream.
ListingsOfThreeAndNone == <<3, 0>>

=============================================================================
