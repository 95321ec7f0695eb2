--------------------------- MODULE MCEscrowClients ---------------------------
(* Instances of the escrow program with takes in flight, for TLC.          *)
EXTENDS EscrowClients

CONSTANTS alice, bob, gold, silver

CONSTANT Silver  \* what Bob owns of silver; Alice owns two gold

MCWealth ==
    [a \in Wallets \X Mints |->
        CASE a = <<alice, gold>> -> 2
          [] a = <<bob, silver>> -> Silver
          [] OTHER -> 0]

=============================================================================
