------------------------- MODULE MCUnconfirmedPool -------------------------
(***************************************************************************)
(* Small instances of UnconfirmedPool for TLC.  Alice can pay for either   *)
(* of her transactions but not for both; Bob's depends on a reference, so  *)
(* it carries a deposit.                                                   *)
(***************************************************************************)
EXTENDS UnconfirmedPool, TLC

CONSTANTS alice, bob, t1, t2, t3, key

MCAccount == {alice, bob}
MCInitialBalance == alice :> 6 @@ bob :> 3
MCTx == {t1, t2, t3}
MCSender == t1 :> alice @@ t2 :> alice @@ t3 :> bob
MCRecipient == t1 :> bob @@ t2 :> bob @@ t3 :> alice
MCAmount == t1 :> 3 @@ t2 :> 4 @@ t3 :> 1
MCFee == [t \in MCTx |-> 1]
MCDeposit == t1 :> 0 @@ t2 :> 0 @@ t3 :> 1
MCDuplicateKey == t1 :> key @@ t2 :> NoKey @@ t3 :> key
=============================================================================
