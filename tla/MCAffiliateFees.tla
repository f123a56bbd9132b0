-------------------------- MODULE MCAffiliateFees --------------------------
(***************************************************************************)
(* An instance of AffiliateFees: two affiliates with a referee each; pages *)
(* hold two bets; one qualified referee makes Silver.                      *)
(***************************************************************************)
EXTENDS AffiliateFees, TLC

CONSTANTS ann, bob, amy, ben

MCAffiliateOf == (ann :> amy) @@ (bob :> ben)
MCBettor == [b \in Bets |-> IF b = 2 THEN bob ELSE ann]
MCEligible == <<1, 2>>

=============================================================================
