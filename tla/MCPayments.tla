----------------------------- MODULE MCPayments -----------------------------
(***************************************************************************)
(* Instances of Payments for TLC.  The price of 1000 cents has the minimum *)
(* fee of 250, so a fee, a refund beyond it and the whole price differ.    *)
(* Staff refund 400 cents, so that two refunds stay within the price.      *)
(***************************************************************************)
EXTENDS Payments, TLC

CONSTANTS key1, key2

OneKey == {key1}
TwoKeys == {key1, key2}
KeySymmetry == Permutations(TwoKeys)
NoRefunds == {}
StaffRefund == {400}
=============================================================================
