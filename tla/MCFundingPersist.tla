--------------------------- MODULE MCFundingPersist ---------------------------
(***************************************************************************)
(* FundingPersist for TLC: Hyperliquid's kPEPE is stored as KPEPE, every   *)
(* other token is spelled in upper case already.                           *)
(***************************************************************************)
EXTENDS FundingPersist

CONSTANTS BTC, kPEPE, KPEPE

MixedUpper == [s \in {BTC, kPEPE, KPEPE} |-> IF s = kPEPE THEN KPEPE ELSE s]
=============================================================================
