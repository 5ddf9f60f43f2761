----------------------------- MODULE MCDbWriters -----------------------------
(***************************************************************************)
(* DbWriters for TLC: Hyperliquid's kPEPE is stored as KPEPE, every other   *)
(* token is spelled in upper case already.                                 *)
(***************************************************************************)
EXTENDS DbWriters

CONSTANTS BTC, kPEPE, KPEPE, hyperliquid, aster, j1, j2

MixedUpper == [s \in {BTC, kPEPE, KPEPE} |-> IF s = kPEPE THEN KPEPE ELSE s]

\* Two backfills of one exchange, or of two.
Assigned == {(j1 :> hyperliquid @@ j2 :> e) : e \in {hyperliquid, aster}}

\* kPEPE was listed just before the last settlement.
Listings == [s \in {BTC, kPEPE, KPEPE} |-> IF s = kPEPE THEN 5 ELSE 0]

BothListed == <<BTC, kPEPE>>
=============================================================================
