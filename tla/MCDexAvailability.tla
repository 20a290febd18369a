-------------------------- MODULE MCDexAvailability --------------------------
(* Constant values of the TLC runs of DexAvailability. *)
EXTENDS DexAvailability

CONSTANTS t1, t2, p1, p2
\* Two chains, so that a pass has two batches.
MCToken == {t1, t2}
MCChainOf(t) == IF t = t1 THEN "solana" ELSE "other"
\* Two collectors, one of them without the lock, and one pass at a time of each.
MCProcess == {p1, p2}
MCLoop == [process : MCProcess, kinds : {{"dex", "security"}}]
=============================================================================
