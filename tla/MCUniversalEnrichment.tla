------------------------ MODULE MCUniversalEnrichment ------------------------
(* Constant values of the TLC runs of UniversalEnrichment. *)
EXTENDS UniversalEnrichment
CONSTANTS p1, x, y

Listed(amount, total, links) ==
  <<[pair |-> p1, amount |-> amount, total_amount |-> total, links |-> links]>>
FourListings == {Listed(0, 0, x), Listed(1, 2, y), Listed(2, None, x), Listed(None, None, None)}

Answer(fact, boosts, price, trades) ==
  [fact |-> fact, info |-> None, boosts |-> boosts, price |-> price, trades |-> trades]
TwoAnswers == {Answer(x, 2, 1, FALSE), Answer(y, 0, None, TRUE)}
=============================================================================
