--------------------------- MODULE MCFillingCell ---------------------------
(* The filling cell with two valid and one refused run configuration.  The *)
(* positions a client can reach are few: raw moves, jogs and targets meet   *)
(* at the ends of travel, so that moves past an end are asked for as well.  *)
EXTENDS CellPanel

MCConfigurations ==
    LET water == [productName |-> "Water", targetFillVolumeMl |-> 250,
                  fillToleranceMl |-> 2, pumpRateMlPerSecond |-> 50,
                  batchSize |-> 3, xAxisSpeed |-> 200, zAxisSpeed |-> 100]
    IN  {water, [water EXCEPT !.batchSize = 0],
         [water EXCEPT !.fillToleranceMl = 250]}

MCXPositions == {0, 350, 701}
MCZPositions == {0, 41}
MCXJogs == {[velocity |-> 140, maxDurationMs |-> 5000]}
MCZJogs == {[velocity |-> 32, maxDurationMs |-> 5000],
            [velocity |-> 24, maxDurationMs |-> 5001]}
=============================================================================
