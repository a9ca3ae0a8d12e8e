------------------------------ MODULE MCTiming ------------------------------
(***************************************************************************)
(* Timing for TLC: expressions with every form of field, and last runs     *)
(* around the ends of months, of leap days and of a century.               *)
(***************************************************************************)
EXTENDS Timing, MCCron

MCExpr ==
    {LeapDay,
     Fields(All, All, All, All, All),
     Fields(Only(1), Only(0), Only(31), All, All),
     Fields(Every(2), Only(1), All, All, Only(1)),
     Fields(Only(0), All, Span(30, 31), Only(4) \cup Only(12), Span(0, 6)),
     Fields(Only(1), Only(1), Only(29), Only(2), Only(2)),
     Fields(Only(0), Only(0), Only(31), Only(6), All),
     Fields(All, Every(0), All, All, All)}

MCFrom ==
    {ZeroTime}
      \cup {At(y, m, d, half) : y \in {2027, 2028, 2100}, m \in {2, 12}, d \in {28}, half \in {6, 7}}
      \cup {At(2028, 2, 29, half) : half \in 0..3} \cup {At(2099, 12, 31, 7)}

MCEngine == [base : {0, 7, 100}, max : {0, 50, 700}, multiplier : {0, 110, 150, 200},
             jitter : {-1, 0, 10, 60, 150}, attempts : {0}]

=============================================================================
