----------------------------- MODULE MCPricing -----------------------------
(***************************************************************************)
(* An instance of Pricing with the boundary amounts: texts with no, one    *)
(* and two decimals, a product of one cent and of none, margins whose      *)
(* results fall on half a cent, a floor that decides, a ceiling that       *)
(* decides, a ceiling below the floor.                                     *)
(***************************************************************************)
EXTENDS Pricing

Text(whole, frac) == [whole |-> whole, frac |-> frac]

VendorTexts ==
    {Text(0, <<>>), Text(0, <<0, 1>>), Text(0, <<5>>), Text(2, <<3>>), Text(2, <<9, 9>>),
     Text(3, <<>>), Text(7, <<0, 5>>), Text(7, <<6, 9>>), Text(10, <<>>), Text(19, <<9, 5>>)}

BaseTexts ==
    {Text(0, <<>>), Text(0, <<0, 1>>), Text(0, <<2, 9>>), Text(0, <<5>>), Text(2, <<0, 1>>),
     Text(3, <<>>), Text(19, <<9, 5>>), Text(20, <<>>)}

Discounts ==
    {[type |-> "percentage", value |-> v] :
        v \in {Text(0, <<>>), Text(10, <<>>), Text(12, <<5>>), Text(33, <<3, 3>>), Text(50, <<>>),
               Text(100, <<>>), Text(101, <<>>)}}
    \union {[type |-> "fixed", value |-> v] : v \in {Text(0, <<0, 1>>), Text(5, <<>>)}}

Rows ==
    {[margin |-> 3000, floor |-> Text(0, <<9, 9>>), ceiling |-> Text(99999, <<9, 9>>)],   \* the columns' defaults
     [margin |-> 1250, floor |-> Text(1, <<0, 5>>), ceiling |-> Text(8, <<0, 7>>)],
     [margin |-> -2000, floor |-> Text(0, <<>>), ceiling |-> Text(12, <<5>>)],
     [margin |-> 10000, floor |-> Text(6, <<>>), ceiling |-> Text(4, <<>>)]}
=============================================================================
