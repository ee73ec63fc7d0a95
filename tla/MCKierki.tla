----------------------------- MODULE MCKierki ------------------------------
(* Two deals of three tricks: the robber, led by N, and one without hearts,*)
(* led by S.  In both somebody cannot follow suit.                         *)
EXTENDS Kierki, TLC

Of(suit, value) == [suit |-> suit, value |-> value]

Robber ==
  [type |-> 7, lead |-> 0,
   cards |-> (0 :> <<Of("C", 5), Of("H", 13), Of("C", 2)>> @@
              1 :> <<Of("C", 12), Of("H", 2), Of("D", 8)>> @@
              2 :> <<Of("D", 3), Of("C", 11), Of("D", 13)>> @@
              3 :> <<Of("H", 14), Of("S", 12), Of("C", 9)>>)]
NoHearts ==
  [type |-> 2, lead |-> 2,
   cards |-> (0 :> <<Of("H", 9), Of("D", 4), Of("S", 5)>> @@
              1 :> <<Of("H", 3), Of("D", 10), Of("H", 4)>> @@
              2 :> <<Of("H", 5), Of("D", 2), Of("S", 9)>> @@
              3 :> <<Of("S", 7), Of("H", 6), Of("S", 14)>>)]
TwoDeals == <<NoHearts, Robber>>
=============================================================================
