----------------------------- MODULE MCEditPage -----------------------------
(* A project of one brand, and one of two brands that share evenly, so that *)
(* every odd amount has to be rounded.                                      *)
EXTENDS EditPage, TLC

MCProjects == <<"s", "m">>
MCKids     == "s" :> <<>> @@ "m" :> <<"m1", "m2">>
MCShare    == "s" :> 10000 @@ "m" :> 10000 @@ "m1" :> 5000 @@ "m2" :> 5000
MCKidTotal == "m1" :> 1 @@ "m2" :> 1
MCPlanned  == "s" :> 0 @@ "m" :> 2
MCAmounts  == {0, 1, 3}
MCTotals   == {-1, 0, 1}
MCSessions ==
  {{"month"}, {"month", "search"}, {"month", "po", "brand"}, {"brand", "popup"}, {"brand", "cells"},
   {"popup", "cells", "rows"}, {"new"}, {"new", "cells"}, {"po", "posts", "window", "narrow"},
   {"active", "month", "po", "brand"}, {"active", "popup", "cells", "rows"}}
=============================================================================
