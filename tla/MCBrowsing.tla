------------------------------ MODULE MCBrowsing ------------------------------
\* Browsing on a small instance: three shops that are near or not quite so near,
\* published or not; two products of one shop and one of another.
EXTENDS Browsing, TLC

TwoOfOne == 1 :> 1 @@ 2 :> 1 @@ 3 :> 2

NearOrNew ==
    {[status |-> "ACTIVE", distance |-> 0, reach |-> 1, published |-> 0],
     [status |-> "ACTIVE", distance |-> 0, reach |-> 1, published |-> 1],
     [status |-> "ACTIVE", distance |-> 1, reach |-> 1, published |-> 1]}

=============================================================================
