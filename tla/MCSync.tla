------------------------------- MODULE MCSync -------------------------------
(***************************************************************************)
(* Instance of Sync.  The table that is sent has four keys: a and b part   *)
(* at the last level, c leaves them one level above, d at the root.  The   *)
(* other tables hold a, b and c, whose subtree they share with it, or only *)
(* a and b, one subtree further down.                                      *)
(***************************************************************************)
EXTENDS Sync

CONSTANTS a, b, c, d, v

Digest == (a :> <<"L", "L", "L">>) @@ (b :> <<"L", "L", "R">>)
          @@ (c :> <<"L", "R", "L">>) @@ (d :> <<"R", "L", "L">>)

MCPath == [k \in Key |-> Digest[k]]

LL == Internal(<<"L">>, Leaf(a, v), Leaf(b, v))
L == Internal(<<"L">>, LL, Leaf(c, v))

MCSent == Internal(Root, L, Leaf(d, v))

MCTrees == { Internal(Root, L, Empty),
             Internal(Root, Internal(<<"L">>, LL, Empty), Empty) }

MCAt == (MCSent :> Root) @@ (L :> <<"L">>) @@ (LL :> <<"L", "L">>)
        @@ (Leaf(a, v) :> Path[a]) @@ (Leaf(b, v) :> Path[b])
        @@ (Leaf(c, v) :> <<"L", "R">>) @@ (Leaf(d, v) :> <<"R">>)
=============================================================================
