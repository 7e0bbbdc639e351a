---------------------------- MODULE MCRouterKeys -----------------------------
(* Instances of RouterKeys.tla for TLC. *)
EXTENDS RouterKeys

\* A path that passes AS 1 twice; and a path of one AS with two signature blocks,
\* whose first SKI two keys share.
MCAttr ==
    [u \in Updates |->
        IF u = "twice" THEN [asn |-> <<1, 256, 1>>, algo |-> <<"ecdsa">>, ski |-> <<"s", "r", "s">>]
        ELSE [asn |-> <<256>>, algo |-> <<"ecdsa", "new">>, ski |-> <<"n", "s">>]]

MCAsking     == {<<"a", "twice">>, <<"b", "twice">>}
MCAskingBoth == {<<"a", "both">>}

\* AS 1 and AS 256 share a bucket of the storage.
MCKeysAt == [t \in Triplets |->
    CASE t \in {<<1, "s", "ecdsa">>, <<1, "n", "ecdsa">>, <<256, "r", "ecdsa">>} -> {"k"}
      [] t = <<256, "n", "ecdsa">> -> {"k", "l"}
      [] OTHER -> {}]

MCSigner == [t \in Triplets |-> "k"]
=============================================================================
