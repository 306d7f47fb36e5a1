----------------------------- MODULE MCVariables -----------------------------
(* Constants of the model of variables: an automatic variable, a structure two levels deep with two fields *)
(* on the first; three names have one hash, one a smaller and one a greater.                                *)
EXTENDS Variables

MCAutos == << <<"x">> >>
MCOrdered == << <<"a", "b">>, <<"a">>, <<"a", "b", "d">>, <<"x">>, <<"a", "c">> >>
MCNames == ToSet(MCOrdered)
MCHashes == [name \in MCNames |-> IF name = <<"a">> THEN 1 ELSE IF Len(name) = 3 THEN 3 ELSE 2]
MCHash(name) == MCHashes[name]
MCPlaces == [name \in MCNames |-> SelectInSeq(MCOrdered, LAMBDA n : n = name)]
MCOrder(name) == MCPlaces[name]
===============================================================================
