-------------------------- MODULE MCModelController --------------------------
(* Values for the constants of ModelController. *)
EXTENDS ModelController

Signed   == [uri |-> "uri1", digest |-> "d1", requireSignedImage |-> TRUE]
Resigned == [Signed EXCEPT !.digest = "d2"]
Unsigned == [Signed EXCEPT !.digest = ""]
NoURI    == [Signed EXCEPT !.uri = ""]

MCModelSpecs == {Signed, Resigned, Unsigned, NoURI}
MCDigestSpecs == {Signed, Resigned}

NoEvents == [k \in Kinds |-> 0]

LifeBudget == [NoEvents EXCEPT !["create"] = 2, !["update"] = 2,
                               !["delete"] = 1, !["fault"] = 1,
                               !["restart"] = 1]

EditBudget == [NoEvents EXCEPT !["create"] = 1, !["update"] = 1]
=============================================================================
