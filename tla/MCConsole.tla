------------------------------ MODULE MCConsole ------------------------------
EXTENDS Console, TLC

CONSTANTS ann, bob, t1, t2, r1, r2

MCAgentTenant == (ann :> t1) @@ (bob :> t2)
MCChanges == { <<<<"min_score", 5>>>>, <<<<"synonyms", 1>>, <<"min_score", 6>>>>,
               <<<<"min_score", 7>>, <<"synonyms", 2>>>>,
               <<<<"synonyms", 1>>, <<"min_score", 3>>>> }
MCUploads == { [size |-> 1, kind |-> "image/png"], [size |-> 9, kind |-> "image/png"],
               [size |-> 1, kind |-> "image/svg"] }
MCSymmetry == Permutations({r1, r2})
=============================================================================
