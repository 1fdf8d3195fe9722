---------------------------- MODULE MCRequestCycle ----------------------------
(* Three agents. a and b call each other, though no operation ever leads to *)
(* itself; c, behind both, calls nobody.                                    *)
EXTENDS RequestCycle

CONSTANTS a, b, c

MCAgent == {a, b, c}
MCOp == {"a_ask", "a_leaf", "b_ask", "c_leaf"}
MCAt == [o \in MCOp |->
           IF o = "b_ask" THEN b ELSE IF o = "c_leaf" THEN c ELSE a]
MCFollows == [o \in MCOp |->
                CASE o = "a_ask" -> {"b_ask", "c_leaf"}
                  [] o = "b_ask" -> {"a_leaf", "c_leaf"}
                  [] OTHER -> {}]
MCAsked == {"a_ask"}
MCUnsendable == {"c_leaf"}
MCTimeouts == [o \in MCOp |->
                 CASE o = "c_leaf" -> {-1, 5} [] o = "a_leaf" -> {2, 5} [] OTHER -> {5}]
===============================================================================
