--------------------------- MODULE MCScaffolding ---------------------------
(* Ids that are sanitized to one name, one whose own name is another's        *)
(* numbered one, and templates that share names with them.                    *)
EXTENDS Scaffolding

MCBase == [ id \in {"a/b", "a:b", "a_b_1", "c"} |->
              CASE id = "a_b_1" -> "a_b_1" [] id = "c" -> "c" [] OTHER -> "a_b" ]
MCNumbered == [ p \in {"a_b", "a_b_1", "c"} \X {1, 2} |->
                  CASE p = <<"a_b", 1>> -> "a_b_1" [] p = <<"a_b", 2>> -> "a_b_2"
                    [] p = <<"a_b_1", 1>> -> "a_b_1_1" [] p = <<"a_b_1", 2>> -> "a_b_1_2"
                    [] p = <<"c", 1>> -> "c_1" [] p = <<"c", 2>> -> "c_2" ]
MCDocuments == { <<"a/b">>, <<"a/b", "a:b">>, <<"a:b", "a/b">>, <<"a/b", "a_b_1", "a:b">>,
                 <<"a_b_1", "a/b">>, <<"a/b", "c">> }
MCTemplates == { [id |-> "a.b", files |-> <<"a_b", "a.py">>],   \* binding
                 [id |-> "a.c", files |-> <<"a_c", "a.py">>],   \* binding, same target file
                 [id |-> "c", files |-> <<"c.py">>] }           \* convention
=============================================================================
