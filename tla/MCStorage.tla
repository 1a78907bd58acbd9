----------------------------- MODULE MCStorage -----------------------------
(* The storage service on small instances. *)
EXTENDS Storage

ext_a == [st |-> "ext", name |-> "a"]
ext_b == [st |-> "ext", name |-> "b"]
int_a == [st |-> "int", name |-> "a"]
any_a == [st |-> "any", name |-> "a"]

AliasPaths == {ext_a, any_a}
AliasMoves == {<<ext_a, int_a>>, <<int_a, any_a>>}
Zero       == {FILE_CLOSED}

============================================================================
