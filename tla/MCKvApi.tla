------------------------------ MODULE MCKvApi ------------------------------
EXTENDS KvApi, TLC

Value(type, content) == [type |-> type, content |-> content]

(* One key changes between a FixedValue and both kinds of text, the other holds a
   typed vector, with NULs and empty parts inside; each has a value that fails. *)
MixedValues ==
  1 :> {Value("FLOAT", <<3>>), Value("STRING", <<1, 0, 2>>), Value("BLOB", <<0, 1>>)}
    @@ 2 :> {Value("VECTOR_KEY", <<<<1, 2>>, <<>>, <<3>>>>), Value("MAP", <<>>)}

ASSUME AsClientsGive == ClientsAreWellBehaved

FewValues == 1 :> {Value("STRING", <<1>>)}

Contents == <<maps, up>>
=============================================================================
