--------------------------- MODULE MCSharedPointer ---------------------------
(* Variables for SharedPointer: data, a strong and a weak pointer to data,  *)
(* and a strong pointer to a strong pointer.                               *)
EXTENDS SharedPointer

MCVars == {"d", "p", "w", "pp"}
MCVarType ==
  [v \in MCVars |-> CASE v = "d" -> <<>>
                      [] v = "p" -> <<"strong">>
                      [] v = "w" -> <<"weak">>
                      [] v = "pp" -> <<"strong", "strong">>]
=============================================================================
