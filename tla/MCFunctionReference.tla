------------------------ MODULE MCFunctionReference ------------------------
(***************************************************************************)
(* A catalogue of two scalar functions, one aggregate and one table        *)
(* function for FunctionReference.                                         *)
(***************************************************************************)
EXTENDS FunctionReference

MCCatalogue ==
    [t \in Kinds |-> CASE t = "scalar"    -> <<"ST_Area", "ST_X">>
                       [] t = "aggregate" -> <<"ST_Union_Agg">>
                       [] t = "table"     -> <<"ST_Read">>]

(* Descriptions the catalogue query can return: text, the empty string,   *)
(* or JSON null for a function registered without a description.           *)
MCDescsAll == {"text", "empty", "null"}
=============================================================================
