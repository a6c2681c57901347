------------------------------ MODULE MCRuntime ------------------------------
(***************************************************************************)
(* Two tool rounds; one fallback that cannot be built and one that can;    *)
(* a tool the runtime can render, one it cannot, a listing and a call.     *)
(***************************************************************************)
EXTENDS RuntimeLoop

MCFallback == [p \in Profiles |-> CASE p = "first" -> <<"broken", "second">>
                                    [] OTHER -> <<>>]
MCDrafts == {NoDraft, NoClaims, [cover |-> TRUE, trip |-> FALSE, claims |-> {"spawn"}]}
=============================================================================
