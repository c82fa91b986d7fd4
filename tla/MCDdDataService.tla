--------------------------- MODULE MCDdDataService ---------------------------
(* Model-checking instances of DdDataService. *)
EXTENDS DdDataService, TLC

(* Requests without an idempotency key, and of both kinds. *)
Unkeyed == [id : ReqIds, key : {None}, ttl : TTLs]
AnyRequest == [id : ReqIds, key : Keys, ttl : TTLs] \cup Unkeyed

(* Calls, ids, keys and callbacks are interchangeable. *)
Symmetry == Permutations(Calls) \cup Permutations(ReqIds)
              \cup Permutations(Keys) \cup Permutations(Handlers)
=============================================================================
