------------------------------ MODULE PeerList ------------------------------
(***************************************************************************)
(* Peer lists by message (service/peer_list_service.go): the peers of the  *)
(* registry, filtered by ACL, role and status and cut into pages.  The     *)
(* registry's list is in the order of a Go map, which the caller of        *)
(* handleQuery supplies here.                                              *)
(***************************************************************************)
EXTENDS Topics

CONSTANTS
  MaxPageSize,      \* discovery.max_page_size
  DefaultPageSize,  \* 20
  MaxInt            \* the largest int

(* a + b as int. *)
Plus(a, b) == IF a + b > MaxInt THEN a + b - 2 * (MaxInt + 1) ELSE a + b

(* The peers of a list that are in S, in its order: the loop of a filter. *)
Kept(peers, S) ==
  LET upTo[i \in 0 .. Len(peers)] ==
        IF i = 0 THEN <<>>
        ELSE IF peers[i] \in S THEN Append(upTo[i - 1], peers[i]) ELSE upTo[i - 1]
  IN upTo[Len(peers)]

PeersOf(peers) == {peers[i] : i \in DOMAIN peers}

(* A peer without the caller's rules on its topic is not shown; a query    *)
(* without a caller shows all.                                             *)
Shown(rules, caller, p) ==
  \/ caller = ""
  \/ \E action \in {"sub", "pub"} :
       Authorize(rules, caller, action, TransferRequest(p.id))

filterByAcl(rules, caller, peers) ==
  Kept(peers, {p \in PeersOf(peers) : Shown(rules, caller, p)})

filterByRole(peers, role) ==
  Kept(peers, {p \in PeersOf(peers) : role \in {"", p.role}})

filterByStatus(peers, status) ==
  Kept(peers, {p \in PeersOf(peers) : status \in {"", p.status}})

PageSize(req) ==
  IF req.size <= 0 \/ req.size > MaxPageSize THEN DefaultPageSize ELSE req.size

(* A bug: a page that ends with the list is taken to have one after it. *)
PageMoreAtEnd(list, offset, size) ==
  CASE Plus(offset, size) <= Len(list) ->
         [peers |-> SubSeq(list, offset + 1, Plus(offset, size)),
          hasMore |-> TRUE, panics |-> FALSE]
    [] OTHER -> [peers |-> SubSeq(list, offset + 1, Len(list)),
                 hasMore |-> FALSE, panics |-> FALSE]

(* The slice; its upper bound wraps around for the largest offsets, and    *)
(* the slice expression then panics.                                       *)
Page(list, offset, size) ==
  CASE Plus(offset, size) < 0 -> [peers |-> <<>>, hasMore |-> TRUE, panics |-> TRUE]
    [] Plus(offset, size) \in 0 .. Len(list) - 1 ->
         [peers |-> SubSeq(list, offset + 1, Plus(offset, size)),
          hasMore |-> TRUE, panics |-> FALSE]
    [] OTHER -> [peers |-> SubSeq(list, offset + 1, Len(list)),
                 hasMore |-> FALSE, panics |-> FALSE]

(* The answer to a query over the peers of the resource asked for. *)
handleQuery(rules, peers, req) ==
  LET filtered == filterByStatus(filterByRole(
                    filterByAcl(rules, req.caller, peers), req.role), req.status)
      offset == IF req.offset < 0 THEN 0 ELSE req.offset
      page == Page(filtered, offset, PageSize(req))
  IN [peers |-> page.peers, hasMore |-> page.hasMore, panics |-> page.panics,
      total |-> Len(filtered), offset |-> offset]
=============================================================================
