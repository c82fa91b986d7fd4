------------------------------ MODULE AuthPeer ------------------------------
(***************************************************************************)
(* AuthPeerService (service/auth_peer_service.go): a request is granted    *)
(* with a token, which VerifyToken checks later.  secrets is the map of    *)
(* the service; the HMAC of a text under the service's own secret is the   *)
(* text.                                                                   *)
(***************************************************************************)
EXTENDS Integers

CONSTANTS
  NoToken,
  Text(_, _)  \* the id of a peer, ":" and a secret as one text

generateAuthToken(peer, secret) == Text(peer, secret)

(* A bug: the token is made from the key, which is not secret. *)
handleVerifyReqByKey(secrets, req) ==
  IF req.key \in DOMAIN secrets /\ secrets[req.key] = req.secret
  THEN [granted |-> TRUE, token |-> generateAuthToken(req.peer, req.key)]
  ELSE [granted |-> FALSE, token |-> NoToken]

(* handleVerifyReq with the reply it publishes. *)
handleVerifyReq(secrets, req) ==
  IF req.key \in DOMAIN secrets /\ secrets[req.key] = req.secret
  THEN [granted |-> TRUE, token |-> generateAuthToken(req.peer, secrets[req.key])]
  ELSE [granted |-> FALSE, token |-> NoToken]

VerifyToken(secrets, token, peer, key) ==
  /\ key \in DOMAIN secrets
  /\ token = generateAuthToken(peer, secrets[key])
=============================================================================
