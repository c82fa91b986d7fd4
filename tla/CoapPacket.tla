----------------------------- MODULE CoapPacket -----------------------------
(***************************************************************************)
(* The CoAP packets of the bridge (adapter/coap_bridge.go) and of the      *)
(* direct route (api/handler.go), which has a copy of the code.  A packet  *)
(* is a sequence of bytes.                                                 *)
(***************************************************************************)
EXTENDS Integers, Sequences

Byte == 0 .. 255

Code(method) ==
  CASE method = "POST" -> 2 [] method = "PUT" -> 3 [] method = "DELETE" -> 4
    [] OTHER -> 1

(* A bug: 13 is taken for a length that still fits the nibble. *)
encodeCoapOptionNibbleWide(v) ==
  CASE v <= 13 -> <<v>>
    [] v > 13 /\ v < 269 -> <<13, v - 13>>
    [] OTHER -> <<14, ((v - 269) \div 256) % 256, (v - 269) % 256>>

(* encodeCoapOptionNibble and encodeCoapNibble: the nibble and the bytes   *)
(* that extend it.                                                         *)
encodeCoapOptionNibble(v) ==
  CASE v < 13 -> <<v>>
    [] v >= 13 /\ v < 269 -> <<13, v - 13>>
    [] OTHER -> <<14, ((v - 269) \div 256) % 256, (v - 269) % 256>>

(* encodeCoapOption and encodeCoapOptionPath. *)
encodeCoapOption(delta, val) ==
  LET d == encodeCoapOptionNibble(delta)
      l == encodeCoapOptionNibble(Len(val))
  IN <<Head(d) * 16 + Head(l)>> \o Tail(d) \o Tail(l) \o val

Marked(payload) == IF Len(payload) > 0 THEN <<255>> \o payload ELSE <<>>

(* buildCoapRequest and buildCoapPacket: the message id is a counter or    *)
(* the clock, the path is option 11.                                       *)
buildCoapRequest(method, path, payload, id) ==
  <<64, Code(method), (id \div 256) % 256, id % 256>>
    \o encodeCoapOption(11, path) \o Marked(payload)

(* What a server makes of options and a payload; token and options are its *)
(* own.                                                                    *)
Packet(token, options, payload) ==
  LET upTo[i \in 0 .. Len(options)] ==
        IF i = 0 THEN <<>>
        ELSE upTo[i - 1] \o encodeCoapOption(options[i].delta, options[i].value)
  IN <<64 + Len(token), 69, 0, 1>> \o token \o upTo[Len(options)] \o Marked(payload)

(* The extension of a nibble at position p: the value it gives, and the    *)
(* position after it.  A nibble whose extension is cut off stands for      *)
(* itself.                                                                 *)
Extended(data, nibble, p) ==
  CASE nibble = 13 /\ p <= Len(data) -> [value |-> data[p] + 13, next |-> p + 1]
    [] nibble = 14 /\ p + 1 <= Len(data) ->
         [value |-> data[p] * 256 + data[p + 1] + 269, next |-> p + 2]
    [] OTHER -> [value |-> nibble, next |-> p]

(* parseCoapPayload and parseCoapPayloadBytes, which differ only in that   *)
(* the first computes the option number too: skip the options, return what *)
(* follows the marker, or nothing.                                         *)
parseCoapPayload(data) ==
  LET after(p) ==
        LET delta == Extended(data, data[p] \div 16, p + 1)
            length == Extended(data, data[p] % 16, delta.next)
        IN length.next + length.value
      from[p \in 1 .. Len(data) + 1] ==
        CASE p > Len(data) -> <<>>
          [] p <= Len(data) /\ data[p] = 255 -> SubSeq(data, p + 1, Len(data))
          [] p <= Len(data) /\ data[p] # 255 /\ after(p) > Len(data) + 1 -> <<>>
          [] OTHER -> from[after(p)]
      start == 5 + (data[1] % 16)
  IN IF Len(data) < 4 \/ start > Len(data) THEN <<>> ELSE from[start]
=============================================================================
