----------------------------- MODULE RequestReply -----------------------------
(***************************************************************************)
(* What the sync half of DdDataService promises, without saying how: a     *)
(* request id is a lease that at most one call holds, at most MaxPending   *)
(* leases are out, and a call is handed at most one answer, one that       *)
(* carries the id it holds at that moment.  Every lease a call took is     *)
(* given back when the call ends.                                          *)
(***************************************************************************)
EXTENDS Integers, FiniteSets

CONSTANTS Calls, ReqIds, Response, None, MaxPending

VARIABLES
  stage,    \* of each call: "new", "open", "answered" or "closed"
  holder,   \* request id -> the call that holds it, or None
  answer    \* the answer each call was handed, or None

avars == <<stage, holder, answer>>

Free(r) == holder[r] = None
Held == {r \in ReqIds : ~Free(r)}

AInit ==
  /\ stage = [c \in Calls |-> "new"]
  /\ holder = [r \in ReqIds |-> None]
  /\ answer = [c \in Calls |-> None]

Move(c, from, to) ==
  /\ stage[c] = from
  /\ stage' = [stage EXCEPT ![c] = to]

(* The call ends without ever taking a lease, with or without an answer    *)
(* from an earlier call.                                                   *)
Refuse(c) ==
  /\ Move(c, "new", "closed")
  /\ \E m \in Response \cup {None} : answer' = [answer EXCEPT ![c] = m]
  /\ UNCHANGED holder

Open(c, r) ==
  /\ Move(c, "new", "open")
  /\ Free(r)
  /\ Cardinality(Held) < MaxPending
  /\ holder' = [holder EXCEPT ![r] = c]
  /\ UNCHANGED answer

HandOver(c, m) ==
  /\ Move(c, "open", "answered")
  /\ holder[m.id] = c
  /\ answer' = [answer EXCEPT ![c] = m]
  /\ UNCHANGED holder

Close(c, r) ==
  /\ \/ Move(c, "open", "closed")
     \/ Move(c, "answered", "closed")
  /\ holder[r] = c
  /\ holder' = [holder EXCEPT ![r] = None]
  /\ UNCHANGED answer

ANext ==
  \E c \in Calls :
    \/ Refuse(c)
    \/ \E r \in ReqIds : Open(c, r) \/ Close(c, r)
    \/ \E m \in Response : HandOver(c, m)

ASpec == AInit /\ [][ANext]_avars
=============================================================================
