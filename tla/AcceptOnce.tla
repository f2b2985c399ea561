----------------------------- MODULE AcceptOnce -----------------------------
(***************************************************************************)
(* What POST /accept promises: an idempotency key is claimed once, by one  *)
(* request, for ever; the claiming request alone may be told "accepted",   *)
(* and "duplicate" is only said of a key that is claimed.  Nothing here    *)
(* knows of the table, the cache, retries or crashes.                      *)
(***************************************************************************)
CONSTANTS Requests,  \* calls of /accept
          Keys,      \* idempotency keys
          KeyOf,     \* the key each request carries
          NoRequest  \* the owner of a key nobody has claimed

VARIABLES owner,     \* owner[k]: the request that claimed k
          reply      \* reply[r]: what r has been told
vars == <<owner, reply>>

Init == owner = [k \in Keys |-> NoRequest] /\ reply = [r \in Requests |-> "none"]

\* A request may claim its key even after its caller was told of an error.
Claim(r) ==
  /\ owner[KeyOf[r]] = NoRequest
  /\ owner' = [owner EXCEPT ![KeyOf[r]] = r]
  /\ UNCHANGED reply

Accept(r) ==
  /\ reply[r] = "none" /\ owner[KeyOf[r]] = r
  /\ reply' = [reply EXCEPT ![r] = "accepted"]
  /\ UNCHANGED owner

Refuse(r) ==
  /\ reply[r] = "none" /\ owner[KeyOf[r]] # NoRequest
  /\ reply' = [reply EXCEPT ![r] = "duplicate"]
  /\ UNCHANGED owner

\* Some unanswered requests end in an error, which promises nothing.
Fail(S) ==
  /\ \A r \in S : reply[r] = "none"
  /\ reply' = [r \in Requests |-> IF r \in S THEN "error" ELSE reply[r]]
  /\ UNCHANGED owner

Next ==
  \/ \E r \in Requests : Claim(r) \/ Accept(r) \/ Refuse(r)
  \/ \E S \in SUBSET Requests : Fail(S)
Spec == Init /\ [][Next]_vars
=============================================================================
