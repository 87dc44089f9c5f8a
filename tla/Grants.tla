------------------------------- MODULE Grants --------------------------------
(***************************************************************************)
(* What the authorization server promises of the connections of AI         *)
(* assistants, whatever requests it serves at once: a code opens one       *)
(* connection, a connection has at most one pair of tokens that can be     *)
(* renewed, a renewal puts the next pair in its place, and a connection    *)
(* that has ended stays so.                                                *)
(*                                                                         *)
(* AiOAuth, which has the sessions, the locks and the clock, implements    *)
(* it; AiAccess builds on it.                                              *)
(***************************************************************************)

CONSTANTS Codes, Connections, Pairs

VARIABLES
  opened,  \* for each connection that exists, the code that opened it
  good,    \* for each of them, the pairs that can be renewed: one, or none
  given,   \* pairs that have been issued
  ended    \* connections that are revoked

grants == <<opened, good, given, ended>>

NoGrants ==
  /\ opened = [c \in {} |-> {}]
  /\ good = [c \in {} |-> {}]
  /\ given = {}
  /\ ended = {}

\* The pair takes its place.  Others that were not renewed in time may lapse with
\* it: a later request brings it to light.
Current(c, p) ==
  \E lapsed \in SUBSET (DOMAIN good \ {c}) :
    good' = [d \in DOMAIN good \cup {c} |->
               IF d = c THEN {p} ELSE IF d \in lapsed THEN {} ELSE good[d]]

Open(k, c, p) ==
  /\ c \notin DOMAIN opened
  /\ \A d \in DOMAIN opened : opened[d] # k
  /\ p \notin given
  /\ given' = given \cup {p}
  /\ opened' = [d \in DOMAIN opened \cup {c} |-> IF d = c THEN k ELSE opened[d]]
  /\ Current(c, p)
  /\ UNCHANGED ended

Renew(c, p) ==
  /\ c \in DOMAIN opened
  /\ good[c] # {}
  /\ p \notin given
  /\ given' = given \cup {p}
  /\ opened' = opened
  /\ Current(c, p)
  /\ UNCHANGED ended

End(c) ==
  /\ c \in DOMAIN opened
  /\ ended' = ended \cup {c}
  /\ UNCHANGED <<opened, good, given>>

Grant ==
  \E c \in Connections :
    \/ \E p \in Pairs : (\E k \in Codes : Open(k, c, p)) \/ Renew(c, p)
    \/ End(c)

GrantsSpec == NoGrants /\ [][Grant]_grants
=============================================================================
