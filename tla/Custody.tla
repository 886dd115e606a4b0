------------------------------ MODULE Custody -------------------------------
(***************************************************************************)
(* What the chat route promises about one interaction (ADR-046), without   *)
(* consumers, batches, claims or retries: the stream keeps what it was     *)
(* given until the interaction is accounted for, the request keeps what    *)
(* the stream was not given, and neither a release nor an account is ever  *)
(* taken back.                                                             *)
(***************************************************************************)
CONSTANT Records

VARIABLES chat,      \* open, storing by itself, answered, or cut off
          stream,    \* none, held, or released
          accounted  \* interactions that are stored, or that somebody can see are not

vars == <<chat, stream, accounted>>

Init ==
    /\ chat = [r \in Records |-> "open"]
    /\ stream = [r \in Records |-> "none"]
    /\ accounted = {}

Becomes(r, next) == chat' = [chat EXCEPT ![r] = next]

\* The stream takes the interaction, which the request may not get to know.
Keep(r) ==
    /\ chat[r] = "open" /\ stream[r] = "none"
    /\ stream' = [stream EXCEPT ![r] = "held"]
    /\ Becomes(r, "answered") \/ Becomes(r, "storing") \/ Becomes(r, "cut")
    /\ UNCHANGED accounted

\* The request is to store it.
Store(r) ==
    /\ chat[r] = "open"
    /\ Becomes(r, "storing")
    /\ UNCHANGED <<stream, accounted>>

\* Who has it accounts for it, perhaps again; a request answers only then.
Account(r) ==
    /\ accounted' = accounted \cup {r}
    /\ \/ stream[r] = "held" /\ UNCHANGED chat
       \/ chat[r] = "storing" /\ (UNCHANGED chat \/ Becomes(r, "answered"))
    /\ UNCHANGED stream

Release(r) ==
    /\ stream[r] = "held" /\ r \in accounted
    /\ stream' = [stream EXCEPT ![r] = "released"]
    /\ UNCHANGED <<chat, accounted>>

\* The client goes away, or its pod does.
Cut(r) ==
    /\ chat[r] \in {"open", "storing"}
    /\ Becomes(r, "cut")
    /\ UNCHANGED <<stream, accounted>>

Next ==
    \E r \in Records :
        Keep(r) \/ Store(r) \/ Account(r) \/ Release(r) \/ Cut(r)

Spec == Init /\ [][Next]_vars
=============================================================================
