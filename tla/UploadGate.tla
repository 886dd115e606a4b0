----------------------------- MODULE UploadGate -----------------------------
(***************************************************************************)
(* What the upload path promises about one upload, without queues, pods,   *)
(* outboxes or retries (ADR-048): its content becomes searchable only      *)
(* after the scanner has promoted it and the manifest has recorded the     *)
(* promotion, and no stage is ever undone.                                 *)
(***************************************************************************)
CONSTANT Docs

VARIABLES stage,    \* how far an upload has come
          promoted  \* uploads whose bytes the scanner has promoted

Stages == {"absent", "quarantined", "cleared", "searchable"}

Init == stage = [d \in Docs |-> "absent"] /\ promoted = {}

Move(d, from, to) ==
    /\ stage[d] = from
    /\ stage' = [stage EXCEPT ![d] = to]
    /\ UNCHANGED promoted

Accept(d) == Move(d, "absent", "quarantined")

Promote(d) ==
    /\ stage[d] # "absent"
    /\ promoted' = promoted \cup {d}
    /\ UNCHANGED stage

Clear(d) == d \in promoted /\ Move(d, "quarantined", "cleared")

Expose(d) == Move(d, "cleared", "searchable")

Next == \E d \in Docs : Accept(d) \/ Promote(d) \/ Clear(d) \/ Expose(d)

vars == <<stage, promoted>>

Spec == Init /\ [][Next]_vars
=============================================================================
