----------------------------- MODULE ExactlyOnce -----------------------------
(***************************************************************************)
(* What the replay of offline mutations promises (the description of       *)
(* api/sync/playback: "Uses idempotency keys to prevent duplicate          *)
(* processing"): a mutation that was handed over is in effect at most once *)
(* at a time, only one of those that exclude each other is, and an effect  *)
(* ends only because somebody withdraws it.                                *)
(***************************************************************************)
CONSTANTS
    Mutations,
    Exclusive   \* Exclusive[m]: the mutations that cannot take effect beside m

VARIABLE effect \* effect[m]: "offered", "accepted" or "applied"

Stages == {"offered", "accepted", "applied"}

Init == effect = [m \in Mutations |-> "offered"]

Accept(m) ==
    /\ effect[m] = "offered"
    /\ effect' = [effect EXCEPT ![m] = "accepted"]

Apply(m) ==
    /\ effect[m] = "accepted"
    /\ \A n \in Exclusive[m] : effect[n] # "applied"
    /\ effect' = [effect EXCEPT ![m] = "applied"]

(* From outside: the row is deleted by hand. *)
Withdraw(m) ==
    /\ effect[m] = "applied"
    /\ effect' = [effect EXCEPT ![m] = "accepted"]

Next == \E m \in Mutations : Accept(m) \/ Apply(m) \/ Withdraw(m)

Spec == Init /\ [][Next]_effect
=============================================================================
