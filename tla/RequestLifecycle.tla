-------------------------- MODULE RequestLifecycle --------------------------
(***************************************************************************)
(* What the scheduler service promises about one request, free of queues,  *)
(* cycles and accounting: requests arrive in order, each is granted at     *)
(* most once, the grant stays on one host until it lapses or is withdrawn, *)
(* and neither a lapsed nor a withdrawn request ever comes back.           *)
(***************************************************************************)
EXTENDS Integers

CONSTANTS HostIds, MaxRequests

VARIABLES
    phase,     \* phase[i]: how far request i got
    holder     \* holder[i]: the host it is granted on, or "none"

RequestIds == 1 .. MaxRequests

Init ==
    /\ phase = [i \in RequestIds |-> "new"]
    /\ holder = [i \in RequestIds |-> "none"]

Submit(i) ==
    /\ phase[i] = "new"
    /\ \A j \in RequestIds : j < i => phase[j] # "new"
    /\ phase' = [phase EXCEPT ![i] = "waiting"]
    /\ UNCHANGED holder

Grant(i, h) ==
    /\ phase[i] = "waiting"
    /\ phase' = [phase EXCEPT ![i] = "granted"]
    /\ holder' = [holder EXCEPT ![i] = h]

Lapse(i) ==
    /\ phase[i] = "granted"
    /\ phase' = [phase EXCEPT ![i] = "lapsed"]
    /\ holder' = [holder EXCEPT ![i] = "none"]

Withdraw(i) ==
    /\ phase[i] \in {"waiting", "granted", "lapsed"}
    /\ phase' = [phase EXCEPT ![i] = "withdrawn"]
    /\ holder' = [holder EXCEPT ![i] = "none"]

Next == \E i \in RequestIds :
            \/ Submit(i)
            \/ \E h \in HostIds : Grant(i, h)
            \/ Lapse(i)
            \/ Withdraw(i)

Spec == Init /\ [][Next]_<<phase, holder>>

============================================================================
