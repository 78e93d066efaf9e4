---------------------------- MODULE FileDelivery ----------------------------
(***************************************************************************)
(* What the converter daemons promise about a submitted file, whatever the *)
(* directories, events, signals and failing calls by which they keep it:   *)
(* one converter takes it, only that one can deliver its records, and it   *)
(* does so at most once.  A file whose holder fails is stranded: nobody    *)
(* takes it up again.                                                      *)
(***************************************************************************)
CONSTANTS Converters, Files, Nobody

VARIABLES
    stage,   \* stage[f]: what has become of f
    holder   \* holder[f]: the converter that holds f

dvars == <<stage, holder>>

Stage == {"absent", "offered", "held", "delivered", "stranded"}

DeliveryTypeOK ==
    /\ stage \in [Files -> Stage]
    /\ holder \in [Files -> Converters \union {Nobody}]

DeliveryInit ==
    /\ stage = [f \in Files |-> "absent"]
    /\ holder = [f \in Files |-> Nobody]

Move(f, from, to) ==
    /\ stage[f] = from
    /\ stage' = [stage EXCEPT ![f] = to]

Offer(f) ==
    /\ Move(f, "absent", "offered")
    /\ UNCHANGED holder

\* A converter holds one file at a time.
Claim(c, f) ==
    /\ Move(f, "offered", "held")
    /\ \A g \in Files : holder[g] # c
    /\ holder' = [holder EXCEPT ![f] = c]

Deliver(c, f) ==
    /\ Move(f, "held", "delivered")
    /\ holder[f] = c
    /\ holder' = [holder EXCEPT ![f] = Nobody]

Strand(c, f) ==
    /\ Move(f, "held", "stranded")
    /\ holder[f] = c
    /\ holder' = [holder EXCEPT ![f] = Nobody]

DeliveryNext ==
    \E f \in Files :
        \/ Offer(f)
        \/ \E c \in Converters : Claim(c, f) \/ Deliver(c, f) \/ Strand(c, f)

DeliverySpec == DeliveryInit /\ [][DeliveryNext]_dvars

=============================================================================
