-------------------------- MODULE ConvertDelivery --------------------------
(***************************************************************************)
(* The file loop of Convert implements FileDelivery when no name is        *)
(* submitted twice.                                                        *)
(***************************************************************************)
EXTENDS Convert

CONSTANT Nobody

ASSUME NobodyAssumption == Nobody \notin Converters

\* From the rename() to the end of the record loop.
Holds(c, f) == pc[c] \in {"open", "read"} /\ fn[c] = NameOf[f]

Status(f) ==
    CASE writer[f] = "none" -> "absent"
      [] writer[f] # "none" /\ input[NameOf[f]] = f -> "offered"
      [] writer[f] # "none" /\ input[NameOf[f]] # f ->
            IF seen[f] # "nothing" THEN "delivered"
            ELSE IF \E c \in Converters : Holds(c, f) THEN "held"
            ELSE "stranded"

Holder(f) ==
    IF Status(f) = "held"
      THEN CHOOSE c \in Converters : Holds(c, f)
      ELSE Nobody

Delivery == INSTANCE FileDelivery WITH
    stage  <- [f \in Files |-> Status(f)],
    holder <- [f \in Files |-> Holder(f)]

\* Every step of the converters, the producers and the failures is a step of
\* FileDelivery or leaves what it describes unchanged: a file is taken by one
\* converter, delivered by that one and at most once, and never comes back.
ImplementsDelivery == Delivery!DeliverySpec

=============================================================================
