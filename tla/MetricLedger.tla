---------------------------- MODULE MetricLedger ----------------------------
(***************************************************************************)
(* What the metrics promise, whatever the components, files, exceptions    *)
(* and streams between: everything counted waits for a report, then for    *)
(* the log file, and is filed there once; only what is on its way while    *)
(* the log cannot be written may get lost.                                 *)
(***************************************************************************)
EXTENDS Integers

CONSTANT Counter

VARIABLES
    counted,  \* all that has happened so far, per counter
    pending,  \* in the metrics
    unsent,   \* in the stream
    filed,    \* in the log file
    broken    \* the log cannot be written

lvars == <<counted, pending, unsent, filed, broken>>

Amounts == [Counter -> Nat]

None == [n \in Counter |-> 0]

LedgerInit ==
    /\ counted = None /\ pending = None /\ unsent = None /\ filed = None
    /\ broken = TRUE

\* What has left a has come to b.
Moved(a, a2, b, b2) ==
    /\ a2 \in Amounts /\ b2 \in Amounts
    /\ \A n \in Counter : a2[n] <= a[n] /\ a[n] - a2[n] = b2[n] - b[n]

\* As much as a has grown, so has b.
Grown(a, a2, b, b2) ==
    /\ a2 \in Amounts /\ b2 \in Amounts
    /\ \A n \in Counter : a[n] <= a2[n] /\ a2[n] - a[n] = b2[n] - b[n]

Less(a, a2) == a2 \in Amounts /\ \A n \in Counter : a2[n] <= a[n]
More(a, a2) == a2 \in Amounts /\ \A n \in Counter : a[n] <= a2[n]

\* Something happens and is counted.
Count ==
    /\ Grown(counted, counted', pending, pending')
    /\ UNCHANGED <<unsent, filed, broken>>

\* A component reports.
Hand ==
    /\ Moved(pending, pending', unsent, unsent')
    /\ UNCHANGED <<counted, filed, broken>>

\* The file takes some of what the stream has.
Settle ==
    /\ Moved(unsent, unsent', filed, filed')
    /\ broken' \in BOOLEAN
    /\ UNCHANGED <<counted, pending>>

\* The rest is dropped, from the metrics as well when nobody takes them.
Lose ==
    /\ broken \/ broken'
    /\ broken' \in BOOLEAN
    /\ Less(pending, pending') /\ Less(unsent, unsent')
    /\ More(filed, filed')
    /\ \A n \in Counter :
          pending'[n] + unsent'[n] + filed'[n] <= pending[n] + unsent[n] + filed[n]
    /\ UNCHANGED counted

LedgerNext == Count \/ Hand \/ Settle \/ Lose

LedgerSpec == LedgerInit /\ [][LedgerNext]_lvars

=============================================================================
