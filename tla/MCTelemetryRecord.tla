------------------------- MODULE MCTelemetryRecord -------------------------
(***************************************************************************)
(* Small instances of TelemetryRecord for TLC: all streams of a few        *)
(* segments.                                                               *)
(***************************************************************************)
EXTENDS TelemetryRecord, TLC

\* 2 is the separator, and a legal data length, too.
SmallBody ==
    0 :> "parseFailure" @@ 1 :> "inflateFailure" @@ 2 :> "parseFailure"
        @@ 3 :> "record" @@ 4 :> "throws"

Good == {<<2, 0, 1, 0, 3>>,        \* an empty path
         <<2, 1, 1, 2, 2, 3>>,     \* the separator as timestamp and path
         <<2, 1, 2, 0, 0, 3, 2>>}  \* ... as length and in the data

Bad == {<<2, 0, 0, 0>>,            \* no data
        <<2, 0, 2, 0, 0, 2>>,      \* data that do not parse
        <<2, 0, 1, 0, 1>>,         \* data that do not inflate
        <<2, 0, 1, 0, 4>>,         \* data that inflate for ever
        <<2, 3, 1, 0>>,            \* too long a path
        <<2, 1, 4, 2>>}            \* too much data

Cells == {<<x>> : x \in Cell}

Segments == Good \union Bad \union Cells

SmallStreams ==
    {s \o t \o u \o v : s, t, u, v \in Segments \union {<<>>}}

CleanStreams == {s \o t : s, t \in Good}

=============================================================================
