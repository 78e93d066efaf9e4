--------------------------- MODULE MCConvertFile ---------------------------
(***************************************************************************)
(* Small instances of ConvertFile for TLC.                                 *)
(***************************************************************************)
EXTENDS ConvertLedger

AllStrings ==
    Loggers \o FlattenSeq([i \in DOMAIN Loggers |-> LoggerMetrics[Loggers[i]]])
        \o <<"count", "B", "s", "MiB/s", "telemetry", "f1", "f2", "host">>

\* A byte for each string, and two for the last one.
SmallUtf8 ==
    [s \in Range(AllStrings) |->
        IF s = "host" THEN <<kUnitSeparator, kRecordSeparator>>
                      ELSE <<CHOOSE i \in DOMAIN AllStrings : AllStrings[i] = s>>]

SmallSafeChar == {"a", "b", "c", "o", "t", "h", "e", "r", "_", "/", "."}
                    \union {Digit(n) : n \in 0 .. 9}
SmallSpaceChar == {" "}
SmallCastText(n) == NumberText[n]

Text(s) == [type |-> "string", text |-> s]
Num(n) == [type |-> "number", value |-> n]
Array(e) == [type |-> "array", elements |-> e]
Object(members) == [type |-> "object", members |-> members]

Dimension(name, allowed) ==
    Object("field_name" :> Text(name) @@ "allowed_values" :> allowed)

Schema(dims) ==
    [parses |-> TRUE,
     members |-> "version" :> [type |-> "int"] @@ "dimensions" :> Array(dims)]

AnyText == Text(<<"*">>)

\* Two free dimensions; a set and a range; a field name and a value with spaces.
Free == Schema(<<Dimension(<<"a">>, AnyText), Dimension(<<"b">>, AnyText)>>)
Mixed ==
    Schema(<<Dimension(<<"a">>, Array({Text(<<"a">>), Text(<<"-">>)})),
             Dimension(<<"b">>, Text(<<"b">>)),
             Dimension(<<"c">>, Object("min" :> Num(2) @@ "max" :> Num(3)))>>)
Spaced ==
    Schema(<<Dimension(<<"a", " ">>, Array({Text(<<"a", " ", "b">>)})),
             Dimension(<<"b">>, Object("min" :> Num(2) @@ "max" :> Num(3)))>>)

BadSchemas ==
    {[Free EXCEPT !.parses = FALSE],
     [Free EXCEPT !.members = "version" :> [type |-> "int"]],
     [Free EXCEPT !.members["version"] = Text(<<"1">>)],
     Schema(<<Text(<<"a">>)>>),
     Schema(<<Object("allowed_values" :> AnyText)>>),
     Schema(<<Dimension(<<"a">>, Num(1))>>),
     Schema(<<Dimension(<<"a">>, Array({Text(<<"a">>), Num(1)}))>>),
     Schema(<<Dimension(<<"a">>, Object("min" :> Num(1)))>>)}

AllKeys == Range(ConfigKeys)

D(neg, number, fraction, quarters) ==
    [neg |-> neg, huge |-> FALSE, number |-> number, fraction |-> fraction,
     quarters |-> quarters]

Huge(neg) == [neg |-> neg, huge |-> TRUE, number |-> 0, fraction |-> 0, quarters |-> 0]

\* Every way a fraction is rounded and written, ties too.
Doubles0 ==
    {D(neg, n, f, q) : neg \in BOOLEAN, n \in {0, 9, 10},
                       f \in {0, 1, 2, 10, 99}, q \in 0 .. 3}
        \union {Huge(TRUE), Huge(FALSE)}

SmallGarbage == {<<"(">>}

One0 == D(FALSE, 1, 0, 0)

Rec(path, info, number, counts) ==
    [fate |-> "converted", path |-> path, info |-> info, number |-> number,
     counts |-> counts]

Refused == [fate |-> "refused", counts |-> {"Cache Misses", "Connection Errors"}]
Throws == [fate |-> "throws", counts |-> {"Corrupt Data"}]
End(counts) == [fate |-> "end", counts |-> counts]

File(name, size, records, counts) ==
    [name |-> name, size |-> size, records |-> Append(records, End(counts))]

Scenario(batch, config, schema, failures, files) ==
    [batch |-> batch, config |-> config, schema |-> schema, faults |-> failures,
     files |-> files]

\* One number of every kind.
Numbers0 ==
    {Scenario(TRUE, AllKeys, Free, 0,
        <<File("f1", 7, <<Rec(<<"a">>, <<>>, d, {})>>, {})>>) : d \in Doubles0}

Values == {Text(<<"a">>), Text(<<"b">>), Text(<<"-">>), Text(<<"a", "a">>),
           Text(<<"a", "/", "b">>), Num(1), Num(3), Null}

\* Pairs of records under each schema.
Paths0 ==
    {Scenario(TRUE, AllKeys, s, 0,
        <<File("f1", 7, <<Rec(<<"a", "/", "b">>, <<"a">> :> u @@ <<"b">> :> v
                                                    @@ <<"c">> :> Num(3), One0, {}),
                          Rec(<<"b">>, <<"a">> :> v @@ <<"b">> :> u @@ <<"c">> :> w, One0, {})>>,
              {})>>) :
        s \in {Free, Mixed, Spaced}, u, v \in Values, w \in {Num(1), Num(3)}}

R1 == Rec(<<"a", "/", "b">>, <<"a">> :> Text(<<"b">>) @@ <<"b">> :> Num(2)
            @@ <<"c">> :> Text(<<"a">>), D(TRUE, 10, 99, 3),
          {"Cache Hits"})

\* Two files under every fault, one of them not read to its end.
Reports0 ==
    {Scenario(FALSE, AllKeys, Mixed, 2,
        <<File("f1", 8, r, {"Corrupt Data"}), File("f2", 3, <<R1>>, {})>>) :
            r \in {<<R1, Refused>>, <<R1, Throws>>}}

\* Every place where the start can fail.
Starts0 ==
    {Scenario(FALSE, AllKeys, s, 0, <<>>) : s \in BadSchemas}
        \union {Scenario(FALSE, AllKeys \ {k}, Free, 0, <<>>) : k \in AllKeys}

SmallScenarios == Numbers0 \union Paths0 \union Reports0 \union Starts0

TieScenarios == Numbers0

=============================================================================
