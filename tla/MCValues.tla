------------------------------- MODULE MCValues -------------------------------
(* Documents and sources with which TLC checks the values resolver.        *)
EXTENDS ValuesFormat, TLC

Scalar(text) == [kind |-> "scalar", text |-> text]
List(values) == [kind |-> "list", of |-> values]
Null == [kind |-> "null"]
Map(values) == [kind |-> "map", of |-> values]

\* app.port: x
Flat == Map(<<"app", "port">> :> Scalar(<<"x">>))
\* app: {port: "a,\="}
Nested == Map(<<"app">> :> Map(<<"port">> :> Scalar(<<"a", ",", "\\", "=">>)))
\* app.port: null, hosts: ["[y]", "{z"]
Dotted ==
    Map(<<"app", "port">> :> Null
        @@ <<"hosts">> :> List(<<Scalar(<<"[", "y", "]">>), Scalar(<<"{", "z">>)>>))

Base == [name |-> "base", optional |-> FALSE]
Extra == [name |-> "extra", optional |-> TRUE]
Unnamed == [name |-> NoName, optional |-> TRUE]

From(sources, same) == [sources |-> sources, sameNamespace |-> same]
MCSpecs ==
    {From(<<Base, Extra>>, FALSE), From(<<Extra>>, TRUE),
     From(<<Unnamed>>, FALSE)}
MCContents == {Absent, {Flat}, {Nested, Dotted}, {Malformed}}
=============================================================================
