----------------------------- MODULE ValuesFormat -----------------------------
(***************************************************************************)
(* flattenValue (internal/values/yaml.go) turns a YAML document into paths *)
(* and texts.                                                              *)
(*                                                                         *)
(* A YAML document is a tree.  A key is the sequence of its dot-separated  *)
(* parts and a path a sequence of such parts and of indices, so that       *)
(* joining a prefix and a key with a dot is concatenation.  A scalar is    *)
(* its text, a sequence of characters.                                     *)
(***************************************************************************)
EXTENDS Values

Index(i) == <<"[0]", "[1]", "[2]">>[i]

\* The pairs of path and text that are assigned.
RECURSIVE flattenValue(_, _)
flattenValue(prefix, value) ==
    CASE value.kind = "map" ->
            UNION {flattenValue(prefix \o key, value.of[key]) :
                      key \in DOMAIN value.of}
      [] value.kind = "list" ->
            UNION {flattenValue(Append(prefix, Index(i)), value.of[i]) :
                      i \in DOMAIN value.of}
      [] value.kind = "scalar" -> {<<prefix, value.text>>}
      [] value.kind = "null" -> {<<prefix, << >>>>}

\* parseYAML starts with an empty prefix.
FlattenedYAML(document) == flattenValue(<< >>, document)
=============================================================================
