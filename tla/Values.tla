-------------------------------- MODULE Values --------------------------------
(***************************************************************************)
(* The values resolver (internal/values): ResolveValues reads the sources  *)
(* of spec.converge.valuesFrom one by one, each from the bundle's          *)
(* namespace or else from the target namespace, parses their documents and *)
(* merges them, while others create, change and delete the ConfigMaps and  *)
(* Secrets, and GenerateSetFlags turns the result into --set arguments.    *)
(* What a document says is a parameter here; ValuesFormat has the          *)
(* flattening of YAML.                                                     *)
(***************************************************************************)
EXTENDS SetFlags, FiniteSets

CONSTANTS
    Names,            \* names of ConfigMaps and Secrets
    NoName,           \* stands for a source without a reference or a name
    Specs,            \* the specs users write
    Absent,           \* stands for an object that does not exist
    Contents,         \* what ConfigMaps and Secrets may hold: sets of documents
    MaxStores,        \* bound: how many states of the store a call meets
    Flattened(_)      \* the pairs of path and text that a document assigns

Malformed == [kind |-> "malformed"]
Objects == Names \X {"bundle", "target"}

\* valuesFrom, and whether the target namespace is the bundle's own.
ValuesSource == [name : Names \union {NoName}, optional : BOOLEAN]

\* A path or a scalar: a sequence of key parts, or of characters.
Text == Seq(STRING)

ASSUME ValuesAssumption ==
    /\ \A s \in Specs : s.sources \in Seq(ValuesSource) \ {<< >>}
    /\ \A s \in Specs : s.sameNamespace \in BOOLEAN
    /\ NoName \notin Names
    /\ Absent \in Contents
    /\ \A data \in Contents \ {Absent} :
          /\ IsFiniteSet(data)
          /\ \A document \in data \ {Malformed} :
                \A a \in Flattened(document) : a = <<a[1], a[2]>> /\ {a[1], a[2]} \subseteq Text
    /\ MaxStores \in Nat

VARIABLES
    spec,        \* the spec of the bundle
    store,       \* the ConfigMaps and Secrets, each the set of its documents
    call,        \* the ResolveValues call
    past         \* history: what the store held since the call began

vars == <<spec, store, call, past>>

-----------------------------------------------------------------------------
(* Pure parts                                                              *)

\* The maps a set of assignments in Go's map order may leave behind: two keys
\* that differ in where their dots come from may assign the same path.
Outcomes(pairs) ==
    {m \in [{pair[1] : pair \in pairs} -> {pair[2] : pair \in pairs}] :
        \A p \in DOMAIN m : <<p, m[p]>> \in pairs}

parseYAML(document) == Outcomes(Flattened(document))

Having(maps, p) == {i \in DOMAIN maps : p \in DOMAIN maps[i]}
Keys(maps) == UNION {DOMAIN maps[i] : i \in DOMAIN maps}

\* Mutant of mergeMaps: what is there already stays.
mergeMapsFirst(maps) ==
    [p \in Keys(maps) |->
        maps[CHOOSE i \in Having(maps, p) : \A j \in Having(maps, p) : i <= j][p]]

\* Of several maps that have a key, the last one's value stays.
mergeMaps(maps) ==
    [p \in Keys(maps) |->
        maps[CHOOSE i \in Having(maps, p) : \A j \in Having(maps, p) : j <= i][p]]

\* One --set argument per path, in the order of the paths.
GenerateSetFlags(values) == [p \in DOMAIN values |-> escapeValue(values[p])]

\* The orders in which Go may range over the documents of one object.
Orders(data) ==
    {order \in [1..Cardinality(data) -> data] :
        \A d \in data : \E i \in DOMAIN order : order[i] = d}

\* The documents of one object, parsed and merged in such an order.
parseAndMergeConfigMapData(data) ==
    UNION {{mergeMaps(maps) : maps \in
                {ms \in [DOMAIN order -> UNION {parseYAML(d) : d \in data}] :
                    \A i \in DOMAIN order : ms[i] \in parseYAML(order[i])}} :
           order \in Orders(data)}

-----------------------------------------------------------------------------
Sources == spec.sources

Idle == [pc |-> "idle", i |-> 0, maps |-> << >>, values |-> << >>]

TypeOK ==
    /\ spec \in Specs
    /\ store \in [Objects -> Contents]
    /\ call.pc \in {"idle", "bundle", "target", "resolved", "failed"}
    /\ call.i \in 0..Len(Sources)
    /\ Len(call.maps) <= call.i
    /\ \A m \in {call.values} \union {call.maps[k] : k \in DOMAIN call.maps} :
          \A p \in DOMAIN m : p \in Text /\ m[p] \in Text
    /\ past \subseteq [Objects -> Contents]

\* The objects that this call may read.
Named == {o \in Objects : \E k \in DOMAIN Sources : Sources[k].name = o[1]}

Init ==
    /\ spec \in Specs
    /\ store \in [Objects -> Contents]
    /\ \A o \in Objects \ Named : store[o] = Absent
    /\ call = Idle
    /\ past = {store}

Resolving == call.pc \in {"bundle", "target"}
Source == Sources[call.i]

\* Mutant of Advance: one source too many.
AdvancePast(maps) ==
    call' = IF call.i > Len(Sources)
            THEN [call EXCEPT !.pc = "resolved", !.maps = maps,
                              !.values = mergeMaps(maps)]
            ELSE [call EXCEPT !.pc = "bundle", !.i = @ + 1, !.maps = maps]

\* The next source, or the result after the last.
Advance(maps) ==
    call' = IF call.i = Len(Sources)
            THEN [call EXCEPT !.pc = "resolved", !.maps = maps,
                              !.values = mergeMaps(maps)]
            ELSE [call EXCEPT !.pc = "bundle", !.i = @ + 1, !.maps = maps]

Fail == call' = [call EXCEPT !.pc = "failed"]

ResolveValues ==
    /\ call.pc = "idle"
    /\ Advance(<< >>)
    /\ UNCHANGED <<spec, store, past>>

\* Neither a ConfigMapRef nor a SecretRef, or one without a name.
InvalidSource ==
    /\ call.pc = "bundle" /\ Source.name = NoName
    /\ Fail
    /\ UNCHANGED <<spec, store, past>>

\* fetchConfigMap and fetchSecret found the object.
Found(data) ==
    IF Malformed \in data THEN Fail
    ELSE \E m \in parseAndMergeConfigMapData(data) :
            Advance(Append(call.maps, m))

\* Mutant of NotFound: every source is taken for optional.
NotFoundSkips == Advance(call.maps)

NotFound == IF Source.optional THEN Advance(call.maps) ELSE Fail

GetFromBundle ==
    LET data == store[<<Source.name, "bundle">>]
    IN  /\ call.pc = "bundle" /\ Source.name # NoName
        /\ IF data # Absent THEN Found(data)
           ELSE IF spec.sameNamespace THEN NotFound
           ELSE call' = [call EXCEPT !.pc = "target"]
        /\ UNCHANGED <<spec, store, past>>

GetFromTarget ==
    LET data == store[<<Source.name, "target">>]
    IN  /\ call.pc = "target"
        /\ IF data # Absent THEN Found(data) ELSE NotFound
        /\ UNCHANGED <<spec, store, past>>

\* An error other than NotFound, also for an optional source.
GetFails ==
    /\ Resolving
    /\ Fail
    /\ UNCHANGED <<spec, store, past>>

\* Others change an object while the call runs.
Change(o) ==
    /\ Resolving /\ o \in Named
    /\ \E data \in Contents \ {store[o]} : store' = [store EXCEPT ![o] = data]
    /\ past' = past \union {store'}
    /\ Cardinality(past') <= MaxStores
    /\ UNCHANGED <<spec, call>>

Next ==
    \/ ResolveValues \/ InvalidSource \/ GetFromBundle \/ GetFromTarget
    \/ GetFails
    \/ \E o \in Objects : Change(o)

Spec == Init /\ [][Next]_vars

-----------------------------------------------------------------------------
\* What an object assigns, and what it assigns whichever order Go chooses.
Assigned(data) ==
    UNION {Flattened(d) : d \in data \ {Malformed}}
Fixed(data) ==
    {a \in Assigned(data) : \A b \in Assigned(data) : b[1] = a[1] => b = a}

\* What source k's object in namespace ns has been during the call.
Versions(k, ns) == {s[<<Sources[k].name, ns>>] : s \in past}

\* What source k set all through the call, from the same namespace.
Steady(k) ==
    LET bundle == Versions(k, "bundle")
        target == Versions(k, "target")
        versions == IF bundle = {Absent} /\ ~spec.sameNamespace THEN target
                                                               ELSE bundle
    IN  IF Absent \in versions THEN {}
        ELSE {a \in Assigned(CHOOSE d \in versions : TRUE) :
                 \A d \in versions : a \in Fixed(d)}

MentionedPaths(k) ==
    {a[1] : a \in UNION {Assigned(d) : d \in
        (Versions(k, "bundle") \union Versions(k, "target")) \ {Absent}}}

(***************************************************************************)
(* "Sources are processed in array order; later sources override earlier   *)
(* ones", and the bundle's namespace comes first: a value that a source    *)
(* sets all through the call, and no later source mentions, is the one     *)
(* that is passed on, whatever else others change during the call          *)
(* (ResolveValues, fetchConfigMap, mergeMaps).                             *)
(***************************************************************************)
PrecedenceHolds ==
    call.pc = "resolved" =>
        \A k \in DOMAIN Sources :
            LET later == UNION {MentionedPaths(l) : l \in (k + 1)..Len(Sources)}
            IN  \A a \in Steady(k) :
                    a[1] \notin later =>
                        a[1] \in DOMAIN call.values /\ call.values[a[1]] = a[2]

(***************************************************************************)
(* "Returns error if any required source is missing": values are returned  *)
(* only if every required source was there at some time during the call,   *)
(* and optional covers a missing object only, not a malformed one          *)
(* (ResolveValues, isNotFoundError).                                       *)
(***************************************************************************)
SourcesAreComplete ==
    call.pc = "resolved" =>
        \A k \in DOMAIN Sources :
            LET bundle == Versions(k, "bundle")
                target == Versions(k, "target")
            IN  /\ Sources[k].name \in Names
                /\ \/ Sources[k].optional
                   \/ bundle # {Absent}
                   \/ ~spec.sameNamespace /\ target # {Absent}
                /\ \E d \in bundle : d = Absent \/ Malformed \notin d
                /\ bundle = {Absent} /\ ~spec.sameNamespace =>
                      \E d \in target : d = Absent \/ Malformed \notin d

\* The values that Helm reads from their --set arguments as one text each,
\* whole and unchanged.
ReadBack ==
    LET flags == GenerateSetFlags(call.values)
    IN  {p \in DOMAIN call.values :
            HelmReads(flags[p]) = Reading(call.values[p])}

BeginsWithBrace(text) == text # << >> /\ text[1] = "{"

(***************************************************************************)
(* A value survives the command line unless it begins with a brace: from   *)
(* the --set argument Helm reads one text with exactly its characters,     *)
(* whatever commas, brackets, equals signs and backslashes are in it       *)
(* (GenerateSetFlags, escapeValue).  A leading brace is not escaped, and   *)
(* Helm takes such a value for a list.  The type that Helm then gives the  *)
(* text, a number or a boolean for some, is not part of the claim.         *)
(***************************************************************************)
FlagsReadBack ==
    \A p \in DOMAIN call.values :
        p \in ReadBack \/ BeginsWithBrace(call.values[p])
=============================================================================
