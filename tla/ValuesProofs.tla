----------------------------- MODULE ValuesProofs -----------------------------
(***************************************************************************)
(* Proofs about the values resolver, for any sources, any contents of the  *)
(* ConfigMaps and Secrets, any way to flatten a document and any number of *)
(* changes during a call.                                                  *)
(***************************************************************************)
EXTENDS Values, FiniteSetTheorems, SequenceTheorems, TLAPS

-----------------------------------------------------------------------------
(* Merging                                                                 *)

\* Every nonempty set of positions has a last one.
LEMMA LastPosition ==
    ASSUME NEW n \in Nat, NEW I \in SUBSET (1..n), I # {}
    PROVE  \E i \in I : \A j \in I : j <= i
  <1> DEFINE before == {pair \in Nat \X Nat : pair[1] < pair[2]}
             T == {n - i : i \in I}
  <1>1. IsWellFoundedOn(before, Nat)
    BY NatLessThanWellFounded DEF OpToRel
  <1>2. T \subseteq Nat /\ T # {}
    <2>1. \A i \in I : n - i \in Nat
      OBVIOUS
    <2> QED BY <2>1
  <1> HIDE DEF before, T
  <1>3. PICK t \in T : \A u \in T : ~(<<u, t>> \in before)
    BY <1>1, <1>2, WFMin
  <1>4. \A u \in T : u \in Nat /\ t \in Nat /\ ~(u < t)
    BY <1>2, <1>3 DEF before
  <1>5. PICK i \in I : t = n - i
    BY DEF T
  <1>6. ASSUME NEW j \in I
        PROVE  j <= i
    <2>1. n - j \in T
      BY DEF T
    <2>2. ~(n - j < n - i)
      BY <1>4, <1>5, <2>1
    <2> QED BY <2>2
  <1> QED BY <1>6

\* A position before which no map matters: mergeMaps takes its value.
LEMMA MergedValue ==
    ASSUME NEW n \in Nat, NEW maps, DOMAIN maps = 1..n,
           NEW p \in Keys(maps)
    PROVE  \E i \in Having(maps, p) :
              /\ \A j \in Having(maps, p) : j <= i
              /\ mergeMaps(maps)[p] = maps[i][p]
  <1> DEFINE I == Having(maps, p)
             Is(i) == \A j \in I : j <= i
  <1>1. I \in SUBSET (1..n) /\ I # {}
    BY DEF Having, Keys
  <1> HIDE DEF I
  <1>2. \E i \in I : Is(i)
    BY <1>1, LastPosition
  <1>3. (CHOOSE i \in I : Is(i)) \in I /\ Is(CHOOSE i \in I : Is(i))
    BY <1>2
  <1>4. mergeMaps(maps)[p] = maps[CHOOSE i \in I : Is(i)][p]
    BY DEF mergeMaps, I
  <1> QED BY <1>3, <1>4 DEF I

LEMMA MergedKeys == ASSUME NEW maps PROVE DOMAIN mergeMaps(maps) = Keys(maps)
  BY DEF mergeMaps

\* The map that comes last overrides the others and leaves the rest alone.
LEMMA MergeAppend ==
    ASSUME NEW S, NEW maps \in Seq(S), NEW m \in S
    PROVE  /\ Keys(Append(maps, m)) = Keys(maps) \union DOMAIN m
           /\ \A p \in DOMAIN m : mergeMaps(Append(maps, m))[p] = m[p]
           /\ \A p \in Keys(maps) \ DOMAIN m :
                 mergeMaps(Append(maps, m))[p] = mergeMaps(maps)[p]
  <1> DEFINE n == Len(maps)
             more == Append(maps, m)
  <1>1. n \in Nat /\ DOMAIN maps = 1..n /\ DOMAIN more = 1..(n + 1)
    OBVIOUS
  <1>2. more[n + 1] = m /\ \A i \in 1..n : more[i] = maps[i]
    OBVIOUS
  <1>3. n + 1 \in 1..(n + 1) /\ \A i \in 1..(n + 1) : i \in 1..n \/ i = n + 1
    BY <1>1
  <1>4. \A i \in 1..n : i \in 1..(n + 1) /\ ~(n + 1 <= i)
    BY <1>1
  <1> HIDE DEF more, n
  <1>5. Keys(more) = Keys(maps) \union DOMAIN m
    BY <1>1, <1>2, <1>3, <1>4 DEF Keys
  <1>6. ASSUME NEW p \in DOMAIN m
        PROVE  mergeMaps(more)[p] = m[p]
    <2>1. n + 1 \in Having(more, p)
      BY <1>1, <1>2, <1>3 DEF Having
    <2>2. PICK i \in Having(more, p) :
             /\ \A j \in Having(more, p) : j <= i
             /\ mergeMaps(more)[p] = more[i][p]
      BY <1>1, <1>5, MergedValue
    <2>3. i = n + 1
      BY <1>1, <1>3, <1>4, <2>1, <2>2 DEF Having
    <2> QED BY <1>2, <2>2, <2>3
  <1>7. ASSUME NEW p \in Keys(maps) \ DOMAIN m
        PROVE  mergeMaps(more)[p] = mergeMaps(maps)[p]
    <2>1. Having(more, p) = Having(maps, p)
      BY <1>1, <1>2, <1>3, <1>4 DEF Having
    <2>2. PICK i \in Having(maps, p) :
             /\ \A j \in Having(maps, p) : j <= i
             /\ mergeMaps(maps)[p] = maps[i][p]
      BY <1>1, MergedValue
    <2>3. PICK k \in Having(more, p) :
             /\ \A j \in Having(more, p) : j <= k
             /\ mergeMaps(more)[p] = more[k][p]
      BY <1>1, <1>5, MergedValue
    <2>4. i \in 1..n /\ k \in 1..n
      BY <1>1, <2>1 DEF Having
    <2>5. i <= k /\ k <= i
      BY <2>1, <2>2, <2>3
    <2>6. i = k
      BY <2>4, <2>5
    <2> QED BY <1>2, <2>2, <2>3, <2>4, <2>6
  <1> QED BY <1>5, <1>6, <1>7 DEF more

-----------------------------------------------------------------------------
(* Parsing                                                                 *)

\* Maps of paths and texts.
IsMap(m) == m = [p \in DOMAIN m |-> m[p]] /\ \A p \in DOMAIN m : p \in Text /\ m[p] \in Text

\* An object's documents, none of them malformed.
IsData(data) ==
    data \in Contents /\ data # Absent /\ Malformed \notin data

LEMMA AssignedPairs ==
    ASSUME NEW data, IsData(data), NEW a \in Assigned(data)
    PROVE  a = <<a[1], a[2]>> /\ a[1] \in Text /\ a[2] \in Text
  BY ValuesAssumption DEF IsData, Assigned

\* Whatever the order, a map has only what its documents assign, and all that
\* they assign without contradicting each other.
LEMMA ParsedMap ==
    ASSUME NEW data, IsData(data), NEW m \in parseAndMergeConfigMapData(data)
    PROVE  /\ IsMap(m)
           /\ \A p \in DOMAIN m : <<p, m[p]>> \in Assigned(data)
           /\ \A a \in Fixed(data) : a[1] \in DOMAIN m /\ m[a[1]] = a[2]
  <1>1. PICK order \in Orders(data) :
          \E maps \in [DOMAIN order -> UNION {parseYAML(d) : d \in data}] :
              /\ \A i \in DOMAIN order : maps[i] \in parseYAML(order[i])
              /\ m = mergeMaps(maps)
    BY DEF parseAndMergeConfigMapData
  <1>2. PICK maps \in [DOMAIN order -> UNION {parseYAML(d) : d \in data}] :
              /\ \A i \in DOMAIN order : maps[i] \in parseYAML(order[i])
              /\ m = mergeMaps(maps)
    BY <1>1
  <1> DEFINE n == Cardinality(data)
  <1>3. IsFiniteSet(data)
    BY ValuesAssumption DEF IsData
  <1>4. n \in Nat
    BY <1>3, FS_CardinalityType
  <1>5. DOMAIN order = 1..n /\ DOMAIN maps = 1..n
    BY <1>1, <1>2 DEF Orders
  <1>6. \A i \in 1..n : order[i] \in data \ {Malformed}
    BY <1>1, <1>5 DEF Orders, IsData
  <1>7. \A d \in data : \E i \in 1..n : order[i] = d
    BY <1>1, <1>5 DEF Orders
  <1> HIDE DEF n
  <1>8. ASSUME NEW i \in 1..n
        PROVE  /\ DOMAIN maps[i] = {a[1] : a \in Flattened(order[i])}
               /\ \A p \in DOMAIN maps[i] : <<p, maps[i][p]>> \in Flattened(order[i])
    BY <1>2, <1>5 DEF parseYAML, Outcomes
  <1>9. DOMAIN m = Keys(maps) /\ m = [p \in DOMAIN m |-> m[p]]
    BY <1>2 DEF mergeMaps
  <1>10. ASSUME NEW p \in DOMAIN m
         PROVE  <<p, m[p]>> \in Assigned(data)
    <2>1. PICK i \in Having(maps, p) : m[p] = maps[i][p]
      BY <1>2, <1>4, <1>5, <1>9, MergedValue
    <2>2. i \in 1..n /\ p \in DOMAIN maps[i]
      BY <1>5 DEF Having
    <2>3. <<p, m[p]>> \in Flattened(order[i])
      BY <1>8, <2>1, <2>2
    <2> QED BY <1>6, <2>2, <2>3 DEF Assigned
  <1>11. ASSUME NEW a \in Fixed(data)
         PROVE  a[1] \in DOMAIN m /\ m[a[1]] = a[2]
    <2>1. a \in Assigned(data) /\ \A b \in Assigned(data) : b[1] = a[1] => b = a
      BY DEF Fixed
    <2>2. PICK d \in data : a \in Flattened(d)
      BY <2>1 DEF Assigned
    <2>3. PICK i \in 1..n : order[i] = d
      BY <1>7
    <2>4. a[1] \in DOMAIN maps[i]
      BY <1>8, <2>2, <2>3
    <2>5. a[1] \in DOMAIN m
      BY <1>5, <1>9, <2>4 DEF Keys
    <2>6. <<a[1], m[a[1]]>> \in Assigned(data)
      BY <1>10, <2>5
    <2>7. <<a[1], m[a[1]]>> = a
      BY <2>1, <2>6
    <2> QED BY <2>5, <2>7
  <1>12. ASSUME NEW p \in DOMAIN m
         PROVE  p \in Text /\ m[p] \in Text
    <2> DEFINE a == <<p, m[p]>>
    <2>1. a \in Assigned(data)
      BY <1>10
    <2>2. a[1] = p /\ a[2] = m[p]
      OBVIOUS
    <2> HIDE DEF a
    <2>3. a[1] \in Text /\ a[2] \in Text
      BY <2>1, AssignedPairs
    <2> QED BY <2>2, <2>3
  <1> QED BY <1>9, <1>10, <1>11, <1>12 DEF IsMap

\* The maps that sources come to.
AllMaps == UNION {[S -> Text] : S \in SUBSET Text}

LEMMA MapsAreMaps == \A m : IsMap(m) <=> m \in AllMaps
  <1>1. ASSUME NEW m, IsMap(m)
        PROVE  m \in AllMaps
    <2>1. m \in [DOMAIN m -> Text] /\ DOMAIN m \in SUBSET Text
      BY <1>1 DEF IsMap
    <2> QED BY <2>1 DEF AllMaps
  <1>2. ASSUME NEW m \in AllMaps
        PROVE  IsMap(m)
    <2>1. PICK S \in SUBSET Text : m \in [S -> Text]
      BY <1>2 DEF AllMaps
    <2> QED BY <2>1 DEF IsMap
  <1> QED BY <1>1, <1>2

\* Merging keeps to paths and texts.
LEMMA MergedMap ==
    ASSUME NEW maps \in Seq(AllMaps)
    PROVE  mergeMaps(maps) \in AllMaps
  <1> DEFINE n == Len(maps)
             merged == mergeMaps(maps)
  <1>1. n \in Nat /\ DOMAIN maps = 1..n /\ \A i \in 1..n : maps[i] \in AllMaps
    OBVIOUS
  <1> HIDE DEF n
  <1>2. DOMAIN merged = Keys(maps) /\ merged = [p \in DOMAIN merged |-> merged[p]]
    BY DEF mergeMaps
  <1>3. ASSUME NEW p \in Keys(maps)
        PROVE  p \in Text /\ merged[p] \in Text
    <2>1. PICK i \in Having(maps, p) : merged[p] = maps[i][p]
      BY <1>1, MergedValue
    <2>2. i \in 1..n /\ p \in DOMAIN maps[i]
      BY <1>1 DEF Having
    <2>3. IsMap(maps[i])
      BY <1>1, <2>2, MapsAreMaps
    <2> QED BY <2>1, <2>2, <2>3 DEF IsMap
  <1> HIDE DEF merged
  <1>4. IsMap(merged)
    BY <1>2, <1>3 DEF IsMap
  <1> QED BY <1>4, MapsAreMaps DEF merged

-----------------------------------------------------------------------------
(* What a source says during a call                                        *)

\* The versions of source k's object in the namespace it comes from.
Decisive(k) ==
    IF Versions(k, "bundle") = {Absent} /\ ~spec.sameNamespace
    THEN Versions(k, "target") ELSE Versions(k, "bundle")

LEMMA SteadyIsFixed ==
    ASSUME NEW k, NEW a \in Steady(k)
    PROVE  Absent \notin Decisive(k) /\ \A d \in Decisive(k) : a \in Fixed(d)
  BY DEF Steady, Decisive

LEMMA FixedIsSteady ==
    ASSUME NEW k, NEW a, Decisive(k) # {}, Absent \notin Decisive(k),
           \A d \in Decisive(k) : a \in Fixed(d)
    PROVE  a \in Steady(k)
  <1>1. (CHOOSE d \in Decisive(k) : TRUE) \in Decisive(k)
    OBVIOUS
  <1>2. a \in Assigned(CHOOSE d \in Decisive(k) : TRUE)
    BY <1>1 DEF Fixed
  <1> QED BY <1>2 DEF Steady, Decisive

\* A source that was missing where it was looked up, or came from the target
\* although the bundle's namespace had it at another time, says nothing.
LEMMA MissingIsNotSteady ==
    ASSUME NEW k, Absent \in Versions(k, "bundle"),
           \/ spec.sameNamespace
           \/ Absent \in Versions(k, "target")
           \/ Versions(k, "bundle") # {Absent}
    PROVE  Steady(k) = {}
  BY SteadyIsFixed DEF Decisive

\* What source k needs for the call to succeed.
Complete(k) ==
    /\ Sources[k].name \in Names
    /\ \/ Sources[k].optional
       \/ Versions(k, "bundle") # {Absent}
       \/ ~spec.sameNamespace /\ Versions(k, "target") # {Absent}
    /\ \E d \in Versions(k, "bundle") : d = Absent \/ Malformed \notin d
    /\ Versions(k, "bundle") = {Absent} /\ ~spec.sameNamespace =>
          \E d \in Versions(k, "target") : d = Absent \/ Malformed \notin d

\* What source k says is in the merged maps, unless one of the sources up to
\* n that follow mentions the same path.
Kept(k, n, maps) ==
    \A a \in Steady(k) :
        a[1] \notin UNION {MentionedPaths(l) : l \in (k + 1)..n} =>
            a[1] \in Keys(maps) /\ mergeMaps(maps)[a[1]] = a[2]

\* The sources that are done with.
Done == IF call.pc = "resolved" THEN Len(Sources) ELSE call.i - 1

ResolverTyped ==
    /\ spec \in Specs
    /\ store \in past /\ past \subseteq [Objects -> Contents]
    /\ call \in [pc : {"idle", "bundle", "target", "resolved", "failed"},
                 i : 0..Len(Sources), maps : Seq(AllMaps), values : AllMaps]
    /\ Len(call.maps) <= call.i
    /\ call.pc = "idle" => call.i = 0
    /\ Resolving => call.i >= 1 /\ Len(call.maps) <= call.i - 1

ResolverInv ==
    /\ ResolverTyped
    /\ call.pc = "target" =>
          /\ Absent \in Versions(call.i, "bundle")
          /\ ~spec.sameNamespace /\ Source.name \in Names
    /\ call.pc = "resolved" => call.values = mergeMaps(call.maps)
    /\ \A k \in 1..Done : Complete(k) /\ Kept(k, Done, call.maps)

LEMMA SourcesSeq ==
    ASSUME spec \in Specs
    PROVE  /\ Sources \in Seq(ValuesSource) /\ Len(Sources) \in Nat
           /\ Len(Sources) >= 1 /\ DOMAIN Sources = 1..Len(Sources)
           /\ spec.sameNamespace \in BOOLEAN
           /\ \A k \in 1..Len(Sources) : Sources[k].name \in Names \union {NoName}
  <1>1. Sources \in Seq(ValuesSource) /\ Sources # << >> /\ spec.sameNamespace \in BOOLEAN
    BY ValuesAssumption DEF Sources
  <1>2. Len(Sources) \in Nat /\ Len(Sources) >= 1 /\ DOMAIN Sources = 1..Len(Sources)
        /\ \A k \in 1..Len(Sources) : Sources[k] \in ValuesSource
    BY <1>1
  <1> QED BY <1>1, <1>2 DEF ValuesSource

\* What the store has now is one of the versions.
LEMMA NowIsVersion ==
    ASSUME ResolverInv, NEW k, NEW ns \in {"bundle", "target"}
    PROVE  store[<<Sources[k].name, ns>>] \in Versions(k, ns)
  BY DEF ResolverInv, ResolverTyped, Versions

-----------------------------------------------------------------------------
(* Steps                                                                   *)

\* Emptiness is no obstacle: before the first source there is nothing to keep.
LEMMA ResolverInit == Init => ResolverInv
  <1> SUFFICES ASSUME Init PROVE ResolverInv
    OBVIOUS
  <1>1. << >> \in AllMaps /\ << >> \in Seq(AllMaps) /\ Len(<< >>) = 0
    <2>1. << >> \in [{} -> Text] /\ {} \in SUBSET Text
      OBVIOUS
    <2> QED BY <2>1 DEF AllMaps
  <1>2. spec \in Specs /\ store \in past /\ past \subseteq [Objects -> Contents]
    BY DEF Init
  <1>3. call = Idle /\ Len(Sources) \in Nat
    BY <1>2, SourcesSeq DEF Init
  <1>4. ResolverTyped
    BY <1>1, <1>2, <1>3 DEF ResolverTyped, Idle, Resolving
  <1>5. Done = -1
    BY <1>3 DEF Done, Idle
  <1> QED BY <1>3, <1>4, <1>5 DEF ResolverInv, Idle

\* Nothing said about a source changes with the call alone.
LEMMA SameVersions ==
    ASSUME spec' = spec, past' = past
    PROVE  /\ Sources' = Sources
           /\ \A k, ns : Versions(k, ns)' = Versions(k, ns)
           /\ \A k : Complete(k)' <=> Complete(k)
           /\ \A k : Steady(k)' = Steady(k) /\ MentionedPaths(k)' = MentionedPaths(k)
  <1>1. Sources' = Sources
    BY DEF Sources
  <1>2. \A k, ns : Versions(k, ns)' = Versions(k, ns)
    BY <1>1 DEF Versions
  <1>3. \A k : Complete(k)' <=> Complete(k)
    BY <1>1, <1>2 DEF Complete
  <1>4. \A k : Steady(k)' = Steady(k) /\ MentionedPaths(k)' = MentionedPaths(k)
    BY <1>2 DEF Steady, MentionedPaths
  <1> QED BY <1>1, <1>2, <1>3, <1>4

\* The next source, or the result, once this source is settled.
LEMMA AdvanceKeeps ==
    ASSUME ResolverInv, Resolving, NEW maps \in Seq(AllMaps), Len(maps) <= call.i,
           Advance(maps), UNCHANGED <<spec, store, past>>,
           \A k \in 1..call.i : Complete(k) /\ Kept(k, call.i, maps)
    PROVE  ResolverInv'
  <1> USE DEF ResolverInv
  <1>1. call.i \in 1..Len(Sources) /\ Len(Sources) \in Nat /\ call.i \in Nat
    BY SourcesSeq DEF ResolverTyped
  <1>2. mergeMaps(maps) \in AllMaps
    BY MergedMap
  <1>3. Sources' = Sources
    BY SameVersions
  <1>5. \A k : Complete(k)' <=> Complete(k)
    BY SameVersions
  <1>6. \A k : Steady(k)' = Steady(k) /\ MentionedPaths(k)' = MentionedPaths(k)
    BY SameVersions
  <1>7. CASE call.i = Len(Sources)
    <2>1. call' = [call EXCEPT !.pc = "resolved", !.maps = maps, !.values = mergeMaps(maps)]
      BY <1>7 DEF Advance
    <2>2. call'.pc = "resolved" /\ call'.maps = maps /\ call'.values = mergeMaps(maps)
          /\ call'.i = call.i
      BY <2>1 DEF ResolverTyped
    <2>3. ResolverTyped'
      BY <1>2, <1>3, <2>1, <2>2 DEF ResolverTyped, Resolving
    <2>4. Done' = call.i
      BY <1>3, <1>7, <2>2 DEF Done
    <2> QED BY <1>5, <1>6, <2>2, <2>3, <2>4 DEF Kept
  <1>8. CASE call.i # Len(Sources)
    <2>1. call' = [call EXCEPT !.pc = "bundle", !.i = @ + 1, !.maps = maps]
      BY <1>8 DEF Advance
    <2>2. call'.pc = "bundle" /\ call'.maps = maps /\ call'.i = call.i + 1
      BY <2>1 DEF ResolverTyped
    <2>3. call.i + 1 \in 0..Len(Sources) /\ Len(maps) \in Nat
      BY <1>1, <1>8
    <2>4. ResolverTyped'
      <3>1. call' \in [pc : {"idle", "bundle", "target", "resolved", "failed"},
                       i : 0..Len(Sources), maps : Seq(AllMaps), values : AllMaps]
        BY <2>1, <2>3 DEF ResolverTyped
      <3>2. Len(maps) <= call.i + 1 - 1 /\ Len(maps) <= call.i + 1 /\ call.i + 1 >= 1
        BY <1>1, <2>3
      <3> QED BY <1>3, <2>2, <3>1, <3>2 DEF ResolverTyped, Resolving
    <2>5. Done' = call.i
      BY <1>1, <2>2 DEF Done
    <2> QED BY <1>5, <1>6, <2>2, <2>4, <2>5 DEF Kept
  <1> QED BY <1>7, <1>8

\* A failure keeps what was collected.
LEMMA FailKeeps ==
    ASSUME ResolverInv, Resolving, Fail, UNCHANGED <<spec, store, past>>
    PROVE  ResolverInv'
  <1> USE DEF ResolverInv
  <1>1. call' = [call EXCEPT !.pc = "failed"]
    BY DEF Fail
  <1>2. call'.pc = "failed" /\ call'.i = call.i /\ call'.maps = call.maps
    BY <1>1 DEF ResolverTyped
  <1>3. Sources' = Sources
    BY SameVersions
  <1>4. ResolverTyped'
    BY <1>1, <1>2, <1>3 DEF ResolverTyped, Resolving
  <1>5. Done' = Done
    BY <1>2 DEF Done, Resolving
  <1>7. \A k : Complete(k)' <=> Complete(k)
    BY SameVersions
  <1>8. \A k : Steady(k)' = Steady(k) /\ MentionedPaths(k)' = MentionedPaths(k)
    BY SameVersions
  <1> QED BY <1>2, <1>4, <1>5, <1>7, <1>8 DEF Kept

\* An optional source that is missing is passed over.
LEMMA NotFoundKeeps ==
    ASSUME ResolverInv, Resolving, NotFound, UNCHANGED <<spec, store, past>>,
           Source.name \in Names, Absent \in Versions(call.i, "bundle"),
           spec.sameNamespace \/ Absent \in Versions(call.i, "target")
    PROVE  ResolverInv'
  <1>1. CASE ~Source.optional
    BY <1>1, FailKeeps DEF NotFound
  <1>2. CASE Source.optional
    <2> USE DEF ResolverInv
    <2>1. Advance(call.maps)
      BY <1>2 DEF NotFound
    <2>2. call.i \in Nat /\ call.i >= 1 /\ call.maps \in Seq(AllMaps) /\ Len(call.maps) <= call.i
          /\ Done = call.i - 1
      BY SourcesSeq DEF ResolverTyped, Resolving, Done
    <2>3. Complete(call.i)
      BY <1>2 DEF Complete, Source
    <2>4. Steady(call.i) = {}
      BY MissingIsNotSteady
    <2>5. ASSUME NEW k \in 1..call.i
          PROVE  Complete(k) /\ Kept(k, call.i, call.maps)
      <3>1. CASE k = call.i
        BY <2>3, <2>4, <3>1 DEF Kept
      <3>2. CASE k # call.i
        <4>1. k \in 1..Done /\ (k + 1)..Done \subseteq (k + 1)..call.i
          BY <2>2, <3>2
        <4> QED BY <4>1 DEF Kept
      <3> QED BY <3>1, <3>2
    <2> QED BY <2>1, <2>2, <2>5, AdvanceKeeps
  <1> QED BY <1>1, <1>2

\* A source that is found is merged.
LEMMA FoundKeeps ==
    ASSUME ResolverInv, Resolving, UNCHANGED <<spec, store, past>>,
           NEW ns \in {"bundle", "target"}, Source.name \in Names,
           NEW data \in Versions(call.i, ns), data # Absent, data \in Contents,
           Found(data),
           ns = "target" => Absent \in Versions(call.i, "bundle") /\ ~spec.sameNamespace
    PROVE  ResolverInv'
  <1>1. CASE Malformed \in data
    BY <1>1, FailKeeps DEF Found
  <1>2. CASE Malformed \notin data
    <2> USE DEF ResolverInv
    <2>1. PICK m \in parseAndMergeConfigMapData(data) : Advance(Append(call.maps, m))
      BY <1>2 DEF Found
    <2>2. IsData(data)
      BY <1>2 DEF IsData
    <2>3. /\ IsMap(m)
          /\ \A p \in DOMAIN m : <<p, m[p]>> \in Assigned(data)
          /\ \A a \in Fixed(data) : a[1] \in DOMAIN m /\ m[a[1]] = a[2]
      BY <2>1, <2>2, ParsedMap
    <2>4. m \in AllMaps
      BY <2>3, MapsAreMaps
    <2>5. call.i \in Nat /\ call.i >= 1 /\ call.maps \in Seq(AllMaps) /\ Len(call.maps) <= call.i - 1
          /\ Done = call.i - 1
      BY SourcesSeq DEF ResolverTyped, Resolving, Done
    <2> DEFINE maps == Append(call.maps, m)
    <2>6. maps \in Seq(AllMaps) /\ Len(maps) <= call.i
      BY <2>4, <2>5
    <2>7. /\ Keys(maps) = Keys(call.maps) \union DOMAIN m
          /\ \A p \in DOMAIN m : mergeMaps(maps)[p] = m[p]
          /\ \A p \in Keys(call.maps) \ DOMAIN m :
                mergeMaps(maps)[p] = mergeMaps(call.maps)[p]
      BY <2>4, <2>5, MergeAppend
    <2> HIDE DEF maps
    <2>8. Complete(call.i)
      BY <1>2 DEF Complete, Source
    <2>9. \A a \in Steady(call.i) : a \in Fixed(data)
      <3> TAKE a \in Steady(call.i)
      <3>1. Absent \notin Decisive(call.i) /\ \A d \in Decisive(call.i) : a \in Fixed(d)
        BY SteadyIsFixed
      <3>2. data \in Decisive(call.i)
        BY <3>1 DEF Decisive
      <3> QED BY <3>1, <3>2
    <2>10. Kept(call.i, call.i, maps)
      BY <2>3, <2>7, <2>9 DEF Kept
    <2>11. DOMAIN m \subseteq MentionedPaths(call.i)
      <3> SUFFICES ASSUME NEW p \in DOMAIN m
                   PROVE  p \in MentionedPaths(call.i)
        OBVIOUS
      <3> DEFINE a == <<p, m[p]>>
      <3>1. a[1] = p /\ a \in Assigned(data)
        BY <2>3
      <3>2. data \in (Versions(call.i, "bundle") \union Versions(call.i, "target")) \ {Absent}
        OBVIOUS
      <3> HIDE DEF a
      <3> QED BY <3>1, <3>2 DEF MentionedPaths
    <2>12. ASSUME NEW k \in 1..call.i, k # call.i
           PROVE  Complete(k) /\ Kept(k, call.i, maps)
      <3>1. k \in 1..Done /\ (k + 1)..Done \subseteq (k + 1)..call.i /\ call.i \in (k + 1)..call.i
        BY <2>5, <2>12
      <3>2. Complete(k) /\ Kept(k, Done, call.maps)
        BY <3>1
      <3>3. ASSUME NEW a \in Steady(k),
                   a[1] \notin UNION {MentionedPaths(l) : l \in (k + 1)..call.i}
            PROVE  a[1] \in Keys(maps) /\ mergeMaps(maps)[a[1]] = a[2]
        <4>1. a[1] \notin DOMAIN m
          BY <2>11, <3>1, <3>3
        <4>2. a[1] \notin UNION {MentionedPaths(l) : l \in (k + 1)..Done}
          BY <3>1, <3>3
        <4>3. a[1] \in Keys(call.maps) /\ mergeMaps(call.maps)[a[1]] = a[2]
          BY <3>2, <3>3, <4>2 DEF Kept
        <4> QED BY <2>7, <4>1, <4>3
      <3> QED BY <3>2, <3>3 DEF Kept
    <2> QED BY <2>1, <2>6, <2>8, <2>10, <2>12, AdvanceKeeps DEF maps
  <1> QED BY <1>1, <1>2

\* A first lookup, which may find nothing and lead to the second.
LEMMA GetFromBundleKeeps == ASSUME ResolverInv, GetFromBundle PROVE ResolverInv'
  <1> DEFINE data == store[<<Source.name, "bundle">>]
  <1>1. /\ Resolving /\ call.pc = "bundle" /\ Source.name # NoName
        /\ UNCHANGED <<spec, store, past>>
        /\ IF data # Absent THEN Found(data)
           ELSE IF spec.sameNamespace THEN NotFound
           ELSE call' = [call EXCEPT !.pc = "target"]
    BY DEF GetFromBundle, Resolving
  <1>2. spec \in Specs /\ call.i \in 1..Len(Sources)
    BY <1>1, SourcesSeq DEF ResolverInv, ResolverTyped
  <1>3. Source.name \in Names
    BY <1>1, <1>2, SourcesSeq DEF Source
  <1>4. data \in Versions(call.i, "bundle")
    BY NowIsVersion DEF Source
  <1>5. data \in Contents
    BY <1>3 DEF ResolverInv, ResolverTyped, Objects
  <1> HIDE DEF data
  <1>6. CASE data # Absent
    BY <1>1, <1>3, <1>4, <1>5, <1>6, FoundKeeps
  <1>7. CASE data = Absent /\ spec.sameNamespace
    BY <1>1, <1>3, <1>4, <1>7, NotFoundKeeps
  <1>8. CASE data = Absent /\ ~spec.sameNamespace
    <2> USE DEF ResolverInv
    <2>1. call' = [call EXCEPT !.pc = "target"]
      BY <1>1, <1>8
    <2>2. call'.pc = "target" /\ call'.i = call.i /\ call'.maps = call.maps
      BY <2>1 DEF ResolverTyped
    <2>3. Sources' = Sources /\ spec' = spec
      BY <1>1, SameVersions
    <2>4. ResolverTyped'
      BY <1>1, <2>1, <2>2, <2>3 DEF ResolverTyped, Resolving
    <2>5. Done' = Done
      BY <1>1, <2>2 DEF Done
    <2>6. \A k, ns : Versions(k, ns)' = Versions(k, ns)
      BY <1>1, SameVersions
    <2>7. \A k : Complete(k)' <=> Complete(k)
      BY <1>1, SameVersions
    <2>8. \A k : Steady(k)' = Steady(k) /\ MentionedPaths(k)' = MentionedPaths(k)
      BY <1>1, SameVersions
    <2>9. Source' = Source
      BY <2>2, <2>3 DEF Source
    <2>10. \A k \in 1..Done' : Complete(k)' /\ Kept(k, Done, call.maps)'
      BY <2>2, <2>5, <2>7, <2>8 DEF Kept
    <2> QED BY <1>3, <1>4, <1>8, <2>2, <2>3, <2>4, <2>6, <2>9, <2>10
  <1> QED BY <1>6, <1>7, <1>8

LEMMA GetFromTargetKeeps == ASSUME ResolverInv, GetFromTarget PROVE ResolverInv'
  <1> DEFINE data == store[<<Source.name, "target">>]
  <1>1. /\ Resolving /\ call.pc = "target"
        /\ UNCHANGED <<spec, store, past>>
        /\ IF data # Absent THEN Found(data) ELSE NotFound
    BY DEF GetFromTarget, Resolving
  <1>2. /\ Absent \in Versions(call.i, "bundle")
        /\ ~spec.sameNamespace /\ Source.name \in Names
    BY <1>1 DEF ResolverInv
  <1>3. data \in Versions(call.i, "target")
    BY NowIsVersion DEF Source
  <1>4. data \in Contents
    BY <1>2 DEF ResolverInv, ResolverTyped, Objects
  <1> HIDE DEF data
  <1>5. CASE data # Absent
    BY <1>1, <1>2, <1>3, <1>4, <1>5, FoundKeeps
  <1>6. CASE data = Absent
    BY <1>1, <1>2, <1>3, <1>6, NotFoundKeeps
  <1> QED BY <1>5, <1>6

\* The call begins with the first source.
LEMMA ResolveKeeps == ASSUME ResolverInv, ResolveValues PROVE ResolverInv'
  <1> USE DEF ResolverInv
  <1>1. call.pc = "idle" /\ call.i = 0 /\ UNCHANGED <<spec, store, past>>
    BY DEF ResolveValues, ResolverTyped
  <1>2. Sources' = Sources /\ Len(Sources) \in Nat /\ Len(Sources) >= 1
    BY <1>1, SourcesSeq DEF Sources, ResolverTyped
  <1>3. call' = [call EXCEPT !.pc = "bundle", !.i = @ + 1, !.maps = << >>]
    BY <1>1, <1>2 DEF ResolveValues, Advance
  <1>4. call'.pc = "bundle" /\ call'.i = 1 /\ call'.maps = << >>
    BY <1>1, <1>3 DEF ResolverTyped
  <1>5. ResolverTyped'
    <2>1. call' \in [pc : {"idle", "bundle", "target", "resolved", "failed"},
                     i : 0..Len(Sources), maps : Seq(AllMaps), values : AllMaps]
      <3>1. 1 \in 0..Len(Sources) /\ << >> \in Seq(AllMaps) /\ call.i + 1 = 1
        BY <1>1, <1>2
      <3> QED BY <1>3, <3>1 DEF ResolverTyped
    <2>2. Len(<< >>) = 0
      OBVIOUS
    <2> QED BY <1>1, <1>2, <1>4, <2>1, <2>2 DEF ResolverTyped, Resolving
  <1>6. Done' = 0
    BY <1>4 DEF Done
  <1> QED BY <1>4, <1>5, <1>6

\* Versions come and none goes, so a source never says more than before and
\* what was complete stays so.
LEMMA ChangeKeeps == ASSUME ResolverInv, NEW o \in Objects, Change(o) PROVE ResolverInv'
  <1> USE DEF ResolverInv
  <1>1. /\ UNCHANGED <<spec, call>>
        /\ past' = past \union {store'} /\ store' \in [Objects -> Contents]
    BY DEF Change, ResolverTyped
  <1>2. Sources' = Sources /\ Source' = Source /\ Done' = Done
    BY <1>1 DEF Sources, Source, Done
  <1>3. ResolverTyped'
    BY <1>1, <1>2 DEF ResolverTyped, Resolving
  <1>4. \A k, ns : Versions(k, ns) \subseteq Versions(k, ns)'
    BY <1>1, <1>2 DEF Versions
  <1>5. \A k, ns : Versions(k, ns) # {}
    BY DEF Versions, ResolverTyped
  <1>6. ASSUME NEW k
        PROVE  Steady(k)' \subseteq Steady(k)
    <2> SUFFICES ASSUME NEW a \in Steady(k)'
                 PROVE  a \in Steady(k)
      OBVIOUS
    <2>1. Absent \notin Decisive(k)' /\ \A d \in Decisive(k)' : a \in Fixed(d)
      BY DEF Steady, Decisive
    <2>2. Decisive(k) # {} /\ Decisive(k) \subseteq Decisive(k)'
      BY <1>1, <1>4, <1>5, <2>1 DEF Decisive
    <2> QED BY <2>1, <2>2, FixedIsSteady
  <1>7. \A k : MentionedPaths(k) \subseteq MentionedPaths(k)'
    BY <1>4 DEF MentionedPaths
  <1>8. ASSUME NEW k, Complete(k)
        PROVE  Complete(k)'
    <2>1. /\ Versions(k, "bundle") \subseteq Versions(k, "bundle")'
          /\ Versions(k, "target") \subseteq Versions(k, "target")'
          /\ Versions(k, "bundle") # {} /\ Versions(k, "target") # {}
      BY <1>4, <1>5
    <2> QED BY <1>1, <1>2, <1>8, <2>1 DEF Complete
  <1>9. ASSUME NEW k, NEW n, Kept(k, n, call.maps)
        PROVE  Kept(k, n, call.maps)'
    BY <1>1, <1>6, <1>7, <1>9 DEF Kept
  <1>10. \A k \in 1..Done' : Complete(k)' /\ Kept(k, Done, call.maps)'
    BY <1>2, <1>8, <1>9
  <1> QED BY <1>1, <1>2, <1>3, <1>4, <1>10

LEMMA ResolverStep == ResolverInv /\ [Next]_vars => ResolverInv'
  <1> SUFFICES ASSUME ResolverInv, [Next]_vars
               PROVE  ResolverInv'
    OBVIOUS
  <1>1. CASE InvalidSource \/ GetFails
    BY <1>1, FailKeeps DEF InvalidSource, GetFails, Resolving
  <1>2. CASE UNCHANGED vars
    <2>1. spec' = spec /\ store' = store /\ call' = call /\ past' = past
      BY <1>2 DEF vars
    <2>2. Sources' = Sources /\ Source' = Source /\ Done' = Done
      BY <2>1, SameVersions DEF Source, Done
    <2>3. ResolverTyped'
      BY <2>1, <2>2 DEF ResolverInv, ResolverTyped, Resolving
    <2>4. \A k \in 1..Done' : Complete(k)' /\ Kept(k, Done, call.maps)'
      BY <2>1, <2>2, SameVersions DEF ResolverInv, Kept
    <2>5. Versions(call.i, "bundle")' = Versions(call.i, "bundle")
      BY <2>1, SameVersions
    <2> QED BY <2>1, <2>2, <2>3, <2>4, <2>5 DEF ResolverInv
  <1> QED BY <1>1, <1>2, ResolveKeeps, GetFromBundleKeeps, GetFromTargetKeeps, ChangeKeeps
          DEF Next

LEMMA ResolverInvariant == Spec => []ResolverInv
  BY ResolverInit, ResolverStep, PTL DEF Spec

-----------------------------------------------------------------------------
(* Recursion over texts                                                    *)

\* The prover does not know a backslash for a string.
Chars == STRING \union {"\\"}
AnyText == Seq(Chars)

\* Induction, over a set in place of a predicate.
LEMMA NatSets ==
    ASSUME NEW S \in SUBSET Nat, 0 \in S, \A n \in S : n + 1 \in S
    PROVE  S = Nat
  <1> DEFINE before == {pair \in Nat \X Nat : pair[1] < pair[2]}
             T == Nat \ S
  <1>1. IsWellFoundedOn(before, Nat)
    BY NatLessThanWellFounded DEF OpToRel
  <1> SUFFICES ASSUME T # {} PROVE FALSE
    OBVIOUS
  <1> HIDE DEF before
  <1>2. PICK t \in T : \A u \in T : ~(<<u, t>> \in before)
    BY <1>1, WFMin
  <1>3. t \in Nat /\ t # 0 /\ t - 1 \in Nat /\ (t - 1) + 1 = t
    OBVIOUS
  <1>4. t - 1 \in T
    BY <1>3
  <1>5. <<t - 1, t>> \in before
    BY <1>3 DEF before
  <1> QED BY <1>2, <1>4, <1>5

\* A set of texts with the empty one, closed under one character more, has all.
LEMMA TextSets ==
    ASSUME NEW T \in SUBSET AnyText, << >> \in T,
           \A s \in T, c \in Chars : Append(s, c) \in T
    PROVE  T = AnyText
  <1> DEFINE S == {n \in Nat : \A s \in AnyText : Len(s) = n => s \in T}
  <1>1. 0 \in S
    BY EmptySeq DEF AnyText
  <1>2. ASSUME NEW n \in S PROVE n + 1 \in S
    <2> SUFFICES ASSUME NEW s \in AnyText, Len(s) = n + 1 PROVE s \in T
      OBVIOUS
    <2>1. s # << >> /\ n \in Nat
      BY DEF AnyText
    <2>2. PICK t \in AnyText, c \in Chars : s = Append(t, c)
      BY <2>1, SequenceEmptyOrAppend DEF AnyText
    <2>3. Len(t) = n
      BY <2>1, <2>2 DEF AnyText
    <2> QED BY <2>2, <2>3
  <1> HIDE DEF S
  <1>3. S = Nat
    BY <1>1, <1>2, NatSets DEF S
  <1>4. \A s \in AnyText : Len(s) \in S
    BY <1>3 DEF AnyText
  <1> QED BY <1>4 DEF S

\* A function that follows its step from position to position.
Run(f, n, base, step) ==
    f = [k \in 0..n |-> IF k = 0 THEN base ELSE step[<<f[k - 1], k>>]]

\* A step of the right type can be followed.
LEMMA RunExists ==
    ASSUME NEW X, NEW base \in X, NEW n \in Nat,
           NEW step \in [X \X (1..n) -> X]
    PROVE  \E f \in [0..n -> X] : Run(f, n, base, step)
  <1> DEFINE S == {m \in Nat : m <= n => \E f \in [0..m -> X] : Run(f, m, base, step)}
  <1>1. 0 \in S
    <2> DEFINE f == [k \in 0..0 |-> base]
    <2>1. f \in [0..0 -> X] /\ Run(f, 0, base, step)
      BY DEF Run
    <2> QED BY <2>1
  <1>2. ASSUME NEW m \in S PROVE m + 1 \in S
    <2> SUFFICES ASSUME m + 1 <= n
                 PROVE  \E g \in [0..(m + 1) -> X] : Run(g, m + 1, base, step)
      OBVIOUS
    <2>1. PICK f \in [0..m -> X] : Run(f, m, base, step)
      OBVIOUS
    <2> DEFINE g == [k \in 0..(m + 1) |-> IF k = m + 1 THEN step[<<f[m], m + 1>>] ELSE f[k]]
    <2>2. step[<<f[m], m + 1>>] \in X
      OBVIOUS
    <2>3. g \in [0..(m + 1) -> X]
      BY <2>2
    <2>4. ASSUME NEW k \in 0..(m + 1)
          PROVE  g[k] = IF k = 0 THEN base ELSE step[<<g[k - 1], k>>]
      <3>1. \A i \in 0..m : f[i] = IF i = 0 THEN base ELSE step[<<f[i - 1], i>>]
        BY <2>1 DEF Run
      <3>2. CASE k = 0
        <4>1. k # m + 1 /\ k \in 0..m
          BY <3>2
        <4> QED BY <3>1, <3>2, <4>1
      <3>3. CASE k \in 1..m
        BY <3>1, <3>3
      <3>4. CASE k = m + 1
        BY <3>4
      <3> QED BY <3>2, <3>3, <3>4
    <2>5. Run(g, m + 1, base, step)
      BY <2>4 DEF Run
    <2> QED BY <2>3, <2>5
  <1> HIDE DEF S
  <1>3. S = Nat
    BY <1>1, <1>2, NatSets DEF S
  <1> QED BY <1>3 DEF S

\* Where two runs have the same steps they agree.
LEMMA RunsAgree ==
    ASSUME NEW m \in Nat, NEW n \in Nat, m <= n, NEW X, NEW base, NEW step, NEW other,
           NEW f \in [0..m -> X], Run(f, m, base, step), NEW g, Run(g, n, base, other),
           \A x \in X, k \in 1..m : step[<<x, k>>] = other[<<x, k>>]
    PROVE  f[m] = g[m]
  <1> DEFINE S == {k \in Nat : k <= m => f[k] = g[k]}
  <1>1. 0 \in S
    BY DEF Run
  <1>2. ASSUME NEW k \in S PROVE k + 1 \in S
    <2> SUFFICES ASSUME k + 1 <= m PROVE f[k + 1] = g[k + 1]
      OBVIOUS
    <2>1. f[k] = g[k] /\ k + 1 \in 1..m /\ k + 1 \in 0..n /\ (k + 1) - 1 = k /\ k + 1 # 0 /\ f[k] \in X
      OBVIOUS
    <2>2. f[k + 1] = step[<<f[(k + 1) - 1], k + 1>>] /\ g[k + 1] = other[<<g[(k + 1) - 1], k + 1>>]
      BY <2>1 DEF Run
    <2> QED BY <2>1, <2>2
  <1> HIDE DEF S
  <1>3. S = Nat
    BY <1>1, <1>2, NatSets DEF S
  <1> QED BY <1>3 DEF S

-----------------------------------------------------------------------------
(* Escaping                                                                *)

LEMMA QuotedText ==
    ASSUME NEW c \in Chars, NEW char
    PROVE  Quoted(c, char) \in AnyText
  <1>1. "\\" \in Chars
    BY DEF Chars
  <1> QED BY <1>1 DEF Quoted, AnyText

\* The steps of Escape.
EscapeRun(text, char) ==
    [p \in AnyText \X (1..Len(text)) |-> p[1] \o Quoted(text[p[2]], char)]

\* Escape is well-defined: its recursive function exists and gives texts.
LEMMA EscapeRuns ==
    ASSUME NEW text \in AnyText, NEW char
    PROVE  \E f \in [0..Len(text) -> AnyText] :
              /\ Run(f, Len(text), << >>, EscapeRun(text, char))
              /\ Escape(text, char) = f[Len(text)]
  <1> DEFINE n == Len(text)
             step == EscapeRun(text, char)
             Is(f) == f = [k \in 0..n |-> IF k = 0 THEN << >>
                               ELSE f[k - 1] \o Quoted(text[k], char)]
  <1>1. n \in Nat /\ << >> \in AnyText /\ \A k \in 1..n : text[k] \in Chars
    BY DEF AnyText
  <1>2. step \in [AnyText \X (1..n) -> AnyText]
    BY <1>1, QuotedText, ConcatProperties DEF EscapeRun, AnyText
  <1> HIDE DEF n, step
  <1>3. \E f \in [0..n -> AnyText] : Run(f, n, << >>, step)
    BY <1>1, <1>2, RunExists
  <1>4. ASSUME NEW f \in [0..n -> AnyText], Run(f, n, << >>, step) PROVE Is(f)
    <2>1. ASSUME NEW k \in 0..n
          PROVE  f[k] = IF k = 0 THEN << >> ELSE f[k - 1] \o Quoted(text[k], char)
      <3>1. f[k] = IF k = 0 THEN << >> ELSE step[<<f[k - 1], k>>]
        BY <1>4 DEF Run
      <3>2. CASE k = 0
        BY <3>1, <3>2
      <3>3. CASE k # 0
        <4>1. k \in 1..n /\ f[k - 1] \in AnyText
          BY <1>1, <3>3
        <4>2. step[<<f[k - 1], k>>] = f[k - 1] \o Quoted(text[k], char)
          BY <4>1 DEF step, EscapeRun, n
        <4> QED BY <3>1, <3>3, <4>2
      <3> QED BY <3>2, <3>3
    <2> QED BY <2>1
  <1> DEFINE g == CHOOSE f : Is(f)
  <1>5. Is(g)
    <2>1. \E f : Is(f)
      BY <1>3, <1>4
    <2> HIDE DEF Is
    <2> QED BY <2>1
  <1>6. Escape(text, char) = g[n]
    BY DEF Escape, n
  <1> HIDE DEF g
  <1>7. g \in [0..n -> AnyText]
    <2>0. \A k \in 0..n : g[k] = IF k = 0 THEN << >> ELSE g[k - 1] \o Quoted(text[k], char)
      BY <1>5
    <2>2a. g = [k \in 0..n |-> g[k]]
      BY <1>5
    <2> DEFINE S == {k \in Nat : k <= n => g[k] \in AnyText}
    <2>1. 0 \in S
      BY <1>1, <2>0
    <2>2. ASSUME NEW k \in S PROVE k + 1 \in S
      <3> SUFFICES ASSUME k + 1 <= n PROVE g[k + 1] \in AnyText
        OBVIOUS
      <3>1. /\ k + 1 \in 1..n /\ k + 1 \in 0..n /\ k + 1 # 0 /\ (k + 1) - 1 = k
            /\ g[k] \in AnyText
        BY <1>1
      <3>2. g[k + 1] = g[k] \o Quoted(text[k + 1], char)
        BY <2>0, <3>1
      <3>3. Quoted(text[k + 1], char) \in AnyText
        BY <1>1, <3>1, QuotedText
      <3> QED BY <3>1, <3>2, <3>3, ConcatProperties DEF AnyText
    <2> HIDE DEF S
    <2>3. S = Nat
      BY <2>1, <2>2, NatSets DEF S
    <2>4. \A k \in 0..n : g[k] \in AnyText
      BY <1>1, <2>3 DEF S
    <2> QED BY <2>2a, <2>4
  <1>8. Run(g, n, << >>, step)
    <2>1. ASSUME NEW k \in 0..n, k # 0
          PROVE  step[<<g[k - 1], k>>] = g[k - 1] \o Quoted(text[k], char)
      <3>1. k \in 1..n /\ g[k - 1] \in AnyText
        BY <1>1, <1>7, <2>1
      <3> QED BY <3>1 DEF step, EscapeRun, n
    <2> HIDE DEF step
    <2> QED BY <1>5, <2>1 DEF Run
  <1> QED BY <1>6, <1>7, <1>8 DEF n, step

LEMMA EscapeEmpty == ASSUME NEW char PROVE Escape(<< >>, char) = << >>
  <1>1. << >> \in AnyText /\ Len(<< >>) = 0
    BY DEF AnyText
  <1>2. PICK f \in [0..0 -> AnyText] : Run(f, 0, << >>, EscapeRun(<< >>, char))
                                    /\ Escape(<< >>, char) = f[0]
    BY <1>1, EscapeRuns
  <1>3. f[0] = << >>
    BY <1>2 DEF Run
  <1> QED BY <1>2, <1>3

\* One character more is escaped by itself.
LEMMA EscapeMore ==
    ASSUME NEW s \in AnyText, NEW c \in Chars, NEW char
    PROVE  /\ Escape(s, char) \in AnyText
           /\ Escape(Append(s, c), char) = Escape(s, char) \o Quoted(c, char)
  <1> DEFINE m == Len(s)
             t == Append(s, c)
  <1>1. /\ m \in Nat /\ t \in AnyText /\ Len(t) = m + 1
        /\ \A k \in 1..m : t[k] = s[k]
        /\ t[m + 1] = c
    BY DEF AnyText
  <1>2. PICK f \in [0..m -> AnyText] : /\ Run(f, m, << >>, EscapeRun(s, char))
                                    /\ Escape(s, char) = f[m]
    BY EscapeRuns
  <1> HIDE DEF t
  <1>3. PICK g \in [0..(m + 1) -> AnyText] :
            /\ Run(g, m + 1, << >>, EscapeRun(t, char))
            /\ Escape(t, char) = g[m + 1]
    BY <1>1, EscapeRuns
  <1>4. \A x \in AnyText, k \in 1..m :
            EscapeRun(s, char)[<<x, k>>] = EscapeRun(t, char)[<<x, k>>]
    <2> SUFFICES ASSUME NEW x \in AnyText, NEW k \in 1..m
                 PROVE  EscapeRun(s, char)[<<x, k>>] = EscapeRun(t, char)[<<x, k>>]
      OBVIOUS
    <2>1. k \in 1..(m + 1) /\ s[k] = t[k]
      BY <1>1
    <2> QED BY <1>1, <2>1 DEF EscapeRun
  <1>5. f[m] = g[m]
    BY <1>1, <1>2, <1>3, <1>4, m <= m + 1, RunsAgree
  <1>6. g[m + 1] = g[m] \o Quoted(c, char)
    <2>1. g[m + 1] = EscapeRun(t, char)[<<g[(m + 1) - 1], m + 1>>]
      <3>1. m + 1 \in 0..(m + 1) /\ m + 1 # 0
        BY <1>1
      <3> HIDE DEF m
      <3> QED BY <1>3, <3>1 DEF Run
    <2>2. (m + 1) - 1 = m /\ m + 1 \in 1..Len(t) /\ g[m] \in AnyText
      BY <1>1
    <2> QED BY <1>1, <2>1, <2>2 DEF EscapeRun
  <1> QED BY <1>2, <1>3, <1>5, <1>6 DEF t

LEMMA EscapeText ==
    ASSUME NEW s \in AnyText, NEW char PROVE Escape(s, char) \in AnyText
  BY EscapeMore DEF Chars

\* What is escaped together is escaped apart.
LEMMA EscapeConcat ==
    ASSUME NEW char, NEW a \in AnyText
    PROVE  \A b \in AnyText : Escape(a \o b, char) = Escape(a, char) \o Escape(b, char)
  <1> DEFINE T == {b \in AnyText : Escape(a \o b, char) = Escape(a, char) \o Escape(b, char)}
  <1>1. << >> \in T
    <2>1. << >> \in AnyText /\ a \o << >> = a
      BY DEF AnyText
    <2>2. Escape(a, char) \o << >> = Escape(a, char)
      BY EscapeText DEF AnyText
    <2> QED BY <2>1, <2>2, EscapeEmpty
  <1>2. ASSUME NEW b \in T, NEW c \in Chars PROVE Append(b, c) \in T
    <2>1. /\ Append(b, c) \in AnyText /\ a \o b \in AnyText
          /\ a \o Append(b, c) = Append(a \o b, c)
      BY DEF AnyText
    <2>2. /\ Escape(a, char) \in AnyText /\ Escape(b, char) \in AnyText
          /\ Quoted(c, char) \in AnyText
      BY EscapeText, QuotedText
    <2>3. Escape(a \o Append(b, c), char) = Escape(a \o b, char) \o Quoted(c, char)
      BY <2>1, EscapeMore
    <2>4. Escape(Append(b, c), char) = Escape(b, char) \o Quoted(c, char)
      BY EscapeMore
    <2>5. (Escape(a, char) \o Escape(b, char)) \o Quoted(c, char)
            = Escape(a, char) \o (Escape(b, char) \o Quoted(c, char))
      BY <2>2, ConcatAssociative DEF AnyText
    <2> QED BY <2>1, <2>3, <2>4, <2>5
  <1> HIDE DEF T
  <1>3. T = AnyText
    BY <1>1, <1>2, TextSets DEF T
  <1> QED BY <1>3 DEF T

LEMMA EscapeOne ==
    ASSUME NEW c \in Chars, NEW char PROVE Escape(<<c>>, char) = Quoted(c, char)
  <1>1. << >> \in AnyText /\ <<c>> = Append(<< >>, c)
    BY DEF AnyText
  <1>2. << >> \o Quoted(c, char) = Quoted(c, char)
    BY QuotedText DEF AnyText
  <1> QED BY <1>1, <1>2, EscapeEmpty, EscapeMore

LEMMA TwoCharacters ==
    ASSUME NEW c \in Chars, NEW d \in Chars PROVE <<c>> \o <<d>> = <<c, d>>
  <1> DEFINE s == <<c>> \o <<d>>
             t == <<c, d>>
  <1>1. s \in Seq(Chars) /\ Len(s) = 2 /\ s[1] = c /\ s[2] = d
    OBVIOUS
  <1>2. t \in Seq(Chars) /\ Len(t) = 2 /\ t[1] = c /\ t[2] = d
    OBVIOUS
  <1> HIDE DEF s, t
  <1>3. s = t
    BY <1>1, <1>2, SeqEqual
  <1> QED BY <1>3 DEF s, t

LEMMA EscapeTwo ==
    ASSUME NEW c \in Chars, NEW d \in Chars, NEW char
    PROVE  Escape(<<c, d>>, char) = Quoted(c, char) \o Quoted(d, char)
  <1> DEFINE a == <<c>>
             b == <<d>>
  <1>1. a \in AnyText /\ b \in AnyText /\ a \o b = <<c, d>>
    <2>1. a \in AnyText /\ b \in AnyText
      BY DEF AnyText
    <2> QED BY <2>1, TwoCharacters
  <1>2. Escape(a, char) = Quoted(c, char) /\ Escape(b, char) = Quoted(d, char)
    BY EscapeOne
  <1> HIDE DEF a, b
  <1>3. Escape(a \o b, char) = Escape(a, char) \o Escape(b, char)
    BY <1>1, EscapeConcat
  <1> QED BY <1>1, <1>2, <1>3, Zenon

\* What escapeValue puts a backslash before.
Special == Separators \union {"\\"}

\* The five passes put at most one backslash before a character.
LEMMA EscapedCharacter ==
    ASSUME NEW c \in Chars
    PROVE  escapeValue(<<c>>) = IF c \in Special THEN <<"\\", c>> ELSE <<c>>
  <1> DEFINE plain == <<c>>
             quoted == <<"\\", c>>
  <1>b. "\\" \in Chars
    BY DEF Chars
  <1>1. \A char : c # char => Escape(plain, char) = plain
    BY EscapeOne DEF Quoted
  <1>2. Escape(plain, c) = quoted
    BY EscapeOne DEF Quoted
  <1>3. \A char : c # char /\ "\\" # char => Escape(quoted, char) = quoted
    <2> SUFFICES ASSUME NEW char, c # char, "\\" # char
                 PROVE  Escape(quoted, char) = quoted
      OBVIOUS
    <2>1. Escape(quoted, char) = <<"\\">> \o <<c>>
      BY <1>b, EscapeTwo DEF Quoted
    <2> QED BY <2>1
  <1> HIDE DEF plain, quoted
  <1> DEFINE After(P) == IF c \in P THEN quoted ELSE plain
  <1>4. ASSUME NEW P, NEW char, char \notin P, "\\" # char
        PROVE  Escape(After(P), char) = After(P \union {char})
    <2>1. CASE c \in P
      BY <1>3, <1>4, <2>1
    <2>2. CASE c \notin P /\ c = char
      BY <1>2, <2>2
    <2>3. CASE c \notin P /\ c # char
      BY <1>1, <2>3
    <2> QED BY <2>1, <2>2, <2>3
  <1>5. Escape(plain, "\\") = After({"\\"})
    BY <1>1, <1>2
  <1> HIDE DEF After
  <1>6. Escape(After({"\\"}), ",") = After({"\\", ","})
    <2>1. "," \notin {"\\"} /\ {"\\"} \union {","} = {"\\", ","}
      OBVIOUS
    <2> QED BY <1>4, <2>1
  <1>7. Escape(After({"\\", ","}), "=") = After({"\\", ",", "="})
    <2>1. "=" \notin {"\\", ","} /\ {"\\", ","} \union {"="} = {"\\", ",", "="}
      OBVIOUS
    <2> QED BY <1>4, <2>1
  <1>8. Escape(After({"\\", ",", "="}), "[") = After({"\\", ",", "=", "["})
    <2>1. /\ "[" \notin {"\\", ",", "="}
          /\ {"\\", ",", "="} \union {"["} = {"\\", ",", "=", "["}
      OBVIOUS
    <2> QED BY <1>4, <2>1
  <1>9. Escape(After({"\\", ",", "=", "["}), "]") = After(Special)
    <2>1. /\ "]" \notin {"\\", ",", "=", "["}
          /\ {"\\", ",", "=", "["} \union {"]"} = Special
      BY DEF Special, Separators
    <2> QED BY <1>4, <2>1
  <1>10. escapeValue(plain) = After(Special)
    BY <1>5, <1>6, <1>7, <1>8, <1>9, Zenon DEF escapeValue
  <1> QED BY <1>10 DEF plain, quoted, After

\* So does any text, character by character.
LEMMA EscapedMore ==
    ASSUME NEW s \in AnyText, NEW c \in Chars
    PROVE  /\ escapeValue(s) \in AnyText
           /\ escapeValue(Append(s, c)) = escapeValue(s) \o escapeValue(<<c>>)
  <1> DEFINE t == <<c>>
  <1>1. t \in AnyText /\ Append(s, c) = s \o t
    BY DEF AnyText
  <1> HIDE DEF t
  <1>2. ASSUME NEW a \in AnyText, NEW b \in AnyText, NEW char
        PROVE  /\ Escape(a, char) \in AnyText
               /\ Escape(a \o b, char) = Escape(a, char) \o Escape(b, char)
    BY EscapeConcat, EscapeText
  <1>3. escapeValue(s) \in AnyText /\ escapeValue(s \o t) = escapeValue(s) \o escapeValue(t)
    <2> DEFINE s1 == Escape(s, "\\")
               t1 == Escape(t, "\\")
               s2 == Escape(s1, ",")
               t2 == Escape(t1, ",")
               s3 == Escape(s2, "=")
               t3 == Escape(t2, "=")
               s4 == Escape(s3, "[")
               t4 == Escape(t3, "[")
    <2>1. s1 \in AnyText /\ t1 \in AnyText /\ Escape(s \o t, "\\") = s1 \o t1
      BY <1>1, <1>2
    <2>2. escapeValue(s) = Escape(s4, "]") /\ escapeValue(t) = Escape(t4, "]")
      BY DEF escapeValue
    <2> HIDE DEF s1, t1
    <2>3. s2 \in AnyText /\ t2 \in AnyText /\ Escape(s1 \o t1, ",") = s2 \o t2
      BY <1>2, <2>1
    <2> HIDE DEF s2, t2
    <2>4. s3 \in AnyText /\ t3 \in AnyText /\ Escape(s2 \o t2, "=") = s3 \o t3
      BY <1>2, <2>3
    <2> HIDE DEF s3, t3
    <2>5. s4 \in AnyText /\ t4 \in AnyText /\ Escape(s3 \o t3, "[") = s4 \o t4
      BY <1>2, <2>4
    <2> HIDE DEF s4, t4
    <2>6. /\ Escape(s4, "]") \in AnyText
          /\ Escape(s4 \o t4, "]") = Escape(s4, "]") \o Escape(t4, "]")
      BY <1>2, <2>5
    <2>7. escapeValue(s \o t) = Escape(s4 \o t4, "]")
      BY <2>1, <2>3, <2>4, <2>5, Zenon DEF escapeValue
    <2> QED BY <2>2, <2>6, <2>7, Zenon
  <1> QED BY <1>1, <1>3, Zenon DEF t

LEMMA EscapedEmpty == escapeValue(<< >>) = << >>
  BY EscapeEmpty DEF escapeValue
-----------------------------------------------------------------------------
(* Helm's reading                                                          *)

States ==
    [value : AnyText, escaped : BOOLEAN, ended : BOOLEAN, list : BOOLEAN]

LEMMA HelmStepType ==
    ASSUME NEW state \in States, NEW c \in Chars PROVE HelmStep(state, c) \in States
  <1>1. Append(state.value, c) \in AnyText
    BY DEF States, AnyText
  <1> QED BY <1>1 DEF States, HelmStep

HelmRun(text) == [p \in States \X (1..Len(text)) |-> HelmStep(p[1], text[p[2]])]

\* HelmReads is well-defined.
LEMMA HelmRuns ==
    ASSUME NEW text \in AnyText
    PROVE  \E f \in [0..Len(text) -> States] :
              /\ Run(f, Len(text), Reading(<< >>), HelmRun(text))
              /\ HelmReads(text) = f[Len(text)]
  <1> DEFINE n == Len(text)
             step == HelmRun(text)
             Is(f) == f = [k \in 0..n |-> IF k = 0 THEN Reading(<< >>)
                               ELSE HelmStep(f[k - 1], text[k])]
             g == CHOOSE f : Is(f)
  <1>1. n \in Nat /\ Reading(<< >>) \in States /\ \A k \in 1..n : text[k] \in Chars
    BY DEF AnyText, States, Reading
  <1>2. step \in [States \X (1..n) -> States]
    BY <1>1, HelmStepType DEF HelmRun
  <1> HIDE DEF n, step
  <1>3. \E f \in [0..n -> States] : Run(f, n, Reading(<< >>), step)
    BY <1>1, <1>2, RunExists
  <1>4. ASSUME NEW f \in [0..n -> States], Run(f, n, Reading(<< >>), step) PROVE Is(f)
    <2>1. ASSUME NEW k \in 0..n
          PROVE  f[k] = IF k = 0 THEN Reading(<< >>) ELSE HelmStep(f[k - 1], text[k])
      <3>1. f[k] = IF k = 0 THEN Reading(<< >>) ELSE step[<<f[k - 1], k>>]
        BY <1>4 DEF Run
      <3>2. CASE k = 0
        BY <3>1, <3>2
      <3>3. CASE k # 0
        <4>1. k \in 1..n /\ f[k - 1] \in States
          BY <1>1, <3>3
        <4>2. step[<<f[k - 1], k>>] = HelmStep(f[k - 1], text[k])
          BY <4>1 DEF step, HelmRun, n
        <4> QED BY <3>1, <3>3, <4>2
      <3> QED BY <3>2, <3>3
    <2> QED BY <2>1
  <1>5. Is(g)
    <2>1. \E f : Is(f)
      BY <1>3, <1>4
    <2> HIDE DEF Is
    <2> QED BY <2>1
  <1>6. HelmReads(text) = g[n]
    BY DEF HelmReads, n
  <1> HIDE DEF g
  <1>7. g \in [0..n -> States]
    <2>1. \A k \in 0..n : g[k] = IF k = 0 THEN Reading(<< >>) ELSE HelmStep(g[k - 1], text[k])
      BY <1>5
    <2>2. g = [k \in 0..n |-> g[k]]
      BY <1>5
    <2> DEFINE S == {k \in Nat : k <= n => g[k] \in States}
    <2>3. 0 \in S
      BY <1>1, <2>1
    <2>4. ASSUME NEW k \in S PROVE k + 1 \in S
      <3> SUFFICES ASSUME k + 1 <= n PROVE g[k + 1] \in States
        OBVIOUS
      <3>1. /\ k + 1 \in 1..n /\ k + 1 \in 0..n /\ k + 1 # 0 /\ (k + 1) - 1 = k
            /\ g[k] \in States
        BY <1>1
      <3>2. g[k + 1] = HelmStep(g[k], text[k + 1])
        BY <2>1, <3>1
      <3> QED BY <1>1, <3>1, <3>2, HelmStepType
    <2> HIDE DEF S
    <2>5. S = Nat
      BY <2>3, <2>4, NatSets DEF S
    <2>6. \A k \in 0..n : g[k] \in States
      BY <1>1, <2>5 DEF S
    <2> QED BY <2>2, <2>6
  <1>8. Run(g, n, Reading(<< >>), step)
    <2>1. ASSUME NEW k \in 0..n, k # 0
          PROVE  step[<<g[k - 1], k>>] = HelmStep(g[k - 1], text[k])
      <3>1. k \in 1..n /\ g[k - 1] \in States
        BY <1>1, <1>7, <2>1
      <3> QED BY <3>1 DEF step, HelmRun, n
    <2> QED BY <1>5, <2>1 DEF Run
  <1> QED BY <1>6, <1>7, <1>8 DEF n, step

LEMMA HelmEmpty == HelmReads(<< >>) = Reading(<< >>)
  <1>1. << >> \in AnyText /\ Len(<< >>) = 0
    BY DEF AnyText
  <1>2. PICK f \in [0..0 -> States] : Run(f, 0, Reading(<< >>), HelmRun(<< >>))
                                    /\ HelmReads(<< >>) = f[0]
    BY <1>1, HelmRuns
  <1>3. f[0] = Reading(<< >>)
    BY <1>2 DEF Run
  <1> QED BY <1>2, <1>3

LEMMA HelmMore ==
    ASSUME NEW s \in AnyText, NEW c \in Chars
    PROVE  HelmReads(Append(s, c)) = HelmStep(HelmReads(s), c)
  <1> DEFINE m == Len(s)
             t == Append(s, c)
  <1>1. /\ m \in Nat /\ t \in AnyText /\ Len(t) = m + 1
        /\ \A k \in 1..m : t[k] = s[k]
        /\ t[m + 1] = c
    BY DEF AnyText
  <1>2. PICK f \in [0..m -> States] : /\ Run(f, m, Reading(<< >>), HelmRun(s))
                                      /\ HelmReads(s) = f[m]
    BY HelmRuns
  <1> HIDE DEF t
  <1>3. PICK g \in [0..(m + 1) -> States] :
            /\ Run(g, m + 1, Reading(<< >>), HelmRun(t))
            /\ HelmReads(t) = g[m + 1]
    BY <1>1, HelmRuns
  <1>4. \A x \in States, k \in 1..m : HelmRun(s)[<<x, k>>] = HelmRun(t)[<<x, k>>]
    <2> SUFFICES ASSUME NEW x \in States, NEW k \in 1..m
                 PROVE  HelmRun(s)[<<x, k>>] = HelmRun(t)[<<x, k>>]
      OBVIOUS
    <2>1. k \in 1..(m + 1) /\ s[k] = t[k]
      BY <1>1
    <2> QED BY <1>1, <2>1 DEF HelmRun
  <1>5. f[m] = g[m]
    BY <1>1, <1>2, <1>3, <1>4, m <= m + 1, RunsAgree
  <1>6. g[m + 1] = HelmStep(g[m], c)
    <2>1. g[m + 1] = HelmRun(t)[<<g[(m + 1) - 1], m + 1>>]
      <3>1. m + 1 \in 0..(m + 1) /\ m + 1 # 0
        BY <1>1
      <3> HIDE DEF m
      <3> QED BY <1>3, <3>1 DEF Run
    <2>2. (m + 1) - 1 = m /\ m + 1 \in 1..Len(t) /\ g[m] \in States
      BY <1>1
    <2> QED BY <1>1, <2>1, <2>2 DEF HelmRun
  <1> QED BY <1>2, <1>3, <1>5, <1>6 DEF t

\* A text that does not begin with a brace has no beginning that does.
LEMMA NoBraceBefore ==
    ASSUME NEW s \in AnyText, NEW c \in Chars, ~BeginsWithBrace(Append(s, c))
    PROVE  /\ ~BeginsWithBrace(s)
           /\ s = << >> => c # "{"
  <1>1. /\ Append(s, c) # << >> /\ Len(s) \in Nat
        /\ \A i \in 1..Len(s) : Append(s, c)[i] = s[i]
        /\ Append(s, c)[Len(s) + 1] = c
    BY DEF AnyText
  <1>2. Append(s, c)[1] # "{"
    BY <1>1 DEF BeginsWithBrace
  <1>3. CASE s = << >>
    <2>1. Len(s) = 0
      BY <1>3
    <2>2. Append(s, c)[1] = c
      BY <1>1, <2>1
    <2> QED BY <1>2, <1>3, <2>2 DEF BeginsWithBrace
  <1>4. CASE s # << >>
    <2>1. 1 \in 1..Len(s)
      BY <1>4 DEF AnyText
    <2> QED BY <1>1, <1>2, <1>4, <2>1 DEF BeginsWithBrace
  <1> QED BY <1>3, <1>4

\* Helm reads an escaped text as the text, unless it begins with a brace.
LEMMA EscapedIsReadBack ==
    \A s \in AnyText :
        ~BeginsWithBrace(s) => HelmReads(escapeValue(s)) = Reading(s)
  <1> DEFINE T == {s \in AnyText :
                     ~BeginsWithBrace(s) => HelmReads(escapeValue(s)) = Reading(s)}
  <1>1. << >> \in T
    <2>1. << >> \in AnyText
      BY DEF AnyText
    <2> QED BY <2>1, EscapedEmpty, HelmEmpty
  <1>2. ASSUME NEW s \in T, NEW c \in Chars PROVE Append(s, c) \in T
    <2> DEFINE e == escapeValue(s)
               read == Reading(s)
    <2>0. Append(s, c) \in AnyText
      BY DEF AnyText
    <2> SUFFICES ASSUME ~BeginsWithBrace(Append(s, c))
                 PROVE  HelmReads(escapeValue(Append(s, c))) = Reading(Append(s, c))
      BY <2>0
    <2>a. ~BeginsWithBrace(s) /\ (s = << >> => c # "{")
      <3>1. s \in AnyText
        OBVIOUS
      <3> HIDE DEF T
      <3> QED BY <3>1, NoBraceBefore
    <2>1. /\ e \in AnyText /\ Append(s, c) \in AnyText /\ "\\" \in Chars
          /\ HelmReads(e) = read
      <3>1. s \in AnyText /\ HelmReads(e) = Reading(s)
        BY <2>a
      <3>2. e \in AnyText
        BY <3>1, EscapedMore
      <3>3. Append(s, c) \in AnyText
        BY <3>1 DEF AnyText
      <3>4. "\\" \in Chars
        BY DEF Chars
      <3> QED BY <3>1, <3>2, <3>3, <3>4
    <2>2. escapeValue(Append(s, c)) = e \o escapeValue(<<c>>)
      BY EscapedMore
    <2> HIDE DEF e
    <2>3. CASE c \in Special
      <3> DEFINE escaped == [value |-> s, escaped |-> TRUE,
                            ended |-> FALSE, list |-> FALSE]
      <3>1. escapeValue(<<c>>) = <<"\\", c>>
        BY <2>3, EscapedCharacter
      <3>2. e \o <<"\\", c>> = Append(Append(e, "\\"), c)
        BY <2>1 DEF AnyText
      <3>3. Append(e, "\\") \in AnyText /\ HelmReads(Append(e, "\\")) = HelmStep(read, "\\")
        <4>1. Append(e, "\\") \in AnyText
          BY <2>1 DEF AnyText
        <4> HIDE DEF T, read
        <4>2. HelmReads(Append(e, "\\")) = HelmStep(HelmReads(e), "\\")
          BY <2>1, HelmMore
        <4> QED BY <2>1, <4>1, <4>2, Zenon
      <3>4. HelmStep(read, "\\") = escaped
        BY DEF HelmStep, Reading
      <3>5. HelmStep(escaped, c) = Reading(Append(s, c))
        BY DEF HelmStep, Reading
      <3> HIDE DEF escaped, read
      <3>6. HelmReads(Append(Append(e, "\\"), c)) = HelmStep(escaped, c)
        BY <3>3, <3>4, HelmMore
      <3>7. HelmReads(escapeValue(Append(s, c))) = HelmStep(escaped, c)
        BY <2>2, <3>1, <3>2, <3>6, Zenon
      <3> QED BY <2>1, <3>5, <3>7
    <2>4. CASE c \notin Special
      <3>1. escapeValue(<<c>>) = <<c>>
        BY <2>4, EscapedCharacter
      <3>2. e \o <<c>> = Append(e, c)
        BY <2>1 DEF AnyText
      <3>3. HelmReads(Append(e, c)) = HelmStep(read, c)
        BY <2>1, HelmMore
      <3>4. HelmStep(read, c) = Reading(Append(s, c))
        BY <2>4, <2>a DEF HelmStep, Reading, Special, Separators
      <3> HIDE DEF read
      <3>5. HelmReads(escapeValue(Append(s, c))) = HelmStep(read, c)
        BY <2>2, <3>1, <3>2, <3>3, Zenon
      <3> QED BY <2>1, <3>4, <3>5
    <2> QED BY <2>3, <2>4
  <1> HIDE DEF T
  <1>3. T = AnyText
    BY <1>1, <1>2, TextSets DEF T
  <1> QED BY <1>3 DEF T

-----------------------------------------------------------------------------
(* The theorems                                                            *)

(***************************************************************************)
(* Every path and every value that the resolver hands out is a text, and   *)
(* no more maps are merged than there are sources (ResolveValues).         *)
(***************************************************************************)
THEOREM ResolverTypeCorrect == Spec => []TypeOK
  <1>1. ASSUME ResolverInv PROVE TypeOK
    <2> USE <1>1 DEF ResolverInv
    <2>1. \A m \in AllMaps : \A p \in DOMAIN m : p \in Text /\ m[p] \in Text
      BY MapsAreMaps DEF IsMap
    <2>2. call.values \in AllMaps /\ \A k \in DOMAIN call.maps : call.maps[k] \in AllMaps
      BY DEF ResolverTyped
    <2> QED BY <2>1, <2>2 DEF ResolverTyped, TypeOK
  <1> QED BY <1>1, ResolverInvariant, PTL

(***************************************************************************)
(* Later sources override earlier ones and the bundle's namespace comes    *)
(* first, for every value that its source sets all through the call,       *)
(* however many sources there are and whatever else changes meanwhile      *)
(* (ResolveValues, fetchConfigMap, mergeMaps).                             *)
(***************************************************************************)
THEOREM SourcesTakePrecedence == Spec => []PrecedenceHolds
  <1>1. ASSUME ResolverInv, call.pc = "resolved", NEW k \in DOMAIN Sources
        PROVE  \A a \in Steady(k) :
                  a[1] \notin UNION {MentionedPaths(l) : l \in (k + 1)..Len(Sources)} =>
                      a[1] \in DOMAIN call.values /\ call.values[a[1]] = a[2]
    <2>1. Done = Len(Sources) /\ k \in 1..Len(Sources)
      BY <1>1, SourcesSeq DEF Done, ResolverInv, ResolverTyped
    <2>2. Kept(k, Len(Sources), call.maps)
      BY <1>1, <2>1 DEF ResolverInv
    <2>3. call.values = mergeMaps(call.maps) /\ DOMAIN call.values = Keys(call.maps)
      BY <1>1, MergedKeys DEF ResolverInv
    <2> QED BY <2>2, <2>3 DEF Kept
  <1>2. ResolverInv => PrecedenceHolds
    BY <1>1 DEF PrecedenceHolds
  <1> QED BY <1>2, ResolverInvariant, PTL

(***************************************************************************)
(* Values are returned only if every required source was there at some     *)
(* time during the call, and no malformed object was passed over           *)
(* (ResolveValues, isNotFoundError).                                       *)
(***************************************************************************)
THEOREM NothingRequiredIsMissing == Spec => []SourcesAreComplete
  <1>1. ASSUME ResolverInv, call.pc = "resolved", NEW k \in DOMAIN Sources
        PROVE  Complete(k)
    BY <1>1, SourcesSeq DEF Done, ResolverInv, ResolverTyped
  <1>2. ResolverInv => SourcesAreComplete
    BY <1>1 DEF SourcesAreComplete, Complete
  <1> QED BY <1>2, ResolverInvariant, PTL

(***************************************************************************)
(* Whatever ConfigMaps and Secrets hold, Helm reads from every --set       *)
(* argument the text that was resolved, unless it begins with a brace:     *)
(* five replacements one after the other put one backslash before each     *)
(* special character and none before a backslash of an earlier one         *)
(* (escapeValue, GenerateSetFlags).                                        *)
(***************************************************************************)
THEOREM FlagsAreReadBack == Spec => []FlagsReadBack
  <1>1. ASSUME ResolverInv, NEW p \in DOMAIN call.values,
               ~BeginsWithBrace(call.values[p])
        PROVE  HelmReads(GenerateSetFlags(call.values)[p]) = Reading(call.values[p])
    <2>1. call.values[p] \in Text
      BY <1>1, MapsAreMaps DEF ResolverInv, ResolverTyped, IsMap
    <2>2. call.values[p] \in AnyText
      BY <2>1, SeqMonotonic DEF Text, AnyText, Chars
    <2>3. GenerateSetFlags(call.values)[p] = escapeValue(call.values[p])
      BY <1>1 DEF GenerateSetFlags
    <2> QED BY <1>1, <2>2, <2>3, EscapedIsReadBack
  <1>2. ResolverInv => FlagsReadBack
    BY <1>1 DEF FlagsReadBack, ReadBack
  <1> QED BY <1>2, ResolverInvariant, PTL
=============================================================================
