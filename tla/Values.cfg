\* A required and an optional source in two namespaces or one, that others
\* change while they are read, and a source without a name.
SPECIFICATION Spec
CONSTANTS
    Names = {"base", "extra"}
    NoName = NoName
    Specs <- MCSpecs
    Absent = Absent
    Contents <- MCContents
    MaxStores = 3
    Flattened <- FlattenedYAML
CHECK_DEADLOCK FALSE
INVARIANTS
    TypeOK
    PrecedenceHolds
    SourcesAreComplete
    FlagsReadBack
