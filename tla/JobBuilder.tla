------------------------------ MODULE JobBuilder ------------------------------
(***************************************************************************)
(* converge.Builder (internal/converge/job.go): the name, the retention    *)
(* and the limits of the converge Job of a tag, as far as they decide      *)
(* whether Build panics and whether the API server takes the Job.  Names   *)
(* are reduced to their lengths.  crypto/rand is taken not to fail.        *)
(***************************************************************************)
EXTENDS WerfBundle

CONSTANTS
    NameLength,      \* the length of the bundle's name
    LabelTags,       \* tags that make a label value: at most 63 characters,
                     \* alphanumeric at both ends
    ShortHashTags    \* tags whose FNV-1a hash prints in fewer than 8 digits

ASSUME BuilderAssumption ==
    /\ NameLength \in 1..253
    /\ LabelTags \subseteq Tags
    /\ ShortHashTags \subseteq Tags

-----------------------------------------------------------------------------
MaxNameLength == 253
MaxLabelLength == 63
SuffixLength == 8 + 8 + 2      \* "-", tag hash, "-" and uuid

\* The slice [:8] of a hash that prints in fewer than 8 digits.
jobNamePanics(tag) == tag \in ShortHashTags

\* The length of <bundle>-<tag hash>-<uuid>, with the bundle's name cut where
\* the whole would be too long.
jobNameLength ==
    LET maxBundleLen == MaxNameLength - SuffixLength
    IN  IF NameLength + SuffixLength <= MaxNameLength
        THEN NameLength + SuffixLength
        ELSE maxBundleLen + SuffixLength

(***************************************************************************)
(* Seconds are counted in units of 128, of which a day has 675: an int32   *)
(* number of seconds wraps around at 2^32, a number of units at 2^25.      *)
(***************************************************************************)
Day == 675
DefaultRetentionDays == 7

Int32Units(n) ==
    LET wrapped == n % 2^25
    IN  IF wrapped >= 2^24 THEN wrapped - 2^25 ELSE wrapped

\* Mutant of getLogRetentionSeconds: the product is not the number of days.
getLogRetentionHours(spec) == Int32Units(spec.logRetentionDays * (Day \div 24))

\* 0 stands for an absent or not positive LogRetentionDays.
getLogRetentionSeconds(spec) ==
    LET days == IF spec.logRetentionDays > 0 THEN spec.logRetentionDays
                                             ELSE DefaultRetentionDays
    IN  Int32Units(days * Day)

\* The defaults, 1 CPU and 1Gi, stand in for a limit that is not given.
getResourceLimit(value) == IF value = "unset" THEN "quantity" ELSE value

mustParseResourcePanics(value) == value = "malformed"

getResourceLimitPanics(spec) ==
    \/ mustParseResourcePanics(getResourceLimit(spec.cpuLimit))
    \/ mustParseResourcePanics(getResourceLimit(spec.memoryLimit))

(***************************************************************************)
(* The API server's validation of a Job: the bundle's name and the tag are *)
(* labels, so is the Job's own name (job-name, on its pods), and           *)
(* ttlSecondsAfterFinished is not negative.                                *)
(***************************************************************************)
Accepted(spec, tag) ==
    /\ jobNameLength <= MaxLabelLength /\ NameLength <= MaxLabelLength
    /\ tag \in LabelTags
    /\ getLogRetentionSeconds(spec) >= 0
=============================================================================
