-------------------------------- MODULE Ids ---------------------------------
(***************************************************************************)
(* The key strings of internal/ids: the components of an identity joined    *)
(* with a separator behind a fixed namespace.  The string is the artifact   *)
(* ID clients see and the primary key of SQLiteStore's tables.  A string is *)
(* a sequence of characters.                                                *)
(***************************************************************************)
EXTENDS Integers, Sequences

CONSTANTS
    Char,              \* the characters of component strings
    Sep,               \* the separator "/"
    Space,             \* white space, which strings.TrimSpace removes
    Namespace          \* runNamespace, "run"

String == Seq(Char)

\* strings.Contains(s, sep)
HasSep(s) == \E i \in DOMAIN s : s[i] = Sep

ASSUME IdsAssumption ==
    /\ {Sep, Space} \subseteq Char
    /\ Sep # Space
    /\ Namespace \in String
    /\ ~HasSep(Namespace)

IsBlank(s) == \A i \in DOMAIN s : s[i] = Space

\* s + sep + t, the way every key is put together.
Join(s, t) == s \o <<Sep>> \o t

\* ArtifactKey.String
ArtifactKeyString(run, node, attempt, output) ==
    Join(Namespace, Join(run, Join(node, Join(attempt, output))))

\* NodeAttemptKey.String
NodeAttemptKeyString(run, node, attempt) ==
    Join(Namespace, Join(run, Join(node, attempt)))

\* ArtifactKey.Validate: only the RunID must not be blank.
ValidateArtifactKey(run, node, attempt, output) ==
    /\ ~IsBlank(run)
    /\ \A s \in {run, node, attempt, output} : ~HasSep(s)

\* NodeAttemptKey.Validate
ValidateNodeAttemptKey(run, node, attempt) ==
    /\ ~IsBlank(run)
    /\ \A s \in {run, node, attempt} : ~HasSep(s)

\* The keys of rows written before RunIDs (F4), which are still in the tables.
LegacyArtifactKeyString(sample, node, attempt, output) ==
    Join(sample, Join(node, Join(attempt, output)))

LegacyNodeAttemptKeyString(sample, node, attempt) == Join(sample, Join(node, attempt))
=============================================================================
