----------------------------- MODULE HTTPSources ----------------------------
(***************************************************************************)
(* The three checks a URI meets: validateLegacyArtifactURI on the URI of an *)
(* artifact and validateHTTPSource on an HTTP location, when they are       *)
(* registered, and validateCandidateSource, under the allowlist of the      *)
(* running process, each time a source is verified or offered.  They are    *)
(* separate code and do not accept the same URIs: the first trims its       *)
(* argument, and only the last looks at the host name without its port.     *)
(*                                                                          *)
(* A URI is a model value and Parsed stands for url.Parse.  A location with *)
(* headers is refused like one that does not parse.                         *)
(***************************************************************************)
CONSTANTS
    URIs,            \* the nonempty URIs clients send
    Parsed,          \* what url.Parse makes of each
    AllowedHosts,    \* AH_ALLOWED_HTTP_SOURCE_HOSTS
    AllowAny,        \* AH_ALLOW_ANY_HTTP_SOURCE
    PrivateHosts     \* the hosts that are loopback, link-local or private addresses

(***************************************************************************)
(* text is "padded" where white space around the URI keeps it from parsing, *)
(* "blank" where there is nothing else, and "malformed" where trimming does *)
(* not help; the other fields are about the trimmed URI.  host is the host  *)
(* name without the port, "" where there is none.                           *)
(***************************************************************************)
ASSUME HTTPSourcesAssumption ==
    /\ AllowAny \in BOOLEAN
    /\ "" \notin AllowedHosts \cup PrivateHosts
    /\ DOMAIN Parsed = URIs
    /\ \A u \in URIs :
          /\ DOMAIN Parsed[u] = {"text", "http", "user", "host", "port", "query"}
          /\ Parsed[u].text \in {"plain", "padded", "blank", "malformed"}
          /\ {Parsed[u].http, Parsed[u].user, Parsed[u].port, Parsed[u].query} \subseteq BOOLEAN

\* An http or https URL with a host, perhaps only a port, no userinfo and no query.
fetchable(p) == p.http /\ ~p.user /\ (p.host # "" \/ p.port) /\ ~p.query

validateHTTPSource(u) == Parsed[u].text = "plain" /\ fetchable(Parsed[u])

validateLegacyArtifactURI(u) == Parsed[u].text \in {"plain", "padded"} /\ fetchable(Parsed[u])

\* A nonempty list decides; without one, only AllowAny lets a host pass.
hostAllowed(h) == IF AllowedHosts = {} THEN AllowAny ELSE h \in AllowedHosts

validateCandidateURI(u) ==
    /\ Parsed[u].text = "plain"
    /\ fetchable(Parsed[u])
    /\ Parsed[u].host # ""
    /\ hostAllowed(Parsed[u].host)
    /\ Parsed[u].host \notin PrivateHosts
=============================================================================
