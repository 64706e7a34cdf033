---------------------------- MODULE DomainProofs ----------------------------
(***************************************************************************)
(* What the other proofs use about the operators of Domain and Resolution:  *)
(* the sources an artifact derives, the list a resolver works with, and the *)
(* answer ResolveHandoffCore computes from it.                              *)
(***************************************************************************)
EXTENDS Resolution, TLAPS, WellFoundedInduction, SequenceTheorems

-----------------------------------------------------------------------------
(* Sources derived from an artifact.                                        *)

\* Filling in a node name keeps a location well formed.
LEMMA BackfillType ==
    ASSUME NEW a \in Artifact, NEW l \in Location
    PROVE  BackfillNode(a, l) \in Location
<1>1. CASE l.kind = "node_local" /\ l.node = ""
  <2>1. l \in [kind : {"node_local"}, node : Nodes \cup {""}, path : Paths \cup {""}]
    BY <1>1 DEF Location
  <2>2. a.node \in Nodes \cup {""}
    BY DEF Artifact
  <2>3. BackfillNode(a, l) = [l EXCEPT !.node = a.node]
    BY <1>1 DEF BackfillNode
  <2> QED BY <2>1, <2>2, <2>3 DEF Location
<1>2. CASE ~(l.kind = "node_local" /\ l.node = "")
  BY <1>2 DEF BackfillNode
<1> QED BY <1>1, <1>2

\* Filling in the node names of an artifact keeps its type and its digest.
LEMMA NodesFilledType ==
    ASSUME NEW a \in Artifact
    PROVE  NodesFilled(a) \in Artifact /\ NodesFilled(a).digest = a.digest
<1> DEFINE filled == [i \in DOMAIN a.locations |-> BackfillNode(a, a.locations[i])]
<1>1. a.locations \in Seq(Location)
  BY DEF Artifact
<1>2. filled \in Seq(Location)
  <2>1. \A i \in DOMAIN a.locations : a.locations[i] \in Location
    BY <1>1
  <2>2. \A i \in DOMAIN a.locations : BackfillNode(a, a.locations[i]) \in Location
    BY <2>1, BackfillType
  <2>3. PICK n \in Nat : DOMAIN a.locations = 1 .. n
    BY <1>1
  <2>4. filled \in [1 .. n -> Location]
    BY <2>2, <2>3
  <2> QED BY <2>4
<1>3. NodesFilled(a) = [a EXCEPT !.locations = filled]
  BY DEF NodesFilled
<1> HIDE DEF filled
<1> QED BY <1>2, <1>3 DEF Artifact

\* The sources a registration derives are valid ones of its own artifact, with its
\* nonblank digest.
LEMMA InitialSources ==
    ASSUME NEW k \in ArtifactKey, NEW a \in Artifact
    PROVE  LET rows == initialSourcesForArtifact(k, a)
           IN  /\ DOMAIN rows \subseteq SourceID
               /\ \A id \in DOMAIN rows :
                     /\ rows[id] \in Source
                     /\ rows[id].owner = k
                     /\ rows[id].digest = a.digest
                     /\ ~Blank(rows[id].digest)
                     /\ ValidateArtifactSource(rows[id])
<1> DEFINE kept == {l \in DeclaredLocations(a) :
                        ValidateArtifactSourceForArtifact(k, a, InitialSource(k, a, l))}
           ids == {<<k, DefaultBackend(l), l>> : l \in kept}
           rows == initialSourcesForArtifact(k, a)
<1>1. \A l \in DeclaredLocations(a) : l \in Location
  <2> HIDE DEF kept, ids, rows
  <2>1. a.locations \in Seq(Location) /\ a.uri \in URIs \cup {""}
    BY DEF Artifact
  <2>2. \A l \in Range(a.locations) : l \in Location
    <3> DEFINE ls == a.locations
    <3>1. ls \in Seq(Location)
      BY <2>1
    <3> HIDE DEF ls
    <3>2. \A i \in DOMAIN ls : ls[i] \in Location
      BY <3>1
    <3> QED BY <3>2, Zenon DEF Range, ls
  <2>3. a.uri # "" => [kind |-> "http", uri |-> a.uri] \in Location
    BY <2>1 DEF Location
  <2> QED BY <2>2, <2>3 DEF DeclaredLocations
<1>2. rows = [id \in ids |-> InitialSource(k, a, id[3])]
  BY DEF initialSourcesForArtifact
<1>3. ASSUME NEW id \in ids
      PROVE  /\ id \in SourceID
             /\ InitialSource(k, a, id[3]) \in Source
             /\ InitialSource(k, a, id[3]).owner = k
             /\ InitialSource(k, a, id[3]).digest = a.digest
             /\ ~Blank(InitialSource(k, a, id[3]).digest)
             /\ ValidateArtifactSource(InitialSource(k, a, id[3]))
  <2>1. PICK l \in kept : id = <<k, DefaultBackend(l), l>>
    OBVIOUS
  <2>2. l \in Location /\ id[3] = l
    BY <1>1, <2>1
  <2>3. DefaultBackend(l) \in BackendID
    BY DEF DefaultBackend, BackendID
  <2>4. BackfillNode(a, l) \in Location
    BY <2>2, BackfillType
  <2>5. InitialSource(k, a, l) \in Source
    BY <2>3, <2>4 DEF InitialSource, Source, SourceState, Artifact
  <2>6. InitialSource(k, a, l).owner = k /\ InitialSource(k, a, l).digest = a.digest
    BY DEF InitialSource
  <2>7. ~Blank(InitialSource(k, a, l).digest) /\ ValidateArtifactSource(InitialSource(k, a, l))
    BY DEF ValidateArtifactSourceForArtifact
  <2> QED BY <2>1, <2>2, <2>3, <2>5, <2>6, <2>7 DEF SourceID
<1> HIDE DEF ids
<1> QED BY <1>2, <1>3

-----------------------------------------------------------------------------
(* The list a resolver works with.                                          *)

\* Sources at positions.
SourceList(srcs) == DOMAIN srcs \subseteq Nat /\ \A i \in DOMAIN srcs : srcs[i] \in Source

\* A source that may be offered for the artifact a stored under k.
Usable(k, a, s) ==
    /\ s \in Source
    /\ s.state = "ready"
    /\ ValidateArtifactSourceForArtifact(k, a, s)
    /\ validateCandidateSource(s)

\* A nonempty set of positions has a least one.
LEMMA LeastPosition ==
    ASSUME NEW S \in SUBSET Nat, S # {}
    PROVE  Min(S) \in S
<1> DEFINE less == {ss \in Nat \X Nat : ss[1] < ss[2]}
<1>1. IsWellFoundedOn(less, Nat)
  BY NatLessThanWellFounded DEF OpToRel
<1>2. \A y \in S : \A x \in S : y < x => <<y, x>> \in less
  OBVIOUS
<1> HIDE DEF less
<1>3. PICK x \in S : \A y \in S : ~(<<y, x>> \in less)
  BY <1>1, WFMin, Zenon
<1>4. ASSUME NEW y \in S PROVE x =< y
  <2>1. x \in Nat /\ y \in Nat /\ ~(y < x)
    BY <1>2, <1>3, Zenon
  <2> QED BY <2>1
<1> QED BY <1>4, Zenon DEF Min

\* A stored list, or the list derived from the artifact, is a list of sources.
LEMMA EffectiveType ==
    ASSUME NEW k \in ArtifactKey, NEW a \in Artifact, NEW listed \in Seq(Source)
    PROVE  SourceList(effectiveArtifactSources(k, a, listed))
<1>1. CASE listed # <<>>
  BY <1>1 DEF effectiveArtifactSources, SourceList
<1>2. CASE listed = <<>>
  <2> DEFINE derived == initialSourcesForArtifact(k, a)
             ids == [i \in DOMAIN a.locations |->
                        <<k, DefaultBackend(a.locations[i]), a.locations[i]>>]
                    \o <<<<k, "legacy-http", [kind |-> "http", uri |-> a.uri]>>>>
  <2>1. effectiveArtifactSources(k, a, listed)
            = [i \in {j \in DOMAIN ids : ids[j] \in DOMAIN derived} |-> derived[ids[i]]]
    BY <1>2 DEF effectiveArtifactSources
  <2>2. DOMAIN ids \subseteq Nat
    OBVIOUS
  <2>3. \A id \in DOMAIN derived : derived[id] \in Source
    BY InitialSources
  <2> HIDE DEF derived, ids
  <2> QED BY <2>1, <2>2, <2>3 DEF SourceList
<1> QED BY <1>1, <1>2

\* What an artifact declares at a position: a location, or at the end its legacy URI.
DeclaredAt(a, i) ==
    IF i = Len(a.locations) + 1 THEN [kind |-> "http", uri |-> a.uri] ELSE a.locations[i]

DeclaresAt(a, i) ==
    IF i = Len(a.locations) + 1 THEN a.uri # "" ELSE a.locations[i].kind # "malformed"

\* The locations of an artifact.
LEMMA LocationFacts ==
    ASSUME NEW a \in Artifact
    PROVE  /\ Len(a.locations) \in Nat
           /\ DOMAIN a.locations = 1 .. Len(a.locations)
           /\ \A i \in 1 .. Len(a.locations) : a.locations[i] \in Location
<1> DEFINE ls == a.locations
<1>1. ls \in Seq(Location)
  BY DEF Artifact
<1> HIDE DEF ls
<1>2. Len(ls) \in Nat /\ DOMAIN ls = 1 .. Len(ls) /\ \A i \in 1 .. Len(ls) : ls[i] \in Location
  BY <1>1
<1> QED BY <1>2 DEF ls

\* The derived list, position by position.
LEMMA EffectiveAt ==
    ASSUME NEW k \in ArtifactKey, NEW a \in Artifact
    PROVE  effectiveArtifactSources(k, a, <<>>) =
              [i \in {j \in 1 .. Len(a.locations) + 1 :
                        /\ DeclaresAt(a, j)
                        /\ ValidateArtifactSourceForArtifact(k, a, InitialSource(k, a, DeclaredAt(a, j)))}
                 |-> InitialSource(k, a, DeclaredAt(a, i))]
<1> DEFINE ls == a.locations
           n == Len(ls)
           legacy == [kind |-> "http", uri |-> a.uri]
           derived == initialSourcesForArtifact(k, a)
           id(l) == <<k, DefaultBackend(l), l>>
           valid(l) == ValidateArtifactSourceForArtifact(k, a, InitialSource(k, a, l))
           first == [i \in DOMAIN ls |-> id(ls[i])]
           ids == first \o <<id(legacy)>>
<1>1. effectiveArtifactSources(k, a, <<>>)
          = [i \in {j \in DOMAIN ids : ids[j] \in DOMAIN derived} |-> derived[ids[i]]]
  BY DEF effectiveArtifactSources, DefaultBackend
<1>2. /\ n \in Nat /\ DOMAIN ls = 1 .. n /\ a.uri \in URIs \cup {""}
      /\ \A i \in 1 .. n : ls[i] \in Location
  BY LocationFacts DEF Artifact
<1>3. DeclaredLocations(a) = {l \in {ls[i] : i \in 1 .. n} : l.kind # "malformed"}
                                \cup (IF a.uri = "" THEN {} ELSE {legacy})
  BY <1>2 DEF DeclaredLocations, Range
<1>4. ASSUME NEW l
      PROVE  /\ id(l) \in DOMAIN derived <=> (l \in DeclaredLocations(a) /\ valid(l))
             /\ id(l) \in DOMAIN derived => derived[id(l)] = InitialSource(k, a, l)
  BY DEF initialSourcesForArtifact
<1>5. \A i : DeclaredAt(a, i) = (IF i = n + 1 THEN legacy ELSE ls[i])
             /\ DeclaresAt(a, i) = (IF i = n + 1 THEN a.uri # "" ELSE ls[i].kind # "malformed")
  BY DEF DeclaredAt, DeclaresAt
<1> HIDE DEF derived, id, valid, n, ls
<1>6. DOMAIN ids = 1 .. n + 1 /\ \A i \in 1 .. n + 1 : ids[i] = id(DeclaredAt(a, i))
  <2>1. first \in Seq({id(l) : l \in Location}) /\ Len(first) = n
    <3>1. first \in [1 .. n -> {id(l) : l \in Location}]
      BY <1>2
    <3>2. n \in Nat
      BY <1>2
    <3> DEFINE S == {id(l) : l \in Location}
    <3> HIDE DEF first, S
    <3>3. first \in [1 .. n -> S]
      BY <3>1 DEF S
    <3>4. first \in Seq(S) /\ Len(first) = n
      BY <3>2, <3>3
    <3> QED BY <3>4 DEF S
  <2>2. \A i \in 1 .. n : first[i] = id(ls[i])
    BY <1>2
  <2>3. n \in Nat
    BY <1>2
  <2> HIDE DEF first, legacy
  <2>4. DOMAIN ids = 1 .. n + 1
    BY <2>1, <2>3
  <2>5. \A i \in 1 .. n : ids[i] = first[i]
    BY <2>1, <2>3
  <2>6. ids[n + 1] = id(legacy)
    BY <2>1, <2>3
  <2>7. \A i \in 1 .. n + 1 : i \in 1 .. n \/ i = n + 1
    BY <2>3
  <2>8. n + 1 \notin 1 .. n
    BY <2>3
  <2> HIDE DEF ids
  <2> QED BY <1>5, <2>2, <2>4, <2>5, <2>6, <2>7, <2>8
<1>7. ASSUME NEW i \in 1 .. n + 1
      PROVE  DeclaredAt(a, i) \in DeclaredLocations(a) <=> DeclaresAt(a, i)
  <2>1. CASE i # n + 1
    <3>1. i \in 1 .. n
      <4>1. n \in Nat
        BY <1>2
      <4> QED BY <2>1, <4>1
    <3>2. ls[i].kind = "malformed" => ls[i] # legacy
      OBVIOUS
    <3> QED BY <1>3, <1>5, <2>1, <3>1, <3>2
  <2>2. CASE i = n + 1
    <3>1. legacy \in Location => a.uri \in URIs
      <4>1. \A l \in Location : l.kind = "http" => l.uri \in URIs
        BY DEF Location
      <4>2. legacy.kind = "http" /\ legacy.uri = a.uri
        OBVIOUS
      <4> HIDE DEF legacy
      <4> QED BY <4>1, <4>2
    <3>2. "" \notin URIs
      BY DomainAssumption
    <3> QED BY <1>2, <1>3, <1>5, <2>2, <3>1, <3>2, ZenonT(60)
  <2> QED BY <2>1, <2>2
<1> HIDE DEF ids
<1>8. \A i \in DOMAIN ids : ids[i] \in DOMAIN derived <=> DeclaresAt(a, i) /\ valid(DeclaredAt(a, i))
  BY <1>4, <1>6, <1>7
<1>9. \A i \in DOMAIN ids : ids[i] \in DOMAIN derived => derived[ids[i]] = InitialSource(k, a, DeclaredAt(a, i))
  BY <1>4, <1>6
<1> QED BY <1>1, <1>6, <1>8, <1>9, Zenon DEF valid, n, ls

\* Filling in the node names of an artifact leaves the derived list as it was: only the
\* IDs of the sources would be others.
LEMMA EffectiveFilled ==
    ASSUME NEW k \in ArtifactKey, NEW a \in Artifact
    PROVE  effectiveArtifactSources(k, NodesFilled(a), <<>>) = effectiveArtifactSources(k, a, <<>>)
<1> DEFINE f == NodesFilled(a)
           n == Len(a.locations)
<1>1. f \in Artifact
  BY NodesFilledType
<1>2. /\ n \in Nat /\ DOMAIN a.locations = 1 .. n
      /\ \A i \in 1 .. n : a.locations[i] \in Location
  BY LocationFacts
<1>3. /\ f.digest = a.digest /\ f.node = a.node /\ f.uri = a.uri
      /\ f.locations = [i \in 1 .. n |-> BackfillNode(a, a.locations[i])]
  <2> DEFINE filled == [i \in DOMAIN a.locations |-> BackfillNode(a, a.locations[i])]
  <2>1. f = [a EXCEPT !.locations = filled]
    BY DEF NodesFilled
  <2> HIDE DEF filled
  <2>2. f.digest = a.digest /\ f.node = a.node /\ f.uri = a.uri /\ f.locations = filled
    BY <2>1 DEF Artifact
  <2> QED BY <1>2, <2>2 DEF filled
<1> HIDE DEF f
<1>4. Len(f.locations) = n
  <2>1. DOMAIN f.locations = 1 .. Len(f.locations) /\ Len(f.locations) \in Nat
    BY <1>1, LocationFacts
  <2>2. DOMAIN f.locations = 1 .. n
    BY <1>3
  <2> HIDE DEF n
  <2> QED BY <1>2, <2>1, <2>2
<1>5. ASSUME NEW l \in Location
      PROVE  /\ BackfillNode(a, l).kind = l.kind
             /\ InitialSource(k, f, BackfillNode(a, l)) = InitialSource(k, a, l)
  <2>1. BackfillNode(a, l).kind = l.kind
    BY DEF BackfillNode, Location
  <2>2. BackfillNode(f, BackfillNode(a, l)) = BackfillNode(a, l)
    BY <1>3, <2>1 DEF BackfillNode, Location
  <2> QED BY <1>3, <2>1, <2>2 DEF InitialSource, DefaultBackend
<1>6. InitialSource(k, f, DeclaredAt(f, n + 1)) = InitialSource(k, a, DeclaredAt(a, n + 1))
  BY <1>3, <1>4, Zenon DEF InitialSource, DeclaredAt, BackfillNode, DefaultBackend
<1>7. \A i \in 1 .. n + 1 :
          /\ DeclaresAt(f, i) <=> DeclaresAt(a, i)
          /\ InitialSource(k, f, DeclaredAt(f, i)) = InitialSource(k, a, DeclaredAt(a, i))
  <2>1. ASSUME NEW i \in 1 .. n
        PROVE  /\ DeclaresAt(f, i) <=> DeclaresAt(a, i)
               /\ InitialSource(k, f, DeclaredAt(f, i)) = InitialSource(k, a, DeclaredAt(a, i))
    <3>1. n \in Nat /\ i # n + 1
      BY <1>2
    <3>2. DeclaredAt(a, i) = a.locations[i] /\ DeclaredAt(f, i) = f.locations[i]
      BY <1>4, <3>1 DEF DeclaredAt
    <3>3. f.locations[i] = BackfillNode(a, a.locations[i]) /\ a.locations[i] \in Location
      BY <1>2, <1>3
    <3>4. /\ DeclaresAt(a, i) = (a.locations[i].kind # "malformed")
          /\ DeclaresAt(f, i) = (f.locations[i].kind # "malformed")
      BY <1>4, <3>1 DEF DeclaresAt
    <3> HIDE DEF n
    <3> QED BY <1>5, <3>2, <3>3, <3>4
  <2>2. DeclaresAt(f, n + 1) <=> DeclaresAt(a, n + 1)
    BY <1>3, <1>4 DEF DeclaresAt
  <2>3. \A i \in 1 .. n + 1 : i \in 1 .. n \/ i = n + 1
    BY <1>2
  <2> HIDE DEF n
  <2> QED BY <1>6, <2>1, <2>2, <2>3
<1>8. \A src : ValidateArtifactSourceForArtifact(k, f, src) <=> ValidateArtifactSourceForArtifact(k, a, src)
  BY <1>3 DEF ValidateArtifactSourceForArtifact
<1>9. effectiveArtifactSources(k, f, <<>>) =
          [i \in {j \in 1 .. n + 1 :
                    /\ DeclaresAt(f, j)
                    /\ ValidateArtifactSourceForArtifact(k, f, InitialSource(k, f, DeclaredAt(f, j)))}
             |-> InitialSource(k, f, DeclaredAt(f, i))]
  BY <1>1, <1>4, EffectiveAt, Zenon
<1> QED BY <1>7, <1>8, <1>9, EffectiveAt, ZenonT(30) DEF f

\* The local copy an answer may offer is usable and has a path.
LEMMA FirstLocal ==
    ASSUME NEW k, NEW a, NEW srcs, SourceList(srcs)
    PROVE  LET s == firstReadyNodeLocalSource(candidateEligibleArtifactSources(k, a, srcs))
           IN  s # None => Usable(k, a, s) /\ s.loc.kind = "node_local" /\ s.loc.path # ""
<1> DEFINE usable == candidateEligibleArtifactSources(k, a, srcs)
           found == {i \in DOMAIN usable : usable[i].loc.kind = "node_local" /\ usable[i].loc.path # ""}
<1>1. DOMAIN usable \subseteq Nat /\ \A i \in DOMAIN usable : Usable(k, a, usable[i])
  BY DEF candidateEligibleArtifactSources, Restrict, Usable, SourceList
<1>2. firstReadyNodeLocalSource(usable) = IF found = {} THEN None ELSE usable[Min(found)]
  BY DEF firstReadyNodeLocalSource
<1> HIDE DEF usable
<1>3. found # {} => Min(found) \in found
  BY <1>1, LeastPosition
<1> QED BY <1>1, <1>2, <1>3, Zenon DEF usable

\* So is the HTTP source.
LEMMA FirstRemote ==
    ASSUME NEW k, NEW a, NEW srcs, SourceList(srcs)
    PROVE  LET s == firstReadyHTTPSource(candidateEligibleArtifactSources(k, a, srcs))
           IN  s # None => Usable(k, a, s) /\ s.loc.kind = "http"
<1> DEFINE usable == candidateEligibleArtifactSources(k, a, srcs)
           found == {i \in DOMAIN usable : usable[i].loc.kind = "http"}
<1>1. DOMAIN usable \subseteq Nat /\ \A i \in DOMAIN usable : Usable(k, a, usable[i])
  BY DEF candidateEligibleArtifactSources, Restrict, Usable, SourceList
<1>2. firstReadyHTTPSource(usable) = IF found = {} THEN None ELSE usable[Min(found)]
  BY DEF firstReadyHTTPSource
<1> HIDE DEF usable
<1>3. found # {} => Min(found) \in found
  BY <1>1, LeastPosition
<1> QED BY <1>1, <1>2, <1>3 DEF usable

-----------------------------------------------------------------------------
(* The answer for a registered artifact.                                    *)

LocalSource(b, a, srcs) == firstReadyNodeLocalSource(candidateEligibleArtifactSources(b.key, a, srcs))

RemoteSource(b, a, srcs) == firstReadyHTTPSource(candidateEligibleArtifactSources(b.key, a, srcs))

LocalList(b, target, a, srcs) == localCandidates(b, a, LocalSource(b, a, srcs), target)

RemoteList(b, target, a, srcs) ==
    remoteCandidates(b, a, RemoteSource(b, a, srcs), LocalList(b, target, a, srcs))

\* A candidate that offers a usable source of the artifact, in its own mode.
OfferOf(b, a, c) ==
    /\ c \in Candidate
    /\ c.digest = a.digest
    /\ Usable(b.key, a, c.source)
    /\ c.mode = "local_reuse" => c.source.loc.kind = "node_local" /\ c.source.loc.path # ""
    /\ c.mode = "remote_fetch" => c.source.loc.kind = "http"

\* The candidate made of a local source is tied to its node in a plan.
LocalOffer(b, a, target, s, c) ==
    /\ s \in Source /\ s.loc.kind = "node_local" /\ s.loc.node \in Nodes \cup {""}
    /\ OfferOf(b, a, c)
    /\ c.priority = 1 /\ c.mode = "local_reuse" /\ c.source = s
    /\ c.onNode = IF target = "" THEN s.loc.node ELSE ""

\* The candidate made of an HTTP source comes after those in the list local.
RemoteOffer(b, a, local, s, c) ==
    /\ OfferOf(b, a, c)
    /\ c.priority = IF local = <<>> THEN 1 ELSE 2
    /\ c.mode = "remote_fetch" /\ c.source = s /\ c.onNode = ""

\* There is a local candidate exactly when there is a usable local source.
LEMMA LocalFacts ==
    ASSUME NEW b \in Binding, NEW a \in Artifact, NEW srcs, SourceList(srcs), ~DigestMismatch(b, a),
           NEW target \in Nodes \cup {""}
    PROVE  \/ LocalSource(b, a, srcs) = None /\ LocalList(b, target, a, srcs) = <<>>
           \/ /\ LocalSource(b, a, srcs) # None
              /\ \E c : /\ LocalList(b, target, a, srcs) = <<c>>
                        /\ LocalOffer(b, a, target, LocalSource(b, a, srcs), c)
<1> DEFINE s == LocalSource(b, a, srcs)
           c == [priority |-> 1, mode |-> "local_reuse", source |-> s, digest |-> a.digest,
                 onNode |-> IF target = "" THEN s.loc.node ELSE ""]
<1>1. s # None => Usable(b.key, a, s) /\ s.loc.kind = "node_local" /\ s.loc.path # ""
  BY FirstLocal DEF LocalSource
<1> HIDE DEF s
<1>2. CASE s = None
  BY <1>2 DEF LocalList, localCandidates, s
<1>3. CASE s # None
  <2>1. s \in Source /\ ~Blank(a.digest) /\ a.digest \in DigestValue
    BY <1>1, <1>3 DEF Usable, ValidateArtifactSourceForArtifact, Artifact
  <2>2. expectedDigest(b, a) = a.digest
    BY DEF expectedDigest, DigestMismatch
  <2>3. LocalList(b, target, a, srcs) = <<c>>
    BY <1>3, <2>1, <2>2 DEF LocalList, localCandidates, s
  <2>4. s.loc \in Location
    BY <2>1 DEF Source
  <2>5. s.loc.node \in Nodes \cup {""}
    BY <1>1, <1>3, <2>4 DEF Location
  <2>6. a.digest \in Digests
    BY <2>1 DEF Blank, DigestValue
  <2>7. c \in Candidate
    BY <2>1, <2>5, <2>6 DEF Candidate, Mode
  <2>8. /\ c.priority = 1 /\ c.mode = "local_reuse" /\ c.source = s /\ c.digest = a.digest
        /\ c.onNode = IF target = "" THEN s.loc.node ELSE ""
    OBVIOUS
  <2> HIDE DEF c
  <2>9. LocalOffer(b, a, target, s, c)
    BY <1>1, <1>3, <2>1, <2>5, <2>7, <2>8 DEF OfferOf, LocalOffer
  <2> QED BY <1>3, <2>3, <2>9, Zenon DEF s
<1> QED BY <1>2, <1>3

\* There is a remote candidate exactly when there is a usable HTTP source.
LEMMA RemoteFacts ==
    ASSUME NEW b \in Binding, NEW a \in Artifact, NEW srcs, SourceList(srcs), ~DigestMismatch(b, a),
           NEW target
    PROVE  \/ RemoteSource(b, a, srcs) = None /\ RemoteList(b, target, a, srcs) = <<>>
           \/ /\ RemoteSource(b, a, srcs) # None
              /\ \E c : /\ RemoteList(b, target, a, srcs) = <<c>>
                        /\ RemoteOffer(b, a, LocalList(b, target, a, srcs), RemoteSource(b, a, srcs), c)
<1> DEFINE s == RemoteSource(b, a, srcs)
           local == LocalList(b, target, a, srcs)
           c == [priority |-> IF local = <<>> THEN 1 ELSE 2, mode |-> "remote_fetch", source |-> s,
                 digest |-> a.digest, onNode |-> ""]
<1>1. s # None => Usable(b.key, a, s) /\ s.loc.kind = "http"
  BY FirstRemote DEF RemoteSource
<1> HIDE DEF s, local
<1>2. CASE s = None
  BY <1>2 DEF RemoteList, remoteCandidates, s
<1>3. CASE s # None
  <2>1. s \in Source /\ ~Blank(a.digest) /\ a.digest \in DigestValue
    BY <1>1, <1>3 DEF Usable, ValidateArtifactSourceForArtifact, Artifact
  <2>2. expectedDigest(b, a) = a.digest
    BY DEF expectedDigest, DigestMismatch
  <2>3. RemoteList(b, target, a, srcs) = <<c>>
    BY <1>3, <2>1, <2>2 DEF RemoteList, remoteCandidates, s, local
  <2>4. a.digest \in Digests
    BY <2>1 DEF Blank, DigestValue
  <2>5. c \in Candidate
    BY <2>1, <2>4 DEF Candidate, Mode
  <2>6. /\ c.mode = "remote_fetch" /\ c.source = s /\ c.digest = a.digest /\ c.onNode = ""
        /\ c.priority = IF local = <<>> THEN 1 ELSE 2
    OBVIOUS
  <2> HIDE DEF c
  <2>7. RemoteOffer(b, a, local, s, c)
    BY <1>1, <1>3, <2>5, <2>6 DEF OfferOf, RemoteOffer
  <2> QED BY <1>3, <2>3, <2>7, Zenon DEF s, local
<1> QED BY <1>2, <1>3

\* Short sequences and their concatenation.
LEMMA SeqFacts ==
    ASSUME NEW S, NEW T, S \subseteq T
    PROVE  /\ <<>> \in Seq(S) /\ DOMAIN <<>> = {}
           /\ \A x \in S : <<x>> \in Seq(S)
           /\ \A p, q \in Seq(S) : p \o q \in Seq(S)
           /\ \A q \in Seq(S) : q \in Seq(T) /\ \A i \in DOMAIN q : q[i] \in S
<1>1. <<>> \in Seq(S) /\ \A x \in S : <<x>> \in Seq(S)
  OBVIOUS
<1>2. \A p, q \in Seq(S) : p \o q \in Seq(S)
  OBVIOUS
<1>3. ASSUME NEW q \in Seq(S) PROVE q \in Seq(T) /\ \A i \in DOMAIN q : q[i] \in S
  <2>1. PICK n \in Nat : q \in [1 .. n -> S]
    OBVIOUS
  <2>2. q \in [1 .. n -> T]
    BY <2>1
  <2> QED BY <2>1, <2>2
<1>4. DOMAIN <<>> = {}
  OBVIOUS
<1> QED BY <1>1, <1>2, <1>3, <1>4

\* Two lists of one make a list of two.
LEMMA ConcatOnes ==
    ASSUME NEW x, NEW y
    PROVE  <<x>> \o <<y>> = <<x, y>>
<1> DEFINE S == {x, y}
           p == <<x>>
           q == <<y>>
           pq == <<x>> \o <<y>>
           xy == <<x, y>>
<1>1. p \in Seq(S) /\ Len(p) = 1 /\ p[1] = x
  OBVIOUS
<1>2. q \in Seq(S) /\ Len(q) = 1 /\ q[1] = y
  OBVIOUS
<1>3. xy \in Seq(S) /\ Len(xy) = 2 /\ xy[1] = x /\ xy[2] = y
  OBVIOUS
<1>4. pq = p \o q
  OBVIOUS
<1> HIDE DEF S, p, q, pq, xy
<1>5. pq \in Seq(S) /\ Len(pq) = 2 /\ pq[1] = x /\ pq[2] = y
  BY <1>1, <1>2, <1>4, ConcatProperties
<1>6. pq = xy
  BY <1>3, <1>5, SeqEqual
<1> QED BY <1>6 DEF pq, xy

\* Whatever the policy and the node, the answer is a plan made of these candidates, or no
\* plan at all.
LEMMA RegisteredAnswer ==
    ASSUME NEW b \in Binding, NEW a \in Artifact, NEW srcs, SourceList(srcs), ~DigestMismatch(b, a),
           NEW target \in Nodes \cup {""}
    PROVE  LET r == ResolveRegistered(b, target, a, srcs)
           IN  /\ r \in ResolvedHandoff
               /\ r.status \in {"RESOLVED", "POLICY_BLOCKED", "UNAVAILABLE"}
               /\ \A i \in DOMAIN r.candidates : OfferOf(b, a, r.candidates[i])
<1> DEFINE r == ResolveRegistered(b, target, a, srcs)
           local == LocalList(b, target, a, srcs)
           remote == RemoteList(b, target, a, srcs)
           producer == producerNodeName(a, LocalSource(b, a, srcs))
           C == {c \in Candidate : OfferOf(b, a, c)}
           Good == /\ r \in ResolvedHandoff
                   /\ r.status \in {"RESOLVED", "POLICY_BLOCKED", "UNAVAILABLE"}
                   /\ \A i \in DOMAIN r.candidates : OfferOf(b, a, r.candidates[i])
<1>1. \A c : OfferOf(b, a, c) <=> c \in C
  BY DEF OfferOf
<1>2. local \in Seq(C) /\ remote \in Seq(C)
  <2>1. local = <<>> \/ \E c : local = <<c>> /\ OfferOf(b, a, c)
    <3>1. \/ local = <<>>
          \/ \E c : local = <<c>> /\ LocalOffer(b, a, target, LocalSource(b, a, srcs), c)
      BY LocalFacts, Zenon
    <3> HIDE DEF local
    <3> QED BY <3>1, Zenon DEF LocalOffer
  <2>2. remote = <<>> \/ \E c : remote = <<c>> /\ OfferOf(b, a, c)
    <3>1. \/ remote = <<>>
          \/ \E c : remote = <<c>> /\ RemoteOffer(b, a, local, RemoteSource(b, a, srcs), c)
      BY RemoteFacts, Zenon
    <3> HIDE DEF local, remote
    <3> QED BY <3>1, Zenon DEF RemoteOffer
  <2> HIDE DEF C, local, remote
  <2> QED BY <1>1, <2>1, <2>2, SeqFacts
<1>3. producer \in Nodes \cup {""}
  BY LocalFacts DEF LocalOffer, producerNodeName, Artifact
<1> DEFINE Lists == {<<>>, local, remote, local \o remote}
           Blocked == [NoPlan("POLICY_BLOCKED") EXCEPT !.place = "required_node", !.node = producer]
<1>4. \/ r = NoPlan("UNAVAILABLE")
      \/ r = Blocked
      \/ \E d \in {"local_reuse", "remote_fetch"}, n \in {"", producer}, cs \in Lists,
            p \in {"none", "preferred_node", "required_node"}, m \in {"local_reuse", "remote_fetch"} :
            r = Resolved(d, p, n, m, cs)
  <2>1. r = CASE target # "" -> ResolveOnNode(b.policy, target, producer, local, remote)
              [] target = "" /\ b.policy = "SameNodeOnly" -> PlanSameNodeOnly(producer, local)
              [] target = "" /\ b.policy = "SameNodeThenRemote" ->
                    PlanSameNodeThenRemote(producer, local, remote)
              [] OTHER -> PlanRemoteOK(local, remote)
    BY DEF ResolveRegistered, LocalList, RemoteList, LocalSource, RemoteSource
  <2> HIDE DEF r, local, remote, producer
  <2>2. b.policy \in {"SameNodeOnly", "SameNodeThenRemote", "RemoteOK"}
    BY DEF Binding, ConsumePolicy
  <2>3. CASE target # ""
    BY <2>1, <2>2, <2>3 DEF ResolveOnNode
  <2>4. CASE target = "" /\ b.policy = "SameNodeOnly"
    BY <2>1, <2>4 DEF PlanSameNodeOnly
  <2>5. CASE target = "" /\ b.policy = "SameNodeThenRemote"
    BY <2>1, <2>5 DEF PlanSameNodeThenRemote
  <2>6. CASE target = "" /\ b.policy = "RemoteOK"
    BY <2>1, <2>6 DEF PlanRemoteOK
  <2> QED BY <2>2, <2>3, <2>4, <2>5, <2>6
<1> HIDE DEF r, local, remote, producer
<1>5. \A cs \in Lists : cs \in Seq(C)
  <2> HIDE DEF C
  <2> QED BY <1>2, SeqFacts
<1>6. ASSUME NEW cs \in Lists PROVE cs \in Seq(Candidate) /\ \A i \in DOMAIN cs : OfferOf(b, a, cs[i])
  <2>1. cs \in Seq(C)
    BY <1>5
  <2>2. C \subseteq Candidate
    OBVIOUS
  <2> HIDE DEF C, Lists
  <2> QED BY <1>1, <2>1, <2>2, SeqFacts
<1> HIDE DEF Lists, C
<1>7. ASSUME r = NoPlan("UNAVAILABLE") PROVE Good
  <2>1. r \in ResolvedHandoff /\ r.status = "UNAVAILABLE" /\ r.candidates = <<>>
    BY <1>7, SeqFacts DEF NoPlan, ResolvedHandoff, Status, Decision, Mode
  <2>2. DOMAIN r.candidates = {}
    BY <2>1, SeqFacts
  <2> QED BY <2>1, <2>2
<1>8. ASSUME r = Blocked PROVE Good
  <2>1. r \in ResolvedHandoff /\ r.status = "POLICY_BLOCKED" /\ r.candidates = <<>>
    BY <1>3, <1>8, SeqFacts DEF NoPlan, ResolvedHandoff, Status, Decision, Mode
  <2>2. DOMAIN r.candidates = {}
    BY <2>1, SeqFacts
  <2> QED BY <2>1, <2>2
<1>9. ASSUME NEW d \in {"local_reuse", "remote_fetch"}, NEW n \in {"", producer}, NEW cs \in Lists,
             NEW p \in {"none", "preferred_node", "required_node"},
             NEW m \in {"local_reuse", "remote_fetch"}, r = Resolved(d, p, n, m, cs)
      PROVE  Good
  BY <1>3, <1>6, <1>9 DEF Resolved, ResolvedHandoff, Status, Decision, Mode
<1> HIDE DEF Good, Blocked
<1>10. Good
  BY <1>4, <1>7, <1>8, <1>9
<1> QED BY <1>10 DEF r, Good
=============================================================================
