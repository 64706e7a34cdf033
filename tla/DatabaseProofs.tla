--------------------------- MODULE DatabaseProofs ---------------------------
(***************************************************************************)
(* What SQLiteStore's file keeps, whichever processes open, migrate, write  *)
(* and die on it, for any Runs, any rows of before RunIDs and any calls.    *)
(*                                                                          *)
(* The file changes in two ways only, a commit and a statement outside a    *)
(* transaction, so the argument is about the private copy a commit brings:  *)
(* since its transaction began the copy has kept everything the file had    *)
(* (Kept), and how far it has got is told by its owner's place in           *)
(* sqliteMigrate (AtStatement).  That the rows of Runs and of before RunIDs *)
(* cannot meet is a fact about their keys: the key of a validated identity  *)
(* has exactly one separator behind each component but the last, so no      *)
(* other identity, and no row of before RunIDs, has the same key.           *)
(*                                                                          *)
(* What a call does to the rows is told by the copy too: CopyInv says which *)
(* of the call's rows it has so far and that none of them was refused       *)
(* against the file, which no other process can change meanwhile.           *)
(***************************************************************************)
EXTENDS SQLiteStore, TLAPS

-----------------------------------------------------------------------------
(* Key strings.                                                            *)

\* Join(s, t) holds s, then the separator, then t.
LEMMA JoinContents ==
    ASSUME NEW s \in String, NEW t \in String
    PROVE  /\ Join(s, t) \in String
           /\ Len(Join(s, t)) = Len(s) + 1 + Len(t)
           /\ Len(s) \in Nat /\ Len(t) \in Nat
           /\ \A i \in 1 .. Len(s) : Join(s, t)[i] = s[i]
           /\ Join(s, t)[Len(s) + 1] = Sep
           /\ \A i \in 1 .. Len(t) : Join(s, t)[Len(s) + 1 + i] = t[i]
  BY IdsAssumption DEF Join, String

\* Two strings of the same length with the same characters are equal.
LEMMA SameString ==
    ASSUME NEW s \in String, NEW t \in String, Len(s) = Len(t),
           \A i \in 1 .. Len(s) : s[i] = t[i]
    PROVE  s = t
  BY DEF String

\* Behind the same prefix, equal strings have equal rests.
LEMMA SamePrefix ==
    ASSUME NEW s \in String, NEW t \in String, NEW u \in String, Join(s, t) = Join(s, u)
    PROVE  t = u
  <1> DEFINE j == Join(s, t)
  <1>1. Len(s) \in Nat /\ Len(t) \in Nat /\ Len(j) = Len(s) + 1 + Len(t)
    BY JoinContents
  <1>2. Len(u) \in Nat /\ Len(j) = Len(s) + 1 + Len(u)
    BY JoinContents
  <1>3. \A i \in 1 .. Len(t) : j[Len(s) + 1 + i] = t[i]
    BY JoinContents
  <1>4. \A i \in 1 .. Len(u) : j[Len(s) + 1 + i] = u[i]
    <2>1. \A i \in 1 .. Len(u) : Join(s, u)[Len(s) + 1 + i] = u[i]
      BY JoinContents, Zenon
    <2> QED
      BY <2>1
  <1> HIDE DEF j
  <1>5. Len(t) = Len(u)
    BY <1>1, <1>2
  <1>6. \A i \in 1 .. Len(t) : t[i] = u[i]
    BY <1>3, <1>4, <1>5
  <1> QED
    BY <1>5, <1>6, SameString

\* A separator in Join(s, t) is in s, in t, or the one between them.
LEMMA SeparatorsOfJoin ==
    ASSUME NEW s \in String, NEW t \in String, ~HasSep(s),
           NEW i \in 1 .. Len(Join(s, t)), Join(s, t)[i] = Sep
    PROVE  \/ i = Len(s) + 1
           \/ i > Len(s) + 1 /\ t[i - (Len(s) + 1)] = Sep
  <1> DEFINE j == Join(s, t)
  <1>1. Len(s) \in Nat /\ Len(t) \in Nat /\ Len(j) = Len(s) + 1 + Len(t)
    BY JoinContents
  <1>2. \A m \in 1 .. Len(s) : j[m] = s[m]
    BY JoinContents
  <1>3. \A m \in 1 .. Len(t) : j[Len(s) + 1 + m] = t[m]
    BY JoinContents
  <1>4. \A m \in 1 .. Len(s) : s[m] # Sep
    BY DEF HasSep, String
  <1>5. i \in 1 .. Len(j) /\ j[i] = Sep
    OBVIOUS
  <1> HIDE DEF j
  <1>6. i \notin 1 .. Len(s)
    BY <1>2, <1>4, <1>5
  <1>7. CASE i > Len(s) + 1
    <2> DEFINE m == i - (Len(s) + 1)
    <2>1. m \in 1 .. Len(t) /\ Len(s) + 1 + m = i
      BY <1>1, <1>5, <1>7
    <2>2. t[m] = Sep
      BY <2>1, <1>3, <1>5
    <2> QED
      BY <2>2, <1>7
  <1> QED
    BY <1>1, <1>5, <1>6, <1>7

\* u is r, n and a, with separators at the two places between them.
Parts3(u, r, n, a) ==
    /\ u \in String
    /\ Len(u) = Len(r) + 1 + Len(n) + 1 + Len(a)
    /\ u[Len(r) + 1] = Sep
    /\ u[Len(r) + 1 + Len(n) + 1] = Sep
    /\ \A i \in 1 .. Len(r) : u[i] = r[i]
    /\ \A i \in 1 .. Len(n) : u[Len(r) + 1 + i] = n[i]
    /\ \A i \in 1 .. Len(a) : u[Len(r) + 1 + Len(n) + 1 + i] = a[i]

\* A join of three strings has these parts.
LEMMA ThreeParts ==
    ASSUME NEW r \in String, NEW n \in String, NEW a \in String
    PROVE  Parts3(Join(r, Join(n, a)), r, n, a)
  <1> DEFINE v  == Join(n, a)
             u  == Join(r, v)
             p1 == Len(r) + 1
             p2 == p1 + Len(n) + 1
  <1>1. v \in String /\ u \in String
    BY JoinContents
  <1>2. Len(v) = Len(n) + 1 + Len(a) /\ Len(u) = p1 + Len(v)
    BY <1>1, JoinContents
  <1>3. \A i \in 1 .. Len(v) : u[p1 + i] = v[i]
    BY <1>1, JoinContents
  <1>4. u[p1] = Sep /\ \A i \in 1 .. Len(r) : u[i] = r[i]
    BY <1>1, JoinContents
  <1>5. v[Len(n) + 1] = Sep /\ \A i \in 1 .. Len(n) : v[i] = n[i]
    BY JoinContents
  <1>6. \A i \in 1 .. Len(a) : v[Len(n) + 1 + i] = a[i]
    BY JoinContents
  <1>7. Len(r) \in Nat /\ Len(n) \in Nat /\ Len(a) \in Nat
    BY JoinContents
  <1> HIDE DEF u, v
  <1>8. u[p2] = Sep
    BY <1>2, <1>3, <1>5, <1>7
  <1>9. \A i \in 1 .. Len(n) : u[p1 + i] = n[i]
    BY <1>2, <1>3, <1>5, <1>7
  <1>10. \A i \in 1 .. Len(a) : u[p2 + i] = a[i]
    <2> TAKE i \in 1 .. Len(a)
    <2>1. Len(n) + 1 + i \in 1 .. Len(v) /\ p1 + (Len(n) + 1 + i) = p2 + i
      BY <1>2, <1>7
    <2> QED
      BY <2>1, <1>3, <1>6
  <1> QED
    <2>1. Parts3(u, r, n, a)
      BY <1>1, <1>2, <1>4, <1>7, <1>8, <1>9, <1>10 DEF Parts3
    <2> QED
      BY <2>1 DEF u, v

\* u is r, n, a and o, with separators at the three places between them.
Parts4(u, r, n, a, o) ==
    /\ u \in String
    /\ Len(u) = Len(r) + 1 + Len(n) + 1 + Len(a) + 1 + Len(o)
    /\ u[Len(r) + 1] = Sep
    /\ u[Len(r) + 1 + Len(n) + 1] = Sep
    /\ u[Len(r) + 1 + Len(n) + 1 + Len(a) + 1] = Sep
    /\ \A i \in 1 .. Len(r) : u[i] = r[i]
    /\ \A i \in 1 .. Len(n) : u[Len(r) + 1 + i] = n[i]
    /\ \A i \in 1 .. Len(a) : u[Len(r) + 1 + Len(n) + 1 + i] = a[i]
    /\ \A i \in 1 .. Len(o) : u[Len(r) + 1 + Len(n) + 1 + Len(a) + 1 + i] = o[i]

\* A join of four strings has these parts.
LEMMA FourParts ==
    ASSUME NEW r \in String, NEW n \in String, NEW a \in String, NEW o \in String
    PROVE  Parts4(Join(r, Join(n, Join(a, o))), r, n, a, o)
  <1> DEFINE w  == Join(a, o)
             u  == Join(r, Join(n, w))
             p1 == Len(r) + 1
             p2 == p1 + Len(n) + 1
             p3 == p2 + Len(a) + 1
  <1>1. w \in String /\ Len(w) = Len(a) + 1 + Len(o)
    BY JoinContents
  <1>2. w[Len(a) + 1] = Sep /\ \A i \in 1 .. Len(a) : w[i] = a[i]
    BY JoinContents
  <1>3. \A i \in 1 .. Len(o) : w[Len(a) + 1 + i] = o[i]
    BY JoinContents
  <1>4. Len(r) \in Nat /\ Len(n) \in Nat /\ Len(a) \in Nat /\ Len(o) \in Nat
    BY JoinContents
  <1> HIDE DEF w
  <1>5. /\ u \in String
        /\ Len(u) = p2 + Len(w)
        /\ u[p1] = Sep /\ u[p2] = Sep
        /\ \A i \in 1 .. Len(r) : u[i] = r[i]
        /\ \A i \in 1 .. Len(n) : u[p1 + i] = n[i]
        /\ \A i \in 1 .. Len(w) : u[p2 + i] = w[i]
    <2>1. Parts3(u, r, n, w)
      BY <1>1, ThreeParts
    <2> HIDE DEF u
    <2> QED
      BY <2>1 DEF Parts3
  <1> HIDE DEF u
  <1>6. u[p3] = Sep
    <2>1. Len(a) + 1 \in 1 .. Len(w) /\ p2 + (Len(a) + 1) = p3
      BY <1>1, <1>4
    <2> QED
      BY <2>1, <1>2, <1>5
  <1>7. \A i \in 1 .. Len(a) : u[p2 + i] = a[i]
    BY <1>1, <1>2, <1>4, <1>5
  <1>8. \A i \in 1 .. Len(o) : u[p3 + i] = o[i]
    <2> TAKE i \in 1 .. Len(o)
    <2>1. Len(a) + 1 + i \in 1 .. Len(w) /\ p2 + (Len(a) + 1 + i) = p3 + i
      BY <1>1, <1>4
    <2> QED
      BY <2>1, <1>3, <1>5
  <1> QED
    <2>1. Parts4(u, r, n, a, o)
      BY <1>1, <1>4, <1>5, <1>6, <1>7, <1>8 DEF Parts4
    <2> QED
      BY <2>1 DEF u, w

\* The only separators of a join of three strings that have none.
LEMMA ThreeSeparators ==
    ASSUME NEW r \in String, NEW n \in String, NEW a \in String,
           ~HasSep(r), ~HasSep(n), ~HasSep(a),
           NEW i \in 1 .. Len(Join(r, Join(n, a))), Join(r, Join(n, a))[i] = Sep
    PROVE  i \in {Len(r) + 1, Len(r) + 1 + Len(n) + 1}
  <1> DEFINE v == Join(n, a)
             m == i - (Len(r) + 1)
  <1>1. v \in String /\ Len(Join(r, v)) = Len(r) + 1 + Len(v)
    BY JoinContents
  <1>2. Len(r) \in Nat /\ Len(n) \in Nat /\ Len(a) \in Nat /\ Len(v) \in Nat
    BY <1>1, JoinContents
  <1>3. CASE i # Len(r) + 1
    <2>1. i > Len(r) + 1 /\ v[m] = Sep
      BY <1>1, <1>3, SeparatorsOfJoin, Zenon
    <2>2. m \in 1 .. Len(v)
      BY <1>1, <1>2, <2>1
    <2>3. m = Len(n) + 1 \/ (m > Len(n) + 1 /\ a[m - (Len(n) + 1)] = Sep)
      BY <2>1, <2>2, SeparatorsOfJoin, Zenon
    <2>4. CASE m > Len(n) + 1 /\ a[m - (Len(n) + 1)] = Sep
      <3>1. Len(v) = Len(n) + 1 + Len(a)
        BY JoinContents
      <3>2. m - (Len(n) + 1) \in 1 .. Len(a)
        BY <1>2, <2>2, <2>4, <3>1
      <3> QED
        BY <2>4, <3>2 DEF HasSep, String
    <2> QED
      BY <1>2, <2>3, <2>4
  <1> QED
    BY <1>3

\* The only separators of a join of four strings that have none.
LEMMA FourSeparators ==
    ASSUME NEW r \in String, NEW n \in String, NEW a \in String, NEW o \in String,
           ~HasSep(r), ~HasSep(n), ~HasSep(a), ~HasSep(o),
           NEW i \in 1 .. Len(Join(r, Join(n, Join(a, o)))),
           Join(r, Join(n, Join(a, o)))[i] = Sep
    PROVE  i \in {Len(r) + 1, Len(r) + 1 + Len(n) + 1, Len(r) + 1 + Len(n) + 1 + Len(a) + 1}
  <1> DEFINE v == Join(n, Join(a, o))
             m == i - (Len(r) + 1)
  <1>1. v \in String /\ Len(v) \in Nat
    BY JoinContents DEF String
  <1>2. Len(Join(r, v)) = Len(r) + 1 + Len(v)
    BY <1>1, JoinContents
  <1>3. Len(r) \in Nat /\ Len(n) \in Nat /\ Len(a) \in Nat
    BY JoinContents
  <1>4. CASE i # Len(r) + 1
    <2>1. i > Len(r) + 1 /\ v[m] = Sep
      BY <1>1, <1>4, SeparatorsOfJoin
    <2>2. m \in 1 .. Len(v)
      BY <1>1, <1>2, <1>3, <2>1
    <2>3. m \in {Len(n) + 1, Len(n) + 1 + Len(a) + 1}
      BY <2>1, <2>2, ThreeSeparators, Zenon
    <2> HIDE DEF v
    <2> QED
      BY <1>3, <2>3
  <1> QED
    BY <1>4

\* Three places in order among three places in order are the same places.
LEMMA SamePlaces ==
    ASSUME NEW p1 \in Nat, NEW p2 \in Nat, NEW p3 \in Nat, p1 < p2, p2 < p3,
           NEW q1 \in {p1, p2, p3}, NEW q2 \in {p1, p2, p3}, NEW q3 \in {p1, p2, p3},
           q1 < q2, q2 < q3
    PROVE  q1 = p1 /\ q2 = p2 /\ q3 = p3
  OBVIOUS

(***************************************************************************)
(* ArtifactKey.String is exact: a string that is the key of a validated     *)
(* identity is the key of no other four components, validated or not (the   *)
(* lookups of GetArtifact do not validate what clients send).               *)
(***************************************************************************)
THEOREM ArtifactKeyExact ==
    ASSUME NEW r \in String, NEW n \in String, NEW a \in String, NEW o \in String,
           ValidateArtifactKey(r, n, a, o),
           NEW r2 \in String, NEW n2 \in String, NEW a2 \in String, NEW o2 \in String,
           ArtifactKeyString(r, n, a, o) = ArtifactKeyString(r2, n2, a2, o2)
    PROVE  r = r2 /\ n = n2 /\ a = a2 /\ o = o2
  <1> DEFINE u  == Join(r, Join(n, Join(a, o)))
             p1 == Len(r) + 1
             p2 == p1 + Len(n) + 1
             p3 == p2 + Len(a) + 1
             q1 == Len(r2) + 1
             q2 == q1 + Len(n2) + 1
             q3 == q2 + Len(a2) + 1
  <1>1. Parts4(u, r, n, a, o)
    BY FourParts
  <1>2. Parts4(u, r2, n2, a2, o2)
    <2>1. u \in String /\ Join(r2, Join(n2, Join(a2, o2))) \in String
      BY JoinContents
    <2>2. u = Join(r2, Join(n2, Join(a2, o2)))
      BY <2>1, SamePrefix, IdsAssumption DEF ArtifactKeyString
    <2> QED
      BY <2>2, FourParts
  <1>3. \A i \in 1 .. Len(u) : u[i] = Sep => i \in {p1, p2, p3}
    BY FourSeparators DEF ValidateArtifactKey
  <1>4. /\ Len(r) \in Nat /\ Len(n) \in Nat /\ Len(a) \in Nat /\ Len(o) \in Nat
        /\ Len(r2) \in Nat /\ Len(n2) \in Nat /\ Len(a2) \in Nat /\ Len(o2) \in Nat
    BY JoinContents
  <1> HIDE DEF u
  <1>5. Len(u) = p3 + Len(o) /\ Len(u) = q3 + Len(o2)
    BY <1>1, <1>2, <1>4, Zenon DEF Parts4
  <1>6. u[q1] = Sep /\ u[q2] = Sep /\ u[q3] = Sep
    BY <1>2 DEF Parts4
  <1>7. q1 \in 1 .. Len(u) /\ q2 \in 1 .. Len(u) /\ q3 \in 1 .. Len(u)
    BY <1>4, <1>5
  <1>8. q1 \in {p1, p2, p3} /\ q2 \in {p1, p2, p3} /\ q3 \in {p1, p2, p3}
    BY <1>3, <1>6, <1>7
  <1>9. /\ p1 \in Nat /\ p2 \in Nat /\ p3 \in Nat /\ p1 < p2 /\ p2 < p3
        /\ q1 < q2 /\ q2 < q3
    BY <1>4
  <1>10. q1 = p1 /\ q2 = p2 /\ q3 = p3
    BY <1>8, <1>9, SamePlaces
  <1>11. Len(r) = Len(r2) /\ Len(n) = Len(n2) /\ Len(a) = Len(a2) /\ Len(o) = Len(o2)
    <2>1. Len(r) = Len(r2)
      BY <1>4, <1>10
    <2>2. Len(n) = Len(n2)
      BY <1>4, <1>10, <2>1
    <2>3. Len(a) = Len(a2)
      BY <1>4, <1>10, <2>1, <2>2
    <2>4. Len(o) = Len(o2)
      BY <1>4, <1>5, <2>1, <2>2, <2>3
    <2> QED
      BY <2>1, <2>2, <2>3, <2>4
  <1>12. r = r2
    BY <1>1, <1>2, <1>11, SameString DEF Parts4
  <1>13. n = n2
    BY <1>1, <1>2, <1>11, SameString DEF Parts4
  <1>14. a = a2
    BY <1>1, <1>2, <1>11, SameString DEF Parts4
  <1>15. o = o2
    BY <1>1, <1>2, <1>11, SameString DEF Parts4
  <1> QED
    BY <1>12, <1>13, <1>14, <1>15

(***************************************************************************)
(* NodeAttemptKey.String is exact in the same sense: the key of a validated *)
(* attempt is the key of no other Run, node and attempt.                    *)
(***************************************************************************)
THEOREM NodeAttemptKeyExact ==
    ASSUME NEW r \in String, NEW n \in String, NEW a \in String,
           ValidateNodeAttemptKey(r, n, a),
           NEW r2 \in String, NEW n2 \in String, NEW a2 \in String,
           NodeAttemptKeyString(r, n, a) = NodeAttemptKeyString(r2, n2, a2)
    PROVE  r = r2 /\ n = n2 /\ a = a2
  <1> DEFINE u  == Join(r, Join(n, a))
             p1 == Len(r) + 1
             p2 == p1 + Len(n) + 1
             q1 == Len(r2) + 1
             q2 == q1 + Len(n2) + 1
  <1>1. Parts3(u, r, n, a)
    BY ThreeParts
  <1>2. Parts3(u, r2, n2, a2)
    <2>1. u \in String /\ Join(r2, Join(n2, a2)) \in String
      BY JoinContents
    <2>2. u = Join(r2, Join(n2, a2))
      BY <2>1, SamePrefix, IdsAssumption DEF NodeAttemptKeyString
    <2> QED
      BY <2>2, ThreeParts
  <1>3. \A i \in 1 .. Len(u) : u[i] = Sep => i \in {p1, p2}
    BY ThreeSeparators DEF ValidateNodeAttemptKey
  <1>4. /\ Len(r) \in Nat /\ Len(n) \in Nat /\ Len(a) \in Nat
        /\ Len(r2) \in Nat /\ Len(n2) \in Nat /\ Len(a2) \in Nat
    BY JoinContents
  <1> HIDE DEF u
  <1>5. Len(u) = p2 + Len(a) /\ Len(u) = q2 + Len(a2)
    BY <1>1, <1>2, <1>4, Zenon DEF Parts3
  <1>6. u[q1] = Sep /\ u[q2] = Sep
    BY <1>2 DEF Parts3
  <1>7. q1 \in 1 .. Len(u) /\ q2 \in 1 .. Len(u)
    BY <1>4, <1>5
  <1>8. q1 \in {p1, p2} /\ q2 \in {p1, p2}
    BY <1>3, <1>6, <1>7
  <1>9. Len(r) = Len(r2) /\ Len(n) = Len(n2) /\ Len(a) = Len(a2)
    BY <1>4, <1>5, <1>8
  <1>10. r = r2
    BY <1>1, <1>2, <1>9, SameString DEF Parts3
  <1>11. n = n2
    BY <1>1, <1>2, <1>9, SameString DEF Parts3
  <1>12. a = a2
    BY <1>1, <1>2, <1>9, SameString DEF Parts3
  <1> QED
    BY <1>10, <1>11, <1>12

\* Four places in order are not among three.
LEMMA FourPlaces ==
    ASSUME NEW q1 \in Nat, NEW q2 \in Nat, NEW q3 \in Nat,
           NEW p0 \in {q1, q2, q3}, NEW p1 \in {q1, q2, q3},
           NEW p2 \in {q1, q2, q3}, NEW p3 \in {q1, q2, q3},
           p0 < p1, p1 < p2, p2 < p3
    PROVE  FALSE
  OBVIOUS

(***************************************************************************)
(* The key of a Run's artifact is never the key of a legacy row, whatever   *)
(* the old SampleRunID was: it has one separator more (the "extra leading   *)
(* run segment" of internal/ids).                                           *)
(***************************************************************************)
THEOREM LegacyArtifactKeyDisjoint ==
    ASSUME NEW r \in String, NEW n \in String, NEW a \in String, NEW o \in String,
           NEW s2 \in String, NEW n2 \in String, NEW a2 \in String, NEW o2 \in String,
           ~HasSep(s2), ~HasSep(n2), ~HasSep(a2), ~HasSep(o2)
    PROVE  ArtifactKeyString(r, n, a, o) # LegacyArtifactKeyString(s2, n2, a2, o2)
  <1> SUFFICES ASSUME ArtifactKeyString(r, n, a, o) = LegacyArtifactKeyString(s2, n2, a2, o2)
               PROVE  FALSE
    OBVIOUS
  <1> DEFINE u == Join(r, Join(n, Join(a, o)))
             j == Join(Namespace, u)
             p0 == Len(Namespace) + 1
             p1 == p0 + (Len(r) + 1)
             p2 == p0 + (Len(r) + 1 + Len(n) + 1)
             p3 == p0 + (Len(r) + 1 + Len(n) + 1 + Len(a) + 1)
             q1 == Len(s2) + 1
             q2 == Len(s2) + 1 + Len(n2) + 1
             q3 == Len(s2) + 1 + Len(n2) + 1 + Len(a2) + 1
  <1>1. /\ Len(r) \in Nat /\ Len(n) \in Nat /\ Len(a) \in Nat /\ Len(o) \in Nat
        /\ Len(s2) \in Nat /\ Len(n2) \in Nat /\ Len(a2) \in Nat
    BY JoinContents
  <1>2. Parts4(u, r, n, a, o)
    BY FourParts
  <1>3. \A i \in 1 .. Len(j) : j[i] = Sep => i \in {q1, q2, q3}
    <2>1. j = Join(s2, Join(n2, Join(a2, o2)))
      BY DEF ArtifactKeyString, LegacyArtifactKeyString
    <2> HIDE DEF j
    <2> QED
      BY <2>1, FourSeparators
  <1> HIDE DEF u
  <1>4. u \in String /\ Namespace \in String
    BY <1>2, IdsAssumption DEF Parts4
  <1>5. Len(Namespace) \in Nat /\ Len(j) = p0 + Len(u) /\ j[p0] = Sep
    BY <1>4, JoinContents
  <1>6. \A i \in 1 .. Len(u) : j[p0 + i] = u[i]
    BY <1>4, JoinContents
  <1> HIDE DEF j
  <1>7. Len(u) = Len(r) + 1 + Len(n) + 1 + Len(a) + 1 + Len(o)
    BY <1>2 DEF Parts4
  <1>8. j[p1] = Sep
    BY <1>1, <1>2, <1>6, <1>7 DEF Parts4
  <1>9. j[p2] = Sep
    BY <1>1, <1>2, <1>6, <1>7 DEF Parts4
  <1>10. j[p3] = Sep
    BY <1>1, <1>2, <1>6, <1>7 DEF Parts4
  <1>11. p0 \in 1 .. Len(j) /\ p1 \in 1 .. Len(j) /\ p2 \in 1 .. Len(j) /\ p3 \in 1 .. Len(j)
    BY <1>1, <1>5, <1>7
  <1>12. p0 \in {q1, q2, q3} /\ p1 \in {q1, q2, q3} /\ p2 \in {q1, q2, q3} /\ p3 \in {q1, q2, q3}
    BY <1>3, <1>5, <1>8, <1>9, <1>10, <1>11
  <1>13. p0 < p1 /\ p1 < p2 /\ p2 < p3 /\ q1 \in Nat /\ q2 \in Nat /\ q3 \in Nat
    BY <1>1, <1>5
  <1> QED
    BY <1>12, <1>13, FourPlaces

(***************************************************************************)
(* The key of a Run's node attempt is never the key of a legacy terminal    *)
(* row: it has the leading run segment too, so a report of a Run never      *)
(* meets the state an old binary recorded.                                  *)
(***************************************************************************)
THEOREM LegacyNodeAttemptKeyDisjoint ==
    ASSUME NEW r \in String, NEW n \in String, NEW a \in String,
           NEW s2 \in String, NEW n2 \in String, NEW a2 \in String,
           ~HasSep(s2), ~HasSep(n2), ~HasSep(a2)
    PROVE  NodeAttemptKeyString(r, n, a) # LegacyNodeAttemptKeyString(s2, n2, a2)
  <1> SUFFICES ASSUME NodeAttemptKeyString(r, n, a) = LegacyNodeAttemptKeyString(s2, n2, a2)
               PROVE  FALSE
    OBVIOUS
  <1> DEFINE u == Join(r, Join(n, a))
             j == Join(Namespace, u)
             p0 == Len(Namespace) + 1
             p1 == p0 + (Len(r) + 1)
             p2 == p0 + (Len(r) + 1 + Len(n) + 1)
             q1 == Len(s2) + 1
             q2 == Len(s2) + 1 + Len(n2) + 1
  <1>1. /\ Len(r) \in Nat /\ Len(n) \in Nat /\ Len(a) \in Nat
        /\ Len(s2) \in Nat /\ Len(n2) \in Nat
    BY JoinContents
  <1>2. Parts3(u, r, n, a)
    BY ThreeParts
  <1>3. \A i \in 1 .. Len(j) : j[i] = Sep => i \in {q1, q2}
    <2>1. j = Join(s2, Join(n2, a2))
      BY DEF NodeAttemptKeyString, LegacyNodeAttemptKeyString
    <2> HIDE DEF j
    <2> QED
      BY <2>1, ThreeSeparators
  <1> HIDE DEF u
  <1>4. u \in String /\ Namespace \in String
    BY <1>2, IdsAssumption DEF Parts3
  <1>5. Len(Namespace) \in Nat /\ Len(j) = p0 + Len(u) /\ j[p0] = Sep
    BY <1>4, JoinContents
  <1>6. \A i \in 1 .. Len(u) : j[p0 + i] = u[i]
    BY <1>4, JoinContents
  <1> HIDE DEF j
  <1>7. Len(u) = Len(r) + 1 + Len(n) + 1 + Len(a)
    BY <1>2 DEF Parts3
  <1>8. j[p1] = Sep
    BY <1>1, <1>2, <1>6, <1>7 DEF Parts3
  <1>9. j[p2] = Sep
    BY <1>1, <1>2, <1>6, <1>7 DEF Parts3
  <1>10. p0 \in 1 .. Len(j) /\ p1 \in 1 .. Len(j) /\ p2 \in 1 .. Len(j)
    BY <1>1, <1>5, <1>7
  <1>11. p0 \in {q1, q2} /\ p1 \in {q1, q2} /\ p2 \in {q1, q2}
    BY <1>3, <1>5, <1>8, <1>9, <1>10
  <1>12. p0 < p1 /\ p1 < p2 /\ q1 \in Nat /\ q2 \in Nat /\ p0 \in Nat /\ p1 \in Nat /\ p2 \in Nat
    BY <1>1, <1>5
  <1> HIDE DEF p0, p1, p2, q1, q2
  <1> QED
    BY <1>11, <1>12

-----------------------------------------------------------------------------
(* The file.                                                                *)


\* The statements that run in a transaction.
InTransaction == {"tx"} \cup (Opening \ {"begin", "alter"})

\* A row is either one of before RunIDs, under its own kind of key, or has the run_id and
\* the key of one identity.
OfOneKind(db) ==
    /\ \A key \in ArtifactRows :
          \/ db.artifacts[key] = None
          \/ Legacy(db.artifacts[key]) /\ key \in LegacyArtifactKeys
          \/ \E k \in ArtifactKey : /\ key = KeyString[k]
                                    /\ db.artifacts[key].run_id = k.run
                                    /\ db.artifacts[key].artifact_id = key
    /\ \A key \in TerminalRows :
          \/ db.terminals[key] = None
          \/ Legacy(db.terminals[key]) /\ key \in LegacyAttemptKeys
          \/ \E n \in NodeAttemptKey : key = AttemptString[n] /\ db.terminals[key].run_id = n.run

\* A file this binary opens holds only such rows; another one may hold anything.
Readable(db) == db \in Database /\ (db.version \in {"", "2"} => OfOneKind(db))

\* What no statement takes away.
Kept(old, new) ==
    /\ old.tables \subseteq new.tables
    /\ old.columns \subseteq new.columns
    /\ old.version = "2" => new.version = "2"
    /\ LegacyKeys(new.artifacts) = LegacyKeys(old.artifacts)
    /\ LegacyKeys(new.terminals) = LegacyKeys(old.terminals)
    /\ \A key \in LegacyKeys(old.artifacts) : new.artifacts[key] = old.artifacts[key]
    /\ \A key \in LegacyKeys(old.terminals) : new.terminals[key] = old.terminals[key]
    /\ \A id \in SourceIDs :
          (old.sources[id] # None /\ \A k \in ArtifactKey : KeyString[k] # old.sources[id].artifact_id)
             => new.sources[id] = old.sources[id]
    /\ new.sampleLifecycles = old.sampleLifecycles
    /\ old.counts # None => new.counts = old.counts

\* How far the copy has got when the transaction's owner is at pc.
AtStatement(pc) ==
    /\ pc # "createTables" => work.tables = Tables
    /\ pc \in {"createTables", "checkVersion", "addColumns", "disposition"} =>
          work.version = file.version /\ work.counts = file.counts
    /\ pc \notin {"createTables", "checkVersion"} => file.version \in {"", "2"}
    /\ pc \in {"disposition", "stamp"} => work.version = ""
    /\ pc \in {"disposition", "stamp", "commit", "tx"} => RunIDColumns \subseteq work.columns
    /\ pc \in {"stamp", "commit", "tx"} => work.counts = LegacyCounts(work)
    /\ pc \in {"commit", "tx"} => work.version = "2"

\* A process past the migration relies on what the file keeps from then on.
PastMigration(p) ==
    /\ At(p, "alter") =>
          /\ proc[p].next \in 1 .. Len(AlterTable)
          /\ file.version = "2"
          /\ \A i \in 1 .. Len(AlterTable) : i < proc[p].next => AlterTable[i] \in file.columns
    /\ Serves(p) => file.version = "2" /\ file.columns = Columns

Process ==
    [pc : {"down", "serving", "tx", "upsert"} \cup Opening, next : Nat,
     call : StoreCall \cup {None}, result : {"none", "ok", "refused", "failed"}]

\* A process has a call exactly while it makes one, and the lock exactly in a transaction.
ProcessOK(p) ==
    /\ IF proc[p].pc \in {"tx", "upsert"} THEN proc[p].call \in StoreCall ELSE proc[p].call = None
    /\ At(p, "tx") => proc[p].next > 0 /\ proc[p].call.op # "upsertLifecycle"
    /\ At(p, "upsert") => proc[p].call.op = "upsertLifecycle"
    /\ lock = p <=> proc[p].pc \in InTransaction
    /\ PastMigration(p)

\* The transaction's copy.
WorkOK == Readable(work) /\ Kept(file, work) /\ AtStatement(proc[lock].pc)

\* The inductive invariant.
DatabaseInv ==
    /\ Readable(file)
    /\ StampedMeansMigrated
    /\ lock \in Processes \cup {None}
    /\ proc \in [Processes -> Process]
    /\ \A p \in Processes : ProcessOK(p)
    /\ (work = None) <=> (lock = None)
    /\ lock # None => WorkOK

-----------------------------------------------------------------------------
(* Keys.                                                                    *)

\* The empty string is blank, so it is no RunID.
LEMMA EmptyIsBlank == IsBlank(<<>>)
  BY DEF IsBlank

\* An identity's key is a key of the table, of no other identity and of no row of before
\* RunIDs, and its RunID is not empty.
LEMMA KeysOfRuns ==
    ASSUME NEW k \in ArtifactKey
    PROVE  /\ KeyString[k] \in ArtifactRows
           /\ KeyString[k] \notin LegacyArtifactKeys
           /\ k.run \in Runs /\ k.run # <<>>
           /\ \A k2 \in ArtifactKey : KeyString[k] = KeyString[k2] => k = k2
  <1>1. /\ k.run \in String /\ k.attempt[1] \in String /\ k.attempt[2] \in String
        /\ k.output \in String /\ k.run \in Runs
    BY MigrationAssumption, Zenon DEF ArtifactKey
  <1>2. ValidateArtifactKey(k.run, k.attempt[1], k.attempt[2], k.output)
    BY MigrationAssumption, Zenon
  <1>3. KeyString[k] \in ArtifactRows
    BY DEF ArtifactRows, Range, KeyString
  <1>4. k.run # <<>>
    BY <1>2, EmptyIsBlank DEF ValidateArtifactKey
  <1>5. ASSUME NEW k2 \in ArtifactKey, KeyString[k] = KeyString[k2]
        PROVE  k = k2
    <2>1. /\ k2.run \in String /\ k2.attempt[1] \in String /\ k2.attempt[2] \in String
          /\ k2.output \in String
      BY MigrationAssumption, Zenon DEF ArtifactKey
    <2>2. ArtifactKeyString(k.run, k.attempt[1], k.attempt[2], k.output)
             = ArtifactKeyString(k2.run, k2.attempt[1], k2.attempt[2], k2.output)
      BY <1>5 DEF KeyString
    <2> DEFINE r == k.run   m == k.attempt[1]   a == k.attempt[2]   o == k.output
               r2 == k2.run   m2 == k2.attempt[1]   a2 == k2.attempt[2]   o2 == k2.output
    <2> HIDE DEF r, m, a, o, r2, m2, a2, o2
    <2>3. /\ r \in String /\ m \in String /\ a \in String /\ o \in String
          /\ r2 \in String /\ m2 \in String /\ a2 \in String /\ o2 \in String
          /\ ValidateArtifactKey(r, m, a, o)
          /\ ArtifactKeyString(r, m, a, o) = ArtifactKeyString(r2, m2, a2, o2)
      BY <1>1, <1>2, <2>1, <2>2 DEF r, m, a, o, r2, m2, a2, o2
    <2>4. r = r2 /\ m = m2 /\ a = a2 /\ o = o2
      BY ONLY <2>3, ArtifactKeyExact
    <2>5. /\ k.run = k2.run /\ k.attempt[1] = k2.attempt[1] /\ k.attempt[2] = k2.attempt[2]
          /\ k.output = k2.output
      BY <2>4 DEF r, m, a, o, r2, m2, a2, o2
    <2>6. k.attempt \in String \X String /\ k2.attempt \in String \X String
      BY MigrationAssumption, Zenon DEF ArtifactKey
    <2>7. k.attempt = k2.attempt
      BY <2>5, <2>6
    <2> QED
      BY <2>5, <2>7 DEF ArtifactKey
  <1>6. KeyString[k] \notin LegacyArtifactKeys
    <2> SUFFICES ASSUME NEW s \in SampleRunIDs, NEW a \in Attempts, NEW o \in Outputs,
                        KeyString[k] = LegacyArtifactKeyString(s, a[1], a[2], o)
                 PROVE  FALSE
      BY DEF LegacyArtifactKeys
    <2> DEFINE j == [run |-> k.run, attempt |-> a, output |-> o]
    <2>1. j \in ArtifactKey
      BY DEF ArtifactKey
    <2>2. ValidateArtifactKey(j.run, j.attempt[1], j.attempt[2], j.output)
      BY <2>1, MigrationAssumption, Zenon
    <2>3. /\ s \in String /\ a[1] \in String /\ a[2] \in String /\ o \in String
          /\ ~HasSep(s) /\ ~HasSep(a[1]) /\ ~HasSep(a[2]) /\ ~HasSep(o)
      BY <2>2, MigrationAssumption, Zenon DEF ValidateArtifactKey
    <2>4. ArtifactKeyString(k.run, k.attempt[1], k.attempt[2], k.output)
             # LegacyArtifactKeyString(s, a[1], a[2], o)
      BY ONLY <1>1, <2>3, LegacyArtifactKeyDisjoint, Zenon
    <2> QED
      BY <2>4 DEF KeyString
  <1> QED
    BY <1>1, <1>3, <1>4, <1>5, <1>6

\* The same of a node attempt.
LEMMA AttemptsOfRuns ==
    ASSUME NEW n \in NodeAttemptKey
    PROVE  /\ AttemptString[n] \in TerminalRows
           /\ AttemptString[n] \notin LegacyAttemptKeys
           /\ n.run \in Runs /\ n.run # <<>>
           /\ \A n2 \in NodeAttemptKey : AttemptString[n] = AttemptString[n2] => n = n2
  <1>1. /\ n.run \in String /\ n.attempt[1] \in String /\ n.attempt[2] \in String
        /\ n.run \in Runs
    BY MigrationAssumption, Zenon DEF NodeAttemptKey
  <1>2. ValidateNodeAttemptKey(n.run, n.attempt[1], n.attempt[2])
    BY MigrationAssumption, Zenon
  <1>3. AttemptString[n] \in TerminalRows
    BY DEF TerminalRows, Range, AttemptString
  <1>4. n.run # <<>>
    BY <1>2, EmptyIsBlank DEF ValidateNodeAttemptKey
  <1>5. ASSUME NEW n2 \in NodeAttemptKey, AttemptString[n] = AttemptString[n2]
        PROVE  n = n2
    <2>1. n2.run \in String /\ n2.attempt[1] \in String /\ n2.attempt[2] \in String
      BY MigrationAssumption, Zenon DEF NodeAttemptKey
    <2>2. NodeAttemptKeyString(n.run, n.attempt[1], n.attempt[2])
             = NodeAttemptKeyString(n2.run, n2.attempt[1], n2.attempt[2])
      BY <1>5 DEF AttemptString
    <2>3. n.run = n2.run /\ n.attempt[1] = n2.attempt[1] /\ n.attempt[2] = n2.attempt[2]
      BY ONLY <1>1, <1>2, <2>1, <2>2, NodeAttemptKeyExact
    <2>4. n.attempt \in String \X String /\ n2.attempt \in String \X String
      BY MigrationAssumption, Zenon DEF NodeAttemptKey
    <2>5. n.attempt = n2.attempt
      BY <2>3, <2>4
    <2> QED
      BY <2>3, <2>5 DEF NodeAttemptKey
  <1>6. AttemptString[n] \notin LegacyAttemptKeys
    <2> SUFFICES ASSUME NEW s \in SampleRunIDs, NEW a \in Attempts,
                        AttemptString[n] = LegacyNodeAttemptKeyString(s, a[1], a[2])
                 PROVE  FALSE
      BY DEF LegacyAttemptKeys
    <2> DEFINE j == [run |-> n.run, attempt |-> a]
    <2>1. j \in NodeAttemptKey
      BY DEF NodeAttemptKey
    <2>2. ValidateNodeAttemptKey(j.run, j.attempt[1], j.attempt[2])
      BY <2>1, MigrationAssumption, Zenon
    <2>3. /\ s \in String /\ a[1] \in String /\ a[2] \in String
          /\ ~HasSep(s) /\ ~HasSep(a[1]) /\ ~HasSep(a[2])
      BY <2>2, MigrationAssumption, Zenon DEF ValidateNodeAttemptKey
    <2>4. NodeAttemptKeyString(n.run, n.attempt[1], n.attempt[2])
             # LegacyNodeAttemptKeyString(s, a[1], a[2])
      BY ONLY <1>1, <2>3, LegacyNodeAttemptKeyDisjoint, Zenon
    <2> QED
      BY <2>4 DEF AttemptString
  <1> QED
    BY <1>1, <1>3, <1>4, <1>5, <1>6

-----------------------------------------------------------------------------
(* Statements.                                                              *)

\* The fields of a database.
LEMMA Fields ==
    ASSUME NEW db \in Database
    PROVE  /\ db.tables \subseteq Tables /\ db.columns \subseteq Columns /\ db.version \in Version
           /\ db.counts \in Counts \cup {None} /\ db.sampleLifecycles \subseteq SampleRunIDs
           /\ db.artifacts \in [ArtifactRows -> StoredArtifact \cup {None}]
           /\ db.sources \in [SourceIDs -> StoredSource \cup {None}]
           /\ db.terminals \in [TerminalRows -> StoredTerminal \cup {None}]
           /\ db.lifecycles \in [Runs -> LifecycleRows \cup {None}]
  BY DEF Database

\* A legacy row is a stored row.
LEMMA LegacyKeysAre ==
    ASSUME NEW db \in Database
    PROVE  /\ \A key : key \in LegacyKeys(db.artifacts) <=>
                  key \in ArtifactRows /\ db.artifacts[key] # None /\ db.artifacts[key].run_id = <<>>
           /\ \A key : key \in LegacyKeys(db.terminals) <=>
                  key \in TerminalRows /\ db.terminals[key] # None /\ db.terminals[key].run_id = <<>>
  BY Fields DEF LegacyKeys, Legacy

\* A transaction's copy keeps what it starts from.
LEMMA KeptAtFirst ==
    ASSUME NEW db \in Database
    PROVE  Kept(db, db)
  BY DEF Kept

\* What each of two statements keeps, both keep.
LEMMA KeptByBoth ==
    ASSUME NEW a \in Database, NEW b \in Database, NEW c \in Database, Kept(a, b), Kept(b, c)
    PROVE  Kept(a, c)
  <1>1. ASSUME NEW id \in SourceIDs, a.sources[id] # None,
               \A k \in ArtifactKey : KeyString[k] # a.sources[id].artifact_id
        PROVE  c.sources[id] = a.sources[id]
    <2>1. b.sources[id] = a.sources[id]
      BY <1>1 DEF Kept
    <2> QED
      BY <1>1, <2>1 DEF Kept
  <1>2. /\ a.tables \subseteq c.tables /\ a.columns \subseteq c.columns
        /\ a.version = "2" => c.version = "2"
        /\ c.sampleLifecycles = a.sampleLifecycles
        /\ a.counts # None => c.counts = a.counts
    BY DEF Kept
  <1>3. /\ LegacyKeys(c.artifacts) = LegacyKeys(a.artifacts)
        /\ LegacyKeys(c.terminals) = LegacyKeys(a.terminals)
        /\ \A key \in LegacyKeys(a.artifacts) : c.artifacts[key] = a.artifacts[key]
        /\ \A key \in LegacyKeys(a.terminals) : c.terminals[key] = a.terminals[key]
    BY DEF Kept
  <1> QED
    BY <1>1, <1>2, <1>3 DEF Kept

\* Where the legacy rows are kept, so is their number.
LEMMA KeptCounts ==
    ASSUME NEW old \in Database, NEW new \in Database, Kept(old, new)
    PROVE  LegacyCounts(new) = LegacyCounts(old)
  BY DEF Kept, LegacyCounts

\* The counts are of rows of the tables.
LEMMA CountsType ==
    ASSUME NEW db \in Database
    PROVE  LegacyCounts(db) \in Counts
  <1>1. LegacyKeys(db.artifacts) \subseteq ArtifactRows /\ LegacyKeys(db.terminals) \subseteq TerminalRows
    BY LegacyKeysAre
  <1>2. db.sampleLifecycles \subseteq SampleRunIDs
    BY Fields
  <1> QED
    BY <1>1, <1>2 DEF LegacyCounts, Counts, SomeOf

\* A statement on the schema, the version or the record of the counts keeps every row.
LEMMA SchemaStatement ==
    ASSUME NEW db \in Database, NEW new \in Database,
           new.artifacts = db.artifacts, new.sources = db.sources, new.terminals = db.terminals,
           new.sampleLifecycles = db.sampleLifecycles,
           db.tables \subseteq new.tables, db.columns \subseteq new.columns,
           db.version = "2" => new.version = "2",
           db.counts # None => new.counts = db.counts
    PROVE  Kept(db, new) /\ (OfOneKind(db) => OfOneKind(new))
  BY DEF Kept, OfOneKind

\* A statement of a call leaves the schema as it is.
SameSchema(old, new) ==
    /\ new.tables = old.tables
    /\ new.columns = old.columns
    /\ new.version = old.version
    /\ new.counts = old.counts

\* The row of an identity, if there is one, has its RunID.
LEMMA RowOfRun ==
    ASSUME NEW db \in Database, OfOneKind(db), NEW k \in ArtifactKey,
           db.artifacts[KeyString[k]] # None
    PROVE  /\ db.artifacts[KeyString[k]].run_id = k.run
           /\ db.artifacts[KeyString[k]].artifact_id = KeyString[k]
  <1>1. PICK k2 \in ArtifactKey : /\ KeyString[k] = KeyString[k2]
                                  /\ db.artifacts[KeyString[k]].run_id = k2.run
                                  /\ db.artifacts[KeyString[k]].artifact_id = KeyString[k]
    BY KeysOfRuns DEF OfOneKind
  <1> QED
    BY <1>1, KeysOfRuns

\* PutArtifact's INSERT writes the row of its Run and no other.
LEMMA PutArtifactStatement ==
    ASSUME NEW db \in Database, OfOneKind(db), NEW k \in ArtifactKey, NEW a \in Offers
    PROVE  LET key == KeyString[k]
               old == db.artifacts[key]
               new == [db EXCEPT !.artifacts[key] =
                          [run_id |-> IF old = None THEN k.run ELSE old.run_id,
                           artifact_id |-> key, art |-> a]]
           IN  new \in Database /\ OfOneKind(new) /\ Kept(db, new) /\ SameSchema(db, new)
  <1> DEFINE key == KeyString[k]
             old == db.artifacts[key]
             row == [run_id |-> IF old = None THEN k.run ELSE old.run_id,
                     artifact_id |-> key, art |-> a]
             new == [db EXCEPT !.artifacts[key] = row]
  <1>1. /\ row.run_id = k.run /\ row.artifact_id = key /\ row \in StoredArtifact
        /\ key \in ArtifactRows
    BY RowOfRun, KeysOfRuns, SQLiteStoreAssumption DEF StoredArtifact
  <1> HIDE DEF row
  <1>2. new \in Database
    BY <1>1, Fields DEF Database
  <1>3. /\ new.artifacts = [db.artifacts EXCEPT ![key] = row]
        /\ new.sources = db.sources /\ new.terminals = db.terminals
        /\ new.sampleLifecycles = db.sampleLifecycles
        /\ SameSchema(db, new)
    BY Fields DEF Database, SameSchema
  <1> HIDE DEF new
  <1>4. OfOneKind(new)
    <2>1. ASSUME NEW j \in ArtifactRows
          PROVE  \/ new.artifacts[j] = None
                 \/ Legacy(new.artifacts[j]) /\ j \in LegacyArtifactKeys
                 \/ \E i \in ArtifactKey : /\ j = KeyString[i]
                                           /\ new.artifacts[j].run_id = i.run
                                           /\ new.artifacts[j].artifact_id = j
      <3>1. CASE j = key
        BY <1>1, <1>3, <3>1, Fields
      <3>2. CASE j # key
        <4>1. new.artifacts[j] = db.artifacts[j]
          BY <1>3, <3>2, Fields
        <4> QED
          BY <4>1 DEF OfOneKind
      <3> QED
        BY <3>1, <3>2
    <2> QED
      BY <1>3, <2>1 DEF OfOneKind
  <1>5. ~Legacy(old) /\ ~Legacy(row)
    BY <1>1, RowOfRun, KeysOfRuns DEF Legacy
  <1>6. /\ LegacyKeys(new.artifacts) = LegacyKeys(db.artifacts)
        /\ \A j \in LegacyKeys(db.artifacts) : new.artifacts[j] = db.artifacts[j]
    <2>1. DOMAIN db.artifacts = ArtifactRows /\ DOMAIN new.artifacts = ArtifactRows
      BY <1>2, Fields
    <2>2. \A j \in ArtifactRows : new.artifacts[j] = IF j = key THEN row ELSE db.artifacts[j]
      BY <1>3, Fields
    <2> QED
      BY <1>5, <2>1, <2>2 DEF LegacyKeys
  <1>7. Kept(db, new)
    BY <1>3, <1>6 DEF Kept, SameSchema
  <1> QED
    BY <1>2, <1>3, <1>4, <1>7 DEF new, row

\* The row of a node attempt, if there is one that is not legacy, has its RunID.
LEMMA TerminalOfRun ==
    ASSUME NEW db \in Database, OfOneKind(db), NEW n \in NodeAttemptKey,
           db.terminals[AttemptString[n]] # None, ~Legacy(db.terminals[AttemptString[n]])
    PROVE  db.terminals[AttemptString[n]].run_id = n.run
  <1>1. PICK n2 \in NodeAttemptKey : /\ AttemptString[n] = AttemptString[n2]
                                     /\ db.terminals[AttemptString[n]].run_id = n2.run
    BY AttemptsOfRuns DEF OfOneKind
  <1> QED
    BY <1>1, AttemptsOfRuns

\* RecordNodeTerminal's INSERT writes a row where there was none.
LEMMA RecordTerminalStatement ==
    ASSUME NEW db \in Database, OfOneKind(db), NEW n \in NodeAttemptKey, NEW s \in ReportedStates,
           db.terminals[AttemptString[n]] = None
    PROVE  LET new == [db EXCEPT !.terminals[AttemptString[n]] = [run_id |-> n.run, state |-> s]]
           IN  new \in Database /\ OfOneKind(new) /\ Kept(db, new) /\ SameSchema(db, new)
  <1> DEFINE key == AttemptString[n]
             row == [run_id |-> n.run, state |-> s]
             new == [db EXCEPT !.terminals[key] = row]
  <1>1. row.run_id = n.run /\ row \in StoredTerminal /\ key \in TerminalRows
    BY AttemptsOfRuns, SQLiteStoreAssumption DEF StoredTerminal
  <1> HIDE DEF row
  <1>2. new \in Database
    BY <1>1, Fields DEF Database
  <1>3. /\ new.terminals = [db.terminals EXCEPT ![key] = row]
        /\ new.sources = db.sources /\ new.artifacts = db.artifacts
        /\ new.sampleLifecycles = db.sampleLifecycles
        /\ SameSchema(db, new)
    BY Fields DEF Database, SameSchema
  <1> HIDE DEF new
  <1>4. /\ DOMAIN db.terminals = TerminalRows /\ DOMAIN new.terminals = TerminalRows
        /\ \A j \in TerminalRows : new.terminals[j] = IF j = key THEN row ELSE db.terminals[j]
    BY <1>2, <1>3, Fields
  <1>5. OfOneKind(new)
    <2>1. ASSUME NEW j \in TerminalRows
          PROVE  \/ new.terminals[j] = None
                 \/ Legacy(new.terminals[j]) /\ j \in LegacyAttemptKeys
                 \/ \E i \in NodeAttemptKey : j = AttemptString[i] /\ new.terminals[j].run_id = i.run
      <3>1. CASE j = key
        BY <1>1, <1>4, <3>1
      <3>2. CASE j # key
        <4>1. new.terminals[j] = db.terminals[j]
          BY <1>4, <3>2
        <4> QED
          BY <4>1 DEF OfOneKind
      <3> QED
        BY <3>1, <3>2
    <2> QED
      BY <1>3, <2>1 DEF OfOneKind
  <1>6. ~Legacy(db.terminals[key]) /\ ~Legacy(row)
    BY <1>1, AttemptsOfRuns DEF Legacy
  <1>7. /\ LegacyKeys(new.terminals) = LegacyKeys(db.terminals)
        /\ \A j \in LegacyKeys(db.terminals) : new.terminals[j] = db.terminals[j]
    BY <1>4, <1>6 DEF LegacyKeys
  <1>8. Kept(db, new)
    BY <1>3, <1>7 DEF Kept, SameSchema
  <1> QED
    BY <1>2, <1>3, <1>5, <1>8 DEF new, row

\* A statement on one source that is new, or whose artifact is a Run's, keeps the legacy ones.
LEMMA SourceStatement ==
    ASSUME NEW db \in Database, OfOneKind(db), NEW new \in Database, NEW id \in SourceIDs,
           db.sources[id] = None \/ \E k \in ArtifactKey : db.sources[id].artifact_id = KeyString[k],
           \A j \in SourceIDs : j # id => new.sources[j] = db.sources[j],
           new.artifacts = db.artifacts, new.terminals = db.terminals,
           new.sampleLifecycles = db.sampleLifecycles, SameSchema(db, new)
    PROVE  OfOneKind(new) /\ Kept(db, new)
  BY DEF OfOneKind, Kept, SameSchema

\* PutArtifactSources' INSERT of a source with a new ID.
LEMMA InsertSourceStatement ==
    ASSUME NEW db \in Database, OfOneKind(db), NEW id \in SourceIDs, NEW src \in Source,
           db.sources[id] = None
    PROVE  LET new == [db EXCEPT !.sources[id] = SourceRow(src)]
           IN  new \in Database /\ OfOneKind(new) /\ Kept(db, new) /\ SameSchema(db, new)
  <1> DEFINE row == SourceRow(src)
             new == [db EXCEPT !.sources[id] = row]
  <1>1. row \in StoredSource
    BY KeysOfRuns DEF SourceRow, StoredSource, Source
  <1> HIDE DEF row
  <1>2. new \in Database
    BY <1>1, Fields DEF Database
  <1>3. /\ \A j \in SourceIDs : j # id => new.sources[j] = db.sources[j]
        /\ new.artifacts = db.artifacts /\ new.terminals = db.terminals
        /\ new.sampleLifecycles = db.sampleLifecycles /\ SameSchema(db, new)
    BY Fields DEF Database, SameSchema
  <1> HIDE DEF new
  <1> QED
    BY <1>2, <1>3, SourceStatement, Zenon DEF new, row

\* Its DO UPDATE of a source whose artifact is the caller's.
LEMMA UpdateSourceStatement ==
    ASSUME NEW db \in Database, OfOneKind(db), NEW id \in SourceIDs, NEW src \in Source,
           db.sources[id] # None, db.sources[id].artifact_id = KeyString[src.owner]
    PROVE  LET new == [db EXCEPT !.sources[id].state = src.state, !.sources[id].loc = src.loc]
           IN  new \in Database /\ OfOneKind(new) /\ Kept(db, new) /\ SameSchema(db, new)
  <1> DEFINE old == db.sources[id]
             row == [[old EXCEPT !.state = src.state] EXCEPT !.loc = src.loc]
             new == [db EXCEPT !.sources[id].state = src.state, !.sources[id].loc = src.loc]
  <1>1. old \in StoredSource /\ src.state \in SourceState /\ src.loc \in Location
        /\ src.owner \in ArtifactKey
    BY Fields DEF Source
  <1>2. row \in StoredSource
    BY <1>1, Zenon DEF StoredSource
  <1>3. new.sources = [db.sources EXCEPT ![id] = row]
    BY Fields, Zenon DEF Database
  <1>4. /\ new.artifacts = db.artifacts /\ new.terminals = db.terminals
        /\ new.sampleLifecycles = db.sampleLifecycles /\ SameSchema(db, new)
    BY Fields DEF Database, SameSchema
  <1> HIDE DEF row
  <1>5. new \in Database
    <2>1. new.sources \in [SourceIDs -> StoredSource \cup {None}]
      BY <1>2, <1>3, Fields
    <2>2. new = [db EXCEPT !.sources = new.sources]
      BY Fields, Zenon DEF Database
    <2> HIDE DEF new
    <2> QED
      BY <2>1, <2>2, Fields DEF Database
  <1>6. \A j \in SourceIDs : j # id => new.sources[j] = db.sources[j]
    BY <1>3, Fields
  <1> HIDE DEF new
  <1> QED
    BY <1>1, <1>4, <1>5, <1>6, SourceStatement, Zenon DEF new

\* UpsertRunLifecycle replaces one row of run_lifecycles.
LEMMA UpsertStatement ==
    ASSUME NEW db \in Database, OfOneKind(db), NEW r \in Runs, NEW row \in LifecycleRows
    PROVE  LET new == [db EXCEPT !.lifecycles[r] = row]
           IN  new \in Database /\ OfOneKind(new) /\ Kept(db, new) /\ SameSchema(db, new)
  <1> DEFINE new == [db EXCEPT !.lifecycles[r] = row]
  <1>1. new \in Database
    BY Fields DEF Database
  <1>2. /\ new.artifacts = db.artifacts /\ new.sources = db.sources /\ new.terminals = db.terminals
        /\ new.sampleLifecycles = db.sampleLifecycles /\ SameSchema(db, new)
    BY Fields DEF Database, SameSchema
  <1> HIDE DEF new
  <1>3. OfOneKind(new) /\ Kept(db, new)
    BY <1>1, <1>2, SchemaStatement DEF SameSchema
  <1> QED
    BY <1>1, <1>2, <1>3 DEF new

\* The columns the ALTER TABLE statements add.
LEMMA AlterColumns ==
    /\ Len(AlterTable) = 4
    /\ Range(AlterTable) = {AlterTable[i] : i \in 1 .. Len(AlterTable)}
  BY DEF AlterTable, Range

-----------------------------------------------------------------------------
(* Processes.                                                               *)

ProcStep(p) ==
    /\ proc' \in [Processes -> Process]
    /\ \A q \in Processes : q # p => proc'[q] = proc[q]

\* A process that moves on keeps its call and its place in it.
LEMMA GotoStep ==
    ASSUME proc \in [Processes -> Process], NEW p \in Processes,
           NEW pc \in {"down", "serving", "tx", "upsert"} \cup Opening, Goto(p, pc)
    PROVE  /\ ProcStep(p)
           /\ proc'[p].pc = pc /\ proc'[p].next = proc[p].next
           /\ proc'[p].call = proc[p].call /\ proc'[p].result = proc[p].result
  BY DEF Goto, ProcStep, Process

\* A process that goes down forgets its call.
LEMMA DownStep ==
    ASSUME proc \in [Processes -> Process], NEW p \in Processes, proc' = [proc EXCEPT ![p] = Down]
    PROVE  ProcStep(p) /\ proc'[p].pc = "down" /\ proc'[p].call = None /\ proc'[p].result = "none"
  <1>1. Down \in Process /\ Down.pc = "down" /\ Down.call = None /\ Down.result = "none"
    BY DEF Down, Process
  <1> QED
    BY <1>1 DEF ProcStep

\* A process that ends its call serves on, and knows the result.
LEMMA EndCallStep ==
    ASSUME proc \in [Processes -> Process], NEW p \in Processes,
           NEW res \in {"ok", "refused", "failed"}, EndCall(p, res)
    PROVE  ProcStep(p) /\ proc'[p].pc = "serving" /\ proc'[p].call = None /\ proc'[p].result = res
  <1> DEFINE now == [pc |-> "serving", next |-> 0, call |-> None, result |-> res]
  <1>1. proc'[p] = now
    BY Zenon DEF EndCall, Process
  <1>2. now \in Process /\ now.pc = "serving" /\ now.call = None /\ now.result = res
    BY DEF Process
  <1>3. proc' = [proc EXCEPT ![p] = proc'[p]]
    BY Zenon DEF EndCall
  <1> HIDE DEF now
  <1> QED
    BY <1>1, <1>2, <1>3 DEF ProcStep

\* A process that begins a call in a transaction is at its first statement.
LEMMA InTxStep ==
    ASSUME proc \in [Processes -> Process], NEW p \in Processes, NEW c \in StoreCall,
           proc' = [proc EXCEPT ![p].pc = "tx", ![p].next = 1, ![p].call = c, ![p].result = "none"]
    PROVE  /\ ProcStep(p)
           /\ proc'[p].pc = "tx" /\ proc'[p].next = 1 /\ proc'[p].call = c /\ proc'[p].result = "none"
  <1> DEFINE now == [pc |-> "tx", next |-> 1, call |-> c, result |-> "none"]
  <1>1. proc'[p] = now
    BY ZenonT(30) DEF Process
  <1>2. /\ now \in Process
        /\ now.pc = "tx" /\ now.next = 1 /\ now.call = c /\ now.result = "none"
    BY DEF Process
  <1>3. proc' = [proc EXCEPT ![p] = proc'[p]]
    BY Zenon
  <1> HIDE DEF now
  <1> QED
    BY <1>1, <1>2, <1>3 DEF ProcStep

\* A process that begins an upsert of a lifecycle waits for its one statement.
LEMMA InUpsertStep ==
    ASSUME proc \in [Processes -> Process], NEW p \in Processes, NEW c \in StoreCall,
           proc' = [proc EXCEPT ![p].pc = "upsert", ![p].call = c, ![p].result = "none"]
    PROVE  ProcStep(p) /\ proc'[p].pc = "upsert" /\ proc'[p].call = c /\ proc'[p].result = "none"
  <1> DEFINE now == [pc |-> "upsert", next |-> proc[p].next, call |-> c, result |-> "none"]
  <1>1. proc'[p] = now
    BY Zenon DEF Process
  <1>2. now \in Process /\ now.pc = "upsert" /\ now.call = c /\ now.result = "none"
    BY DEF Process
  <1>3. proc' = [proc EXCEPT ![p] = proc'[p]]
    BY Zenon
  <1> HIDE DEF now
  <1> QED
    BY <1>1, <1>2, <1>3 DEF ProcStep

\* A process that goes on to its next statement stays in its call.
LEMMA NextStatementStep ==
    ASSUME proc \in [Processes -> Process], NEW p \in Processes, NextStatement(p)
    PROVE  /\ ProcStep(p)
           /\ proc'[p].pc = proc[p].pc /\ proc'[p].next = proc[p].next + 1
           /\ proc'[p].call = proc[p].call /\ proc'[p].result = proc[p].result
  BY DEF NextStatement, ProcStep, Process

\* A step of p that keeps what the file has leaves the other processes where they may be.
LEMMA OthersUndisturbed ==
    ASSUME DatabaseInv, NEW p \in Processes, ProcStep(p), file' \in Database, Kept(file, file'),
           \A q \in Processes : q # p => (lock' = q <=> lock = q)
    PROVE  \A q \in Processes : q # p => ProcessOK(q)'
  <1> SUFFICES ASSUME NEW q \in Processes, q # p
               PROVE  ProcessOK(q)'
    OBVIOUS
  <1>1. /\ proc'[q] = proc[q] /\ (lock' = q <=> lock = q) /\ ProcessOK(q)
    BY DEF ProcStep, DatabaseInv
  <1>2. /\ file.version = "2" => file'.version = "2"
        /\ file.columns \subseteq file'.columns /\ file'.columns \subseteq Columns
    BY Fields, Zenon DEF Kept
  <1>3. PastMigration(q)'
    BY <1>1, <1>2, Zenon DEF PastMigration, ProcessOK, At, Serves
  <1> QED
    BY <1>1, <1>3 DEF ProcessOK, At

\* What a step of p must show.
LEMMA StepKeepsInv ==
    ASSUME DatabaseInv, NEW p \in Processes, ProcStep(p),
           \A q \in Processes : q # p => (lock' = q <=> lock = q),
           lock' \in Processes \cup {None},
           Readable(file'), Kept(file, file'), StampedMeansMigrated',
           ProcessOK(p)',
           (work' = None) <=> (lock' = None),
           lock' # None => WorkOK'
    PROVE  DatabaseInv'
  <1>1. \A q \in Processes : q # p => ProcessOK(q)'
    BY OthersUndisturbed, Zenon DEF Readable
  <1> QED
    BY <1>1 DEF DatabaseInv, ProcStep

\* A step of p that does not change the file.
LEMMA PrivateStepKeepsInv ==
    ASSUME DatabaseInv, NEW p \in Processes, ProcStep(p), UNCHANGED file,
           \A q \in Processes : q # p => (lock' = q <=> lock = q),
           lock' \in Processes \cup {None},
           ProcessOK(p)',
           (work' = None) <=> (lock' = None),
           lock' # None => WorkOK'
    PROVE  DatabaseInv'
  <1>1. Readable(file') /\ StampedMeansMigrated'
    BY Zenon DEF DatabaseInv, StampedMeansMigrated
  <1>2. Kept(file, file')
    BY KeptAtFirst, Zenon DEF DatabaseInv, Readable
  <1> QED
    BY <1>1, <1>2, StepKeepsInv

\* A step of a process without a transaction leaves the transaction of another one alone.
LEMMA BystanderKeepsInv ==
    ASSUME DatabaseInv, NEW p \in Processes, ProcStep(p), UNCHANGED <<file, lock, work>>,
           lock # p, ProcessOK(p)'
    PROVE  DatabaseInv'
  <1>1. ASSUME lock' # None
        PROVE  WorkOK'
    <2>1. lock \in Processes /\ lock # p /\ WorkOK
      BY <1>1 DEF DatabaseInv
    <2>2. proc'[lock'].pc = proc[lock].pc
      BY <2>1 DEF ProcStep
    <2> QED
      BY <2>1, <2>2, Zenon DEF WorkOK, AtStatement
  <1> QED
    BY <1>1, PrivateStepKeepsInv DEF DatabaseInv

\* Rolling back p's transaction, or none, on p's way to a state without one.
LEMMA RollbackKeepsInv ==
    ASSUME DatabaseInv, NEW p \in Processes, ProcStep(p), Rollback(p), ProcessOK(p)'
    PROVE  DatabaseInv'
  <1>1. CASE lock = p
    <2>1. lock' = None /\ work' = None /\ UNCHANGED file
      BY <1>1 DEF Rollback
    <2>2. \A q \in Processes : q # p => (lock' = q <=> lock = q)
      BY <1>1, <2>1, SQLiteStoreAssumption
    <2> QED
      BY <2>1, <2>2, PrivateStepKeepsInv
  <1>2. CASE lock # p
    BY <1>2, BystanderKeepsInv DEF Rollback
  <1> QED
    BY <1>1, <1>2

-----------------------------------------------------------------------------
(* sqliteMigrate.                                                           *)

\* The owner of the transaction runs a statement.
LEMMA ExecKeepsInv ==
    ASSUME DatabaseInv, NEW p \in Processes, ProcStep(p), lock = p, UNCHANGED <<file, lock>>,
           work' \in Database, Kept(work, work'), OfOneKind(work) => OfOneKind(work'),
           work'.version \in {"", "2"} => work.version \in {"", "2"},
           ProcessOK(p)', AtStatement(proc[p].pc)'
    PROVE  DatabaseInv'
  <1>1. lock # None /\ WorkOK /\ file \in Database /\ work \in Database
    BY SQLiteStoreAssumption, Zenon DEF DatabaseInv, WorkOK, Readable
  <1>2. Kept(file, work')
    BY <1>1, KeptByBoth, Zenon DEF WorkOK
  <1>3. Readable(work')
    BY <1>1, ZenonT(30) DEF WorkOK, Readable
  <1>4. work' # None
    BY SQLiteStoreAssumption, Zenon
  <1>5. WorkOK'
    BY <1>2, <1>3, ZenonT(30) DEF WorkOK
  <1> QED
    BY <1>1, <1>4, <1>5, PrivateStepKeepsInv, ZenonT(30) DEF DatabaseInv

\* A process at a statement of its migration has the transaction and no call.
LEMMA Migrating ==
    ASSUME DatabaseInv, NEW p \in Processes, lock = p
    PROVE  /\ WorkOK /\ work \in Database /\ file \in Database /\ AtStatement(proc[p].pc)
           /\ Kept(file, work) /\ proc[p].pc \in InTransaction
           /\ work.version \in {"", "2"} => OfOneKind(work)
           /\ LegacyCounts(work) = LegacyCounts(file)
  <1>1. lock # None /\ WorkOK /\ file \in Database /\ work \in Database
    BY SQLiteStoreAssumption, Zenon DEF DatabaseInv, WorkOK, Readable
  <1>2. LegacyCounts(work) = LegacyCounts(file)
    BY <1>1, KeptCounts DEF WorkOK
  <1> QED
    BY <1>1, <1>2, Zenon DEF WorkOK, Readable, DatabaseInv, ProcessOK

\* OpenStore keeps the invariant: nothing but the process's place changes.
LEMMA OpenStoreStep ==
    ASSUME DatabaseInv, NEW p \in Processes, OpenStore(p)
    PROVE  DatabaseInv'
  <1>1. proc \in [Processes -> Process] /\ ProcessOK(p) /\ proc[p].pc = "down" /\ Goto(p, "begin")
    BY DEF DatabaseInv, OpenStore, At
  <1>2. ProcStep(p) /\ proc'[p].pc = "begin" /\ proc'[p].call = proc[p].call
    BY <1>1, GotoStep DEF Opening
  <1>3. lock # p
    BY <1>1 DEF ProcessOK, InTransaction, Opening
  <1>4. ProcessOK(p)'
    BY <1>1, <1>2, <1>3 DEF ProcessOK, InTransaction, Opening, OpenStore, PastMigration, At, Serves
  <1> QED
    BY <1>2, <1>3, <1>4, BystanderKeepsInv DEF OpenStore

\* BEGIN IMMEDIATE takes the free lock and copies the file.
LEMMA BeginMigrationStep ==
    ASSUME DatabaseInv, NEW p \in Processes, BeginMigration(p)
    PROVE  DatabaseInv'
  <1>1. /\ proc \in [Processes -> Process] /\ ProcessOK(p) /\ proc[p].pc = "begin"
        /\ lock = None /\ lock' = p /\ work' = file /\ UNCHANGED file /\ Goto(p, "createTables")
        /\ Readable(file)
    BY DEF DatabaseInv, BeginMigration, Begin, At
  <1>2. ProcStep(p) /\ proc'[p].pc = "createTables" /\ proc'[p].call = proc[p].call
    BY <1>1, GotoStep DEF Opening
  <1>3. ProcessOK(p)'
    BY <1>1, <1>2, Zenon DEF ProcessOK, InTransaction, Opening, PastMigration, At, Serves
  <1>4. Kept(file, file) /\ file # None
    BY <1>1, KeptAtFirst, SQLiteStoreAssumption, Zenon DEF Readable
  <1>5. AtStatement("createTables")'
    BY <1>1 DEF AtStatement
  <1>6. WorkOK'
    BY <1>1, <1>2, <1>4, <1>5 DEF WorkOK
  <1>7. \A q \in Processes : q # p => (lock' = q <=> lock = q)
    BY <1>1, SQLiteStoreAssumption
  <1> QED
    BY <1>1, <1>2, <1>3, <1>4, <1>6, <1>7, PrivateStepKeepsInv, SQLiteStoreAssumption, Zenon

\* CREATE TABLE IF NOT EXISTS adds tables and leaves rows and columns alone.
LEMMA CreateTablesStep ==
    ASSUME DatabaseInv, NEW p \in Processes, CreateTables(p)
    PROVE  DatabaseInv'
  <1>1. /\ proc \in [Processes -> Process] /\ ProcessOK(p) /\ proc[p].pc = "createTables"
        /\ lock = p /\ UNCHANGED <<file, lock>> /\ Goto(p, "checkVersion")
        /\ work' = [work EXCEPT !.tables = Tables,
                                !.columns = @ \cup {c \in Columns : c[1] \notin work.tables}]
    BY DEF DatabaseInv, CreateTables, Exec, At
  <1>2. ProcStep(p) /\ proc'[p].pc = "checkVersion" /\ proc'[p].call = proc[p].call
    BY <1>1, GotoStep DEF Opening
  <1>3. ProcessOK(p)'
    BY <1>1, <1>2 DEF ProcessOK, InTransaction, Opening, PastMigration, At, Serves
  <1>4. work \in Database /\ AtStatement("createTables")
    BY <1>1, Migrating, ZenonT(30)
  <1>5. work' \in Database
    BY <1>1, <1>4, Fields, Zenon DEF Database
  <1>6. /\ work'.tables = Tables /\ work.columns \subseteq work'.columns
        /\ work'.version = work.version /\ work'.counts = work.counts
        /\ work'.artifacts = work.artifacts /\ work'.sources = work.sources
        /\ work'.terminals = work.terminals /\ work'.sampleLifecycles = work.sampleLifecycles
    BY <1>1, <1>4 DEF Database
  <1>7. Kept(work, work') /\ (OfOneKind(work) => OfOneKind(work'))
    BY <1>4, <1>5, <1>6, Fields, SchemaStatement
  <1>8. AtStatement("checkVersion")'
    BY <1>1, <1>4, <1>6 DEF AtStatement
  <1> QED
    BY <1>1, <1>2, <1>3, <1>5, <1>6, <1>7, <1>8, ExecKeepsInv, Zenon

\* migrateRunIdentity goes on, or refuses the version and rolls back.
LEMMA CheckVersionStep ==
    ASSUME DatabaseInv, NEW p \in Processes, CheckVersion(p)
    PROVE  DatabaseInv'
  <1>1. proc \in [Processes -> Process] /\ ProcessOK(p) /\ proc[p].pc = "checkVersion"
    BY Zenon DEF DatabaseInv, CheckVersion, At
  <1>2. lock = p
    BY <1>1 DEF ProcessOK, InTransaction, Opening
  <1>3. work \in Database /\ AtStatement("checkVersion")
    BY <1>1, <1>2, Migrating, ZenonT(30)
  <1>4. CASE work.version \in {"", "2"} /\ UNCHANGED <<file, lock, work>> /\ Goto(p, "addColumns")
    <2>1. ProcStep(p) /\ proc'[p].pc = "addColumns" /\ proc'[p].call = proc[p].call
      BY <1>1, <1>4, GotoStep, ZenonT(30) DEF Opening
    <2>2. ProcessOK(p)'
      BY <1>1, <1>2, <1>4, <2>1, ZenonT(30) DEF ProcessOK, InTransaction, Opening, PastMigration, At, Serves
    <2>3. AtStatement("addColumns")'
      BY <1>3, <1>4, Zenon DEF AtStatement
    <2> QED
      BY <1>2, <1>3, <1>4, <2>1, <2>2, <2>3, KeptAtFirst, ExecKeepsInv, ZenonT(30)
  <1>5. CASE Rollback(p) /\ proc' = [proc EXCEPT ![p] = Down]
    <2>1. ProcStep(p) /\ proc'[p].pc = "down" /\ proc'[p].call = None
      BY <1>1, <1>5, DownStep, Zenon
    <2>2. lock' # p
      BY <1>5, SQLiteStoreAssumption DEF Rollback
    <2>3. ProcessOK(p)'
      BY <2>1, <2>2 DEF ProcessOK, InTransaction, Opening, PastMigration, At, Serves
    <2> QED
      BY <1>5, <2>1, <2>3, RollbackKeepsInv
  <1> QED
    BY <1>4, <1>5, Zenon DEF CheckVersion

\* Adding the run_id columns gives no row a RunID.
LEMMA AddRunIDColumnsStep ==
    ASSUME DatabaseInv, NEW p \in Processes, AddRunIDColumns(p)
    PROVE  DatabaseInv'
  <1> DEFINE next == IF work.version = "" THEN "disposition" ELSE "commit"
  <1>1. /\ proc \in [Processes -> Process] /\ ProcessOK(p) /\ proc[p].pc = "addColumns"
        /\ lock = p /\ UNCHANGED <<file, lock>> /\ Goto(p, next)
        /\ work' = [work EXCEPT !.columns = @ \cup RunIDColumns]
    BY Zenon DEF DatabaseInv, AddRunIDColumns, Exec, At
  <1>2. ProcStep(p) /\ proc'[p].pc = next /\ proc'[p].call = proc[p].call
    BY <1>1, GotoStep, Zenon DEF Opening
  <1>3. ProcessOK(p)'
    BY <1>1, <1>2, Zenon DEF ProcessOK, InTransaction, Opening, PastMigration, At, Serves
  <1>4. work \in Database /\ AtStatement("addColumns") /\ LegacyCounts(work) = LegacyCounts(file)
    BY <1>1, Migrating, Zenon
  <1>5. work' \in Database
    BY <1>1, <1>4, Fields, Zenon DEF Database, Columns
  <1>6. /\ work'.tables = work.tables /\ work'.columns = work.columns \cup RunIDColumns
        /\ work'.version = work.version /\ work'.counts = work.counts
        /\ work'.artifacts = work.artifacts /\ work'.sources = work.sources
        /\ work'.terminals = work.terminals /\ work'.sampleLifecycles = work.sampleLifecycles
    BY <1>1, <1>4, ZenonT(30) DEF Database
  <1>7. Kept(work, work') /\ (OfOneKind(work) => OfOneKind(work'))
    BY <1>4, <1>5, <1>6, SchemaStatement
  <1>8. LegacyCounts(work') = LegacyCounts(file)
    BY <1>4, <1>5, <1>7, KeptCounts
  <1>9. AtStatement(next)'
    BY <1>1, <1>4, <1>6, <1>8, Zenon DEF AtStatement, DatabaseInv, StampedMeansMigrated
  <1> QED
    BY <1>1, <1>2, <1>3, <1>5, <1>6, <1>7, <1>9, ExecKeepsInv, Zenon

\* The counts put on record are those of the legacy rows in the copy.
LEMMA RecordDispositionStep ==
    ASSUME DatabaseInv, NEW p \in Processes, RecordDisposition(p)
    PROVE  DatabaseInv'
  <1>1. /\ proc \in [Processes -> Process] /\ ProcessOK(p) /\ proc[p].pc = "disposition"
        /\ lock = p /\ UNCHANGED <<file, lock>> /\ Goto(p, "stamp") /\ work.counts = None
        /\ work' = [work EXCEPT !.counts = LegacyCounts(work)]
    BY DEF DatabaseInv, RecordDisposition, Exec, At
  <1>2. ProcStep(p) /\ proc'[p].pc = "stamp" /\ proc'[p].call = proc[p].call
    BY <1>1, GotoStep DEF Opening
  <1>3. ProcessOK(p)'
    BY <1>1, <1>2 DEF ProcessOK, InTransaction, Opening, PastMigration, At, Serves
  <1>4. work \in Database /\ AtStatement("disposition") /\ LegacyCounts(work) \in Counts
    BY <1>1, Migrating, CountsType, Zenon
  <1>5. work' \in Database
    BY <1>1, <1>4, Fields DEF Database
  <1>6. /\ work'.tables = work.tables /\ work'.columns = work.columns
        /\ work'.version = work.version /\ work'.counts = LegacyCounts(work)
        /\ work'.artifacts = work.artifacts /\ work'.sources = work.sources
        /\ work'.terminals = work.terminals /\ work'.sampleLifecycles = work.sampleLifecycles
    BY <1>1, <1>4 DEF Database
  <1>7. Kept(work, work') /\ (OfOneKind(work) => OfOneKind(work'))
    BY <1>1, <1>4, <1>5, <1>6, SchemaStatement, Zenon
  <1>8. LegacyCounts(work') = LegacyCounts(work)
    BY <1>4, <1>5, <1>7, KeptCounts
  <1>9. AtStatement("stamp")'
    BY <1>1, <1>4, <1>6, <1>8, Zenon DEF AtStatement
  <1> QED
    BY <1>1, <1>2, <1>3, <1>5, <1>6, <1>7, <1>9, ExecKeepsInv, Zenon

\* The copy is stamped when its schema is Run-keyed and its counts are on record.
LEMMA StampVersionStep ==
    ASSUME DatabaseInv, NEW p \in Processes, StampVersion(p)
    PROVE  DatabaseInv'
  <1>1. /\ proc \in [Processes -> Process] /\ ProcessOK(p) /\ proc[p].pc = "stamp"
        /\ lock = p /\ UNCHANGED <<file, lock>> /\ Goto(p, "commit")
        /\ work' = [work EXCEPT !.version = "2"]
    BY DEF DatabaseInv, StampVersion, Exec, At
  <1>2. ProcStep(p) /\ proc'[p].pc = "commit" /\ proc'[p].call = proc[p].call
    BY <1>1, GotoStep DEF Opening
  <1>3. ProcessOK(p)'
    BY <1>1, <1>2 DEF ProcessOK, InTransaction, Opening, PastMigration, At, Serves
  <1>4. work \in Database /\ AtStatement("stamp")
    BY <1>1, Migrating, Zenon
  <1>5. work' \in Database
    BY <1>1, <1>4, Fields, Zenon DEF Database, Version
  <1>6. /\ work'.tables = work.tables /\ work'.columns = work.columns
        /\ work'.version = "2" /\ work'.counts = work.counts
        /\ work'.artifacts = work.artifacts /\ work'.sources = work.sources
        /\ work'.terminals = work.terminals /\ work'.sampleLifecycles = work.sampleLifecycles
    BY <1>1, <1>4 DEF Database
  <1>7. Kept(work, work') /\ (OfOneKind(work) => OfOneKind(work'))
    BY <1>1, <1>4, <1>5, <1>6, SchemaStatement, Zenon
  <1>8. LegacyCounts(work') = LegacyCounts(work)
    BY <1>4, <1>5, <1>7, KeptCounts
  <1>9. AtStatement("commit")' /\ work.version = ""
    BY <1>1, <1>4, <1>6, <1>8, Zenon DEF AtStatement
  <1> QED
    BY <1>1, <1>2, <1>3, <1>5, <1>6, <1>7, <1>9, ExecKeepsInv, Zenon

\* The commit of a migration or of a call: the file becomes the copy.
LEMMA CommitKeepsInv ==
    ASSUME DatabaseInv, NEW p \in Processes, ProcStep(p), Commit(p), proc[p].pc \in {"commit", "tx"},
           ProcessOK(p)'
    PROVE  DatabaseInv'
  <1>1. lock = p /\ file' = work /\ lock' = None /\ work' = None
    BY DEF Commit
  <1>2. WorkOK /\ AtStatement(proc[p].pc)
    BY <1>1, Migrating, Zenon
  <1>3. StampedMeansMigrated'
    BY <1>1, <1>2, Zenon DEF AtStatement, StampedMeansMigrated
  <1>4. \A q \in Processes : q # p => (lock' = q <=> lock = q)
    BY <1>1, SQLiteStoreAssumption
  <1>5. Readable(file') /\ Kept(file, file')
    BY <1>1, <1>2 DEF WorkOK
  <1> QED
    BY <1>1, <1>3, <1>4, <1>5, StepKeepsInv

\* A statement outside a transaction, on a file this binary has migrated.
LEMMA AutocommitKeepsInv ==
    ASSUME DatabaseInv, NEW p \in Processes, ProcStep(p), lock = None, UNCHANGED <<lock, work>>,
           file.version = "2", file' \in Database, Kept(file, file'), OfOneKind(file'),
           file'.tables = file.tables, file'.counts = file.counts,
           ProcessOK(p)'
    PROVE  DatabaseInv'
  <1>1. file \in Database /\ StampedMeansMigrated
    BY DEF DatabaseInv, Readable
  <1>2. LegacyCounts(file') = LegacyCounts(file)
    BY <1>1, KeptCounts
  <1>3. file'.version = "2" /\ file.columns \subseteq file'.columns
    BY DEF Kept
  <1>4. StampedMeansMigrated'
    BY <1>1, <1>2, <1>3 DEF StampedMeansMigrated
  <1> QED
    BY <1>4, StepKeepsInv DEF DatabaseInv, Readable

\* The commit of the migration brings a file that kept all the file had.
LEMMA CommitMigrationStep ==
    ASSUME DatabaseInv, NEW p \in Processes, CommitMigration(p)
    PROVE  DatabaseInv'
  <1>1. /\ proc \in [Processes -> Process] /\ ProcessOK(p) /\ proc[p].pc = "commit"
        /\ Commit(p) /\ proc' = [proc EXCEPT ![p].pc = "alter", ![p].next = 1]
    BY DEF DatabaseInv, CommitMigration, At
  <1>2. ProcStep(p) /\ proc'[p].pc = "alter" /\ proc'[p].next = 1 /\ proc'[p].call = proc[p].call
    BY <1>1, ZenonT(30) DEF ProcStep, Process, Opening
  <1>3. AtStatement("commit") /\ file' = work /\ lock' = None
    BY <1>1, Migrating, Zenon DEF Commit
  <1>4. PastMigration(p)'
    <2>1. file'.version = "2"
      BY <1>3, Zenon DEF AtStatement
    <2>2. \A i \in 1 .. Len(AlterTable) : ~(i < 1)
      BY AlterColumns
    <2>3. proc'[p].next \in 1 .. Len(AlterTable)
      BY <1>2, AlterColumns
    <2> QED
      BY <1>2, <2>1, <2>2, <2>3 DEF PastMigration, At, Serves
  <1>5. ProcessOK(p)'
    BY <1>1, <1>2, <1>3, <1>4, SQLiteStoreAssumption DEF ProcessOK, InTransaction, Opening, At
  <1> QED
    BY <1>1, <1>2, <1>5, CommitKeepsInv

\* A column added outside the transaction stays, whoever else opens the file.
LEMMA AlterAddColumnStep ==
    ASSUME DatabaseInv, NEW p \in Processes, AlterAddColumn(p)
    PROVE  DatabaseInv' /\ file.version = "2" /\ Kept(file, file')
  <1> DEFINE i == proc[p].next
             last == i = Len(AlterTable)
  <1>1. /\ proc \in [Processes -> Process] /\ ProcessOK(p) /\ proc[p].pc = "alter"
        /\ lock = None /\ UNCHANGED <<lock, work>>
        /\ file' = [file EXCEPT !.columns = @ \cup {AlterTable[i]}]
        /\ IF last THEN proc' = [proc EXCEPT ![p].pc = "serving", ![p].next = 0]
           ELSE proc' = [proc EXCEPT ![p].next = @ + 1]
    BY DEF DatabaseInv, AlterAddColumn, ExecAutocommit, At
  <1>2. /\ file \in Database /\ StampedMeansMigrated /\ OfOneKind(file)
        /\ i \in 1 .. Len(AlterTable) /\ file.version = "2"
        /\ \A j \in 1 .. Len(AlterTable) : j < i => AlterTable[j] \in file.columns
    BY <1>1, Zenon DEF DatabaseInv, Readable, ProcessOK, PastMigration, At
  <1>3. /\ ProcStep(p) /\ proc'[p].call = proc[p].call
        /\ last => proc'[p].pc = "serving"
        /\ ~last => proc'[p].pc = "alter" /\ proc'[p].next = i + 1
    <2>1. CASE last
      <3> DEFINE now == [pc |-> "serving", next |-> 0, call |-> proc[p].call, result |-> proc[p].result]
      <3>1. proc'[p] = now
        BY <1>1, <2>1 DEF Process
      <3>2. now \in Process /\ now.pc = "serving" /\ now.call = proc[p].call
        BY <1>1 DEF Process
      <3>3. proc' = [proc EXCEPT ![p] = proc'[p]]
        BY <1>1, <2>1
      <3> HIDE DEF now
      <3> QED
        BY <1>1, <2>1, <3>1, <3>2, <3>3 DEF ProcStep
    <2>2. CASE ~last
      BY <1>1, <2>2 DEF ProcStep, Process
    <2> QED
      BY <2>1, <2>2
  <1>4. AlterTable[i] \in Columns
    BY <1>2, AlterColumns DEF Columns
  <1>5. file' \in Database
    BY <1>1, <1>2, <1>4, Fields DEF Database
  <1>6. /\ file'.tables = file.tables /\ file'.columns = file.columns \cup {AlterTable[i]}
        /\ file'.version = file.version /\ file'.counts = file.counts
        /\ file'.artifacts = file.artifacts /\ file'.sources = file.sources
        /\ file'.terminals = file.terminals /\ file'.sampleLifecycles = file.sampleLifecycles
    BY <1>1, <1>2 DEF Database
  <1>7. Kept(file, file') /\ OfOneKind(file')
    BY <1>2, <1>5, <1>6, SchemaStatement
  <1>8. \A j \in 1 .. Len(AlterTable) : j <= i => AlterTable[j] \in file'.columns
    BY <1>2, <1>6, AlterColumns
  <1>9. last => file'.columns = Columns
    <2>1. SUFFICES ASSUME last PROVE Columns \subseteq file'.columns
      BY <1>5, Fields, Zenon
    <2>2. \A j \in 1 .. Len(AlterTable) : AlterTable[j] \in file'.columns
      BY <1>8, <2>1, AlterColumns
    <2>3. RunIDColumns \subseteq file'.columns
      BY <1>2, <1>6 DEF StampedMeansMigrated
    <2> QED
      BY <2>2, <2>3, AlterColumns DEF Columns
  <1>10. PastMigration(p)'
    <2>1. CASE last
      BY <1>2, <1>3, <1>6, <1>9, <2>1 DEF PastMigration, At, Serves
    <2>2. CASE ~last
      <3>1. i + 1 \in 1 .. Len(AlterTable)
        BY <1>2, <2>2, AlterColumns
      <3>2. \A j \in 1 .. Len(AlterTable) : j < i + 1 => AlterTable[j] \in file'.columns
        BY <1>2, <1>8, AlterColumns
      <3>3. proc'[p].pc = "alter" /\ proc'[p].next = i + 1 /\ file'.version = "2"
        BY <1>2, <1>3, <1>6, <2>2
      <3> QED
        BY <3>1, <3>2, <3>3, Zenon DEF PastMigration, At, Serves
    <2> QED
      BY <2>1, <2>2
  <1>11. ProcessOK(p)'
    BY <1>1, <1>3, <1>10, SQLiteStoreAssumption DEF ProcessOK, InTransaction, Opening, At
  <1> QED
    BY <1>1, <1>2, <1>3, <1>5, <1>6, <1>7, <1>11, AutocommitKeepsInv, Zenon

\* A process that waited too long for the lock gives up without a trace.
LEMMA OpenTimeoutStep ==
    ASSUME DatabaseInv, NEW p \in Processes, OpenTimeout(p)
    PROVE  DatabaseInv'
  <1>1. ProcStep(p) /\ proc'[p].pc = "down" /\ proc'[p].call = None
    BY DownStep, Zenon DEF OpenTimeout, DatabaseInv
  <1>2. ProcessOK(p)'
    BY <1>1 DEF OpenTimeout, ProcessOK, InTransaction, Opening, PastMigration, At, Serves
  <1> QED
    BY <1>1, <1>2, BystanderKeepsInv DEF OpenTimeout

\* A process that dies loses its copy and its lock, and the file keeps its rows.
LEMMA ProcessEndsStep ==
    ASSUME DatabaseInv, NEW p \in Processes, ProcessEnds(p)
    PROVE  DatabaseInv'
  <1>1. ProcStep(p) /\ proc'[p].pc = "down" /\ proc'[p].call = None
    BY DownStep, Zenon DEF ProcessEnds, DatabaseInv
  <1>2. lock' # p
    BY SQLiteStoreAssumption DEF ProcessEnds, Rollback
  <1>3. ProcessOK(p)'
    BY <1>1, <1>2 DEF ProcessOK, InTransaction, Opening, PastMigration, At, Serves
  <1> QED
    BY <1>1, <1>3, RollbackKeepsInv DEF ProcessEnds

-----------------------------------------------------------------------------
(* The calls.                                                               *)

\* What a call carries.
LEMMA CallFields ==
    ASSUME NEW c \in StoreCall
    PROVE  /\ c.op = "putArtifact" => c.key \in ArtifactKey /\ c.art \in Offers
           /\ c.op = "putSources" => c.rows \in SourceCalls
           /\ c.op = "recordTerminal" => c.attempt \in NodeAttemptKey /\ c.state \in ReportedStates
           /\ c.op = "upsertLifecycle" => c.run \in Runs /\ c.row \in LifecycleRows
  BY DEF StoreCall

\* A process in a transaction of a call works on a migrated copy.
LEMMA InCall ==
    ASSUME DatabaseInv, NEW p \in Processes, At(p, "tx")
    PROVE  /\ proc \in [Processes -> Process] /\ proc[p] \in Process /\ proc[p].pc = "tx"
           /\ ProcessOK(p) /\ proc[p].call \in StoreCall /\ proc[p].next \in Nat
           /\ lock = p /\ work \in Database /\ OfOneKind(work) /\ AtStatement("tx")
           /\ file.version = "2" /\ file.columns = Columns
           /\ LegacyCounts(work) = LegacyCounts(file)
  <1>1. /\ proc \in [Processes -> Process] /\ proc[p].pc = "tx" /\ ProcessOK(p)
        /\ proc[p] \in Process
    BY DEF DatabaseInv, At
  <1>2. lock = p /\ proc[p].call \in StoreCall /\ file.version = "2" /\ file.columns = Columns
    BY <1>1 DEF ProcessOK, InTransaction, PastMigration, Serves
  <1>3. work \in Database /\ AtStatement("tx") /\ LegacyCounts(work) = LegacyCounts(file)
        /\ (work.version \in {"", "2"} => OfOneKind(work))
    BY <1>1, <1>2, Migrating, ZenonT(30)
  <1>4. OfOneKind(work)
    BY <1>3, Zenon DEF AtStatement
  <1>5. proc[p].next \in Nat
    BY <1>1 DEF Process
  <1> QED
    BY <1>1, <1>2, <1>3, <1>4, <1>5

\* A statement of a call that goes on to the next one.
LEMMA CallStatementKeepsInv ==
    ASSUME DatabaseInv, NEW p \in Processes, At(p, "tx"), NextStatement(p), UNCHANGED <<file, lock>>,
           work' \in Database, OfOneKind(work'), Kept(work, work'), SameSchema(work, work')
    PROVE  DatabaseInv'
  <1>1. /\ proc \in [Processes -> Process] /\ proc[p].pc = "tx" /\ ProcessOK(p)
        /\ proc[p].next \in Nat /\ lock = p /\ work \in Database /\ AtStatement("tx")
        /\ file.version = "2" /\ file.columns = Columns
    BY InCall
  <1>2. /\ ProcStep(p) /\ proc'[p].pc = "tx" /\ proc'[p].next = proc[p].next + 1
        /\ proc'[p].call = proc[p].call
    BY <1>1, NextStatementStep
  <1>3. PastMigration(p)'
    BY <1>1, <1>2 DEF PastMigration, At, Serves
  <1>4. ProcessOK(p)'
    <2>1. proc[p].call \in StoreCall /\ proc[p].call.op # "upsertLifecycle" /\ proc[p].next > 0
      BY <1>1, ZenonT(30) DEF ProcessOK, At
    <2>2. proc'[p].next > 0
      BY <1>1, <1>2, <2>1
    <2>3. proc'[p].pc \in InTransaction /\ lock' = p
      BY <1>1, <1>2 DEF InTransaction
    <2> QED
      BY <1>2, <1>3, <2>1, <2>2, <2>3 DEF ProcessOK, At
  <1>5. LegacyCounts(work') = LegacyCounts(work)
    BY <1>1, KeptCounts
  <1>6. AtStatement("tx")'
    BY <1>1, <1>5, Zenon DEF AtStatement, SameSchema
  <1> QED
    BY <1>1, <1>2, <1>4, <1>6, ExecKeepsInv, Zenon DEF SameSchema

\* A statement that changes nothing.
LEMMA ReadStatementKeepsInv ==
    ASSUME DatabaseInv, NEW p \in Processes, At(p, "tx"), NextStatement(p), UNCHANGED <<file, lock, work>>
    PROVE  DatabaseInv'
  <1>1. work \in Database /\ OfOneKind(work)
    BY InCall
  <1>2. Kept(work, work') /\ SameSchema(work, work')
    BY <1>1, KeptAtFirst DEF SameSchema
  <1> QED
    BY <1>1, <1>2, CallStatementKeepsInv

\* A call that is refused, fails or is given up rolls back and serves on.
LEMMA GiveUpKeepsInv ==
    ASSUME DatabaseInv, NEW p \in Processes, At(p, "tx"), NEW res \in {"ok", "refused", "failed"},
           Rollback(p), EndCall(p, res)
    PROVE  DatabaseInv'
  <1>1. proc \in [Processes -> Process] /\ lock = p /\ file.version = "2" /\ file.columns = Columns
    BY InCall
  <1>2. ProcStep(p) /\ proc'[p].pc = "serving" /\ proc'[p].call = None
    BY <1>1, EndCallStep
  <1>3. lock' # p /\ file' = file
    BY <1>1, SQLiteStoreAssumption DEF Rollback
  <1>4. PastMigration(p)'
    BY <1>1, <1>2, <1>3, ZenonT(30) DEF PastMigration, At, Serves
  <1>5. ProcessOK(p)'
    BY <1>2, <1>3, <1>4 DEF ProcessOK, At, InTransaction, Opening
  <1> QED
    BY <1>2, <1>5, RollbackKeepsInv

\* What a process that serves may rely on.
LEMMA Serving ==
    ASSUME DatabaseInv, NEW p \in Processes, proc[p].pc \in {"serving", "upsert"}
    PROVE  /\ proc \in [Processes -> Process] /\ proc[p] \in Process /\ ProcessOK(p) /\ lock # p
           /\ file \in Database /\ OfOneKind(file) /\ StampedMeansMigrated
           /\ file.version = "2" /\ file.columns = Columns
  <1>1. /\ proc \in [Processes -> Process] /\ ProcessOK(p) /\ Readable(file) /\ StampedMeansMigrated
        /\ proc[p] \in Process
    BY DEF DatabaseInv
  <1>2. lock # p /\ file.version = "2" /\ file.columns = Columns
    BY <1>1 DEF ProcessOK, InTransaction, Opening, PastMigration, Serves
  <1> QED
    BY <1>1, <1>2 DEF Readable

\* An element of a sequence over S is in S.
LEMMA ElementOf ==
    ASSUME NEW S, NEW seq \in Seq(S), NEW i \in Nat, i > 0, i <= Len(seq)
    PROVE  seq[i] \in S
  OBVIOUS

\* A call begins with a copy of the file, under the lock.
LEMMA BeginCallStep ==
    ASSUME DatabaseInv, NEW p \in Processes, NEW c \in StoreCall, BeginCall(p, c)
    PROVE  DatabaseInv'
  <1>1. /\ proc[p].pc = "serving" /\ c.op # "upsertLifecycle"
        /\ lock = None /\ lock' = p /\ work' = file /\ UNCHANGED file
        /\ proc' = [proc EXCEPT ![p].pc = "tx", ![p].next = 1, ![p].call = c, ![p].result = "none"]
    BY DEF BeginCall, Begin, At
  <1>2. /\ proc \in [Processes -> Process] /\ proc[p] \in Process /\ file \in Database
        /\ OfOneKind(file) /\ StampedMeansMigrated /\ file.version = "2" /\ file.columns = Columns
    BY <1>1, Serving
  <1>3. ProcStep(p) /\ proc'[p].pc = "tx" /\ proc'[p].next = 1 /\ proc'[p].call = c
    BY <1>1, <1>2, InTxStep, Zenon
  <1>4. PastMigration(p)'
    BY <1>1, <1>2, <1>3 DEF PastMigration, At, Serves
  <1>5. ProcessOK(p)'
    BY <1>1, <1>3, <1>4 DEF ProcessOK, At, InTransaction
  <1>6. AtStatement("tx")'
    BY <1>1, <1>2 DEF AtStatement, StampedMeansMigrated
  <1>7. WorkOK'
    BY <1>1, <1>2, <1>3, <1>6, KeptAtFirst DEF WorkOK, Readable
  <1>8. \A q \in Processes : q # p => (lock' = q <=> lock = q)
    BY <1>1, SQLiteStoreAssumption
  <1>9. work' # None /\ lock' # None
    BY <1>1, <1>2, SQLiteStoreAssumption
  <1> QED
    BY <1>1, <1>3, <1>5, <1>7, <1>8, <1>9, PrivateStepKeepsInv

\* PutArtifact's statement writes a row of its own Run, and no legacy row.
LEMMA ExecPutArtifactStep ==
    ASSUME DatabaseInv, NEW p \in Processes, ExecPutArtifact(p)
    PROVE  DatabaseInv'
  <1> DEFINE a   == proc[p].call.art
             k   == proc[p].call.key
             key == KeyString[k]
             old == work.artifacts[key]
             new == [work EXCEPT !.artifacts[key] =
                        [run_id |-> IF old = None THEN k.run ELSE old.run_id,
                         artifact_id |-> key, art |-> a]]
  <1>1. At(p, "tx") /\ proc[p].call.op = "putArtifact"
    BY ZenonT(30) DEF ExecPutArtifact, Calling
  <1>2. k \in ArtifactKey /\ a \in Offers /\ work \in Database /\ OfOneKind(work)
    BY <1>1, InCall, CallFields, Zenon
  <1>3. CASE Refuse(p)
    BY <1>1, <1>3, GiveUpKeepsInv DEF Refuse
  <1>4. CASE NextStatement(p) /\ UNCHANGED <<file, lock, work>>
    BY <1>1, <1>4, ReadStatementKeepsInv
  <1>5. CASE Exec(p, new) /\ NextStatement(p)
    <2>1. new \in Database /\ OfOneKind(new) /\ Kept(work, new) /\ SameSchema(work, new)
      BY <1>2, PutArtifactStatement, ZenonT(30)
    <2>2. work' = new /\ UNCHANGED <<file, lock>>
      BY <1>5 DEF Exec
    <2> HIDE DEF new
    <2> QED
      BY <1>1, <1>5, <2>1, <2>2, CallStatementKeepsInv, ZenonT(30)
  <1> QED
    BY <1>3, <1>4, <1>5, ZenonT(30) DEF ExecPutArtifact

\* A statement of PutArtifactSources never writes a source of a legacy artifact.
LEMMA ExecPutSourceStep ==
    ASSUME DatabaseInv, NEW p \in Processes, ExecPutSource(p)
    PROVE  DatabaseInv'
  <1> DEFINE q   == proc[p].call.rows[proc[p].next]
             old == work.sources[q.id]
             ins == [work EXCEPT !.sources[q.id] = SourceRow(q.src)]
             upd == [work EXCEPT !.sources[q.id].state = q.src.state, !.sources[q.id].loc = q.src.loc]
  <1>1. At(p, "tx") /\ proc[p].call.op = "putSources" /\ proc[p].next <= Len(proc[p].call.rows)
    BY ZenonT(30) DEF ExecPutSource, Calling
  <1>2. /\ proc[p].call.rows \in Seq([id : SourceIDs, src : Source]) /\ work \in Database
        /\ OfOneKind(work) /\ proc[p].next \in Nat /\ proc[p].next > 0
    BY <1>1, InCall, CallFields, SQLiteStoreAssumption, ZenonT(30) DEF ProcessOK
  <1>3. q.id \in SourceIDs /\ q.src \in Source
    <2>1. q \in [id : SourceIDs, src : Source]
      BY <1>1, <1>2, ElementOf, ZenonT(30)
    <2> QED
      BY <2>1
  <1>4. CASE old = None /\ Exec(p, ins) /\ NextStatement(p)
    <2>1. ins \in Database /\ OfOneKind(ins) /\ Kept(work, ins) /\ SameSchema(work, ins)
      BY <1>2, <1>3, <1>4, InsertSourceStatement, ZenonT(30)
    <2>2. work' = ins /\ UNCHANGED <<file, lock>>
      BY <1>4, ZenonT(30) DEF Exec
    <2> HIDE DEF ins
    <2> QED
      BY <1>1, <1>4, <2>1, <2>2, CallStatementKeepsInv, Zenon
  <1>5. CASE old # None /\ old.artifact_id = KeyString[q.src.owner] /\ Exec(p, upd) /\ NextStatement(p)
    <2>1. upd \in Database /\ OfOneKind(upd) /\ Kept(work, upd) /\ SameSchema(work, upd)
      BY <1>2, <1>3, <1>5, UpdateSourceStatement, ZenonT(30)
    <2>2. work' = upd /\ UNCHANGED <<file, lock>>
      BY <1>5, Zenon DEF Exec
    <2> HIDE DEF upd
    <2> QED
      BY <1>1, <1>5, <2>1, <2>2, CallStatementKeepsInv, ZenonT(30)
  <1>6. CASE Refuse(p)
    BY <1>1, <1>6, GiveUpKeepsInv DEF Refuse
  <1> QED
    BY <1>4, <1>5, <1>6, ZenonT(30) DEF ExecPutSource

\* RecordNodeTerminal's statement writes a row of its own Run, and no legacy row.
LEMMA ExecRecordNodeTerminalStep ==
    ASSUME DatabaseInv, NEW p \in Processes, ExecRecordNodeTerminal(p)
    PROVE  DatabaseInv'
  <1> DEFINE n   == proc[p].call.attempt
             s   == proc[p].call.state
             old == work.terminals[AttemptString[n]]
             new == [work EXCEPT !.terminals[AttemptString[n]] = [run_id |-> n.run, state |-> s]]
  <1>1. At(p, "tx") /\ proc[p].call.op = "recordTerminal"
    BY ZenonT(30) DEF ExecRecordNodeTerminal, Calling
  <1>2. n \in NodeAttemptKey /\ s \in ReportedStates /\ work \in Database /\ OfOneKind(work)
    BY <1>1, InCall, CallFields
  <1>3. CASE old = None /\ Exec(p, new) /\ NextStatement(p)
    <2>1. new \in Database /\ OfOneKind(new) /\ Kept(work, new) /\ SameSchema(work, new)
      BY <1>2, <1>3, RecordTerminalStatement
    <2>2. work' = new /\ UNCHANGED <<file, lock>>
      BY <1>3 DEF Exec
    <2> HIDE DEF new
    <2> QED
      BY <1>1, <1>3, <2>1, <2>2, CallStatementKeepsInv, ZenonT(30)
  <1>4. CASE NextStatement(p) /\ UNCHANGED <<file, lock, work>>
    BY <1>1, <1>4, ReadStatementKeepsInv
  <1>5. CASE Refuse(p)
    BY <1>1, <1>5, GiveUpKeepsInv DEF Refuse
  <1> QED
    BY <1>3, <1>4, <1>5, ZenonT(30) DEF ExecRecordNodeTerminal

\* The commit of a call brings a file that kept all the file had.
LEMMA CommitCallStep ==
    ASSUME DatabaseInv, NEW p \in Processes, CommitCall(p)
    PROVE  DatabaseInv'
  <1>1. At(p, "tx") /\ Commit(p) /\ EndCall(p, "ok")
    BY DEF CommitCall
  <1>2. /\ proc \in [Processes -> Process] /\ proc[p].pc = "tx" /\ lock = p /\ AtStatement("tx")
        /\ work \in Database /\ file.columns = Columns
    BY <1>1, InCall
  <1>3. ProcStep(p) /\ proc'[p].pc = "serving" /\ proc'[p].call = None
    BY <1>1, <1>2, EndCallStep
  <1>4. file' = work /\ lock' # p
    BY <1>1, SQLiteStoreAssumption DEF Commit
  <1>5. work.columns = Columns
    BY <1>2, Migrating, Fields, ZenonT(30) DEF Kept
  <1>6. PastMigration(p)'
    BY <1>2, <1>3, <1>4, <1>5, Zenon DEF PastMigration, At, Serves, AtStatement
  <1>7. ProcessOK(p)'
    BY <1>3, <1>4, <1>6 DEF ProcessOK, At, InTransaction, Opening
  <1> QED
    BY <1>1, <1>2, <1>3, <1>7, CommitKeepsInv, Zenon

\* A call that fails rolls back.
LEMMA AbortCallStep ==
    ASSUME DatabaseInv, NEW p \in Processes, AbortCall(p)
    PROVE  DatabaseInv'
  BY GiveUpKeepsInv DEF AbortCall

\* An upsert that waits for the lock has no copy.
LEMMA CallUpsertStep ==
    ASSUME DatabaseInv, NEW p \in Processes, NEW c \in StoreCall, CallUpsert(p, c)
    PROVE  DatabaseInv'
  <1>1. /\ proc[p].pc = "serving" /\ c.op = "upsertLifecycle" /\ UNCHANGED <<file, lock, work>>
        /\ proc' = [proc EXCEPT ![p].pc = "upsert", ![p].call = c, ![p].result = "none"]
    BY DEF CallUpsert, At
  <1>2. /\ proc \in [Processes -> Process] /\ proc[p] \in Process /\ lock # p
        /\ file.version = "2" /\ file.columns = Columns
    BY <1>1, Serving
  <1>3. ProcStep(p) /\ proc'[p].pc = "upsert" /\ proc'[p].call = c
    BY <1>1, <1>2, InUpsertStep, Zenon
  <1>4. PastMigration(p)'
    BY <1>1, <1>2, <1>3 DEF PastMigration, At, Serves
  <1>5. ProcessOK(p)'
    BY <1>1, <1>2, <1>3, <1>4 DEF ProcessOK, At, InTransaction, Opening
  <1> QED
    BY <1>1, <1>2, <1>3, <1>5, BystanderKeepsInv

\* The upsert of a lifecycle, one statement without a transaction, writes no other table.
LEMMA UpsertRunLifecycleStep ==
    ASSUME DatabaseInv, NEW p \in Processes, UpsertRunLifecycle(p)
    PROVE  DatabaseInv' /\ file.version = "2" /\ Kept(file, file')
  <1> DEFINE c   == proc[p].call
             new == [file EXCEPT !.lifecycles[c.run] = c.row]
  <1>1. /\ proc[p].pc = "upsert" /\ lock = None /\ file' = new /\ UNCHANGED <<lock, work>>
        /\ EndCall(p, "ok")
    BY DEF UpsertRunLifecycle, ExecAutocommit, At
  <1>2. /\ proc \in [Processes -> Process] /\ ProcessOK(p) /\ lock # p
        /\ file \in Database /\ OfOneKind(file) /\ file.version = "2" /\ file.columns = Columns
    BY <1>1, Serving
  <1>3. c.run \in Runs /\ c.row \in LifecycleRows
    BY <1>1, <1>2, CallFields DEF ProcessOK, At
  <1>4. new \in Database /\ OfOneKind(new) /\ Kept(file, new) /\ SameSchema(file, new)
    BY <1>2, <1>3, UpsertStatement
  <1>5. ProcStep(p) /\ proc'[p].pc = "serving" /\ proc'[p].call = None
    BY <1>1, <1>2, EndCallStep
  <1> HIDE DEF new
  <1>6. PastMigration(p)'
    BY <1>1, <1>2, <1>4, <1>5 DEF PastMigration, At, Serves, SameSchema
  <1>7. ProcessOK(p)'
    BY <1>1, <1>2, <1>5, <1>6, ZenonT(30) DEF ProcessOK, At, InTransaction, Opening
  <1> QED
    BY <1>1, <1>2, <1>4, <1>5, <1>7, AutocommitKeepsInv, Zenon DEF SameSchema

\* A call that waited too long for the lock ends without a trace.
LEMMA CallTimeoutStep ==
    ASSUME DatabaseInv, NEW p \in Processes, CallTimeout(p)
    PROVE  DatabaseInv'
  <1>1. proc[p].pc \in {"serving", "upsert"} /\ UNCHANGED <<file, lock, work>> /\ EndCall(p, "failed")
    BY DEF CallTimeout
  <1>2. /\ proc \in [Processes -> Process] /\ lock # p /\ file.version = "2" /\ file.columns = Columns
    BY <1>1, Serving
  <1>3. ProcStep(p) /\ proc'[p].pc = "serving" /\ proc'[p].call = None
    BY <1>1, <1>2, EndCallStep
  <1>4. PastMigration(p)'
    BY <1>1, <1>2, <1>3 DEF PastMigration, At, Serves
  <1>5. ProcessOK(p)'
    BY <1>1, <1>2, <1>3, <1>4, Zenon DEF ProcessOK, At, InTransaction, Opening
  <1> QED
    BY <1>1, <1>2, <1>3, <1>5, BystanderKeepsInv, Zenon

-----------------------------------------------------------------------------
(* The invariant.                                                           *)

\* Every file a process may find satisfies the invariant.
LEMMA DatabaseInvInit == DatabaseInit => DatabaseInv
  <1> SUFFICES ASSUME DatabaseInit PROVE DatabaseInv
    OBVIOUS
  <1>1. /\ file \in InitialFiles /\ lock = None /\ work = None
        /\ proc = [p \in Processes |-> Down]
    BY DEF DatabaseInit, MigrationInit
  <1>2. file \in Database
    BY <1>1, SQLiteStoreAssumption
  <1>3. StampedMeansMigrated
    BY <1>1, MigrationAssumption, ZenonT(30) DEF StampedMeansMigrated
  <1>4. Readable(file)
    <2> SUFFICES ASSUME file.version \in {"", "2"} PROVE OfOneKind(file)
      BY <1>2, ZenonT(30) DEF Readable
    <2>1. file.version = ""
      BY <1>1, MigrationAssumption, Zenon
    <2>2. DOMAIN file.artifacts = ArtifactRows /\ DOMAIN file.terminals = TerminalRows
      BY <1>2, Fields, Zenon
    <2> QED
      BY <1>1, <2>1, <2>2, MigrationAssumption, Zenon DEF OfOneKind
  <1>5. Down \in Process /\ Down.pc = "down" /\ Down.call = None
    BY DEF Down, Process
  <1>6. proc \in [Processes -> Process] /\ \A p \in Processes : proc[p] = Down
    BY <1>1, <1>5
  <1>7. ASSUME NEW p \in Processes PROVE ProcessOK(p)
    BY <1>1, <1>5, <1>6, SQLiteStoreAssumption
       DEF ProcessOK, PastMigration, At, Serves, InTransaction, Opening
  <1> QED
    BY <1>1, <1>3, <1>4, <1>6, <1>7 DEF DatabaseInv

\* Every step of every process keeps the invariant.
LEMMA DatabaseInvStep == DatabaseInv /\ [DatabaseNext]_databaseVars => DatabaseInv'
  <1> SUFFICES ASSUME DatabaseInv, [DatabaseNext]_databaseVars PROVE DatabaseInv'
    OBVIOUS
  <1>1. CASE UNCHANGED databaseVars
    BY <1>1, Zenon DEF databaseVars, DatabaseInv, StampedMeansMigrated, ProcessOK, PastMigration, At, Serves,
                WorkOK, AtStatement
  <1>2. ASSUME NEW p \in Processes, OpenStep(p) PROVE DatabaseInv'
    BY <1>2, BeginMigrationStep, CreateTablesStep, CheckVersionStep, AddRunIDColumnsStep,
       RecordDispositionStep, StampVersionStep, CommitMigrationStep, AlterAddColumnStep, OpenTimeoutStep
       DEF OpenStep
  <1>3. ASSUME NEW p \in Processes, CallStep(p) PROVE DatabaseInv'
    BY <1>3, ExecPutArtifactStep, ExecPutSourceStep, ExecRecordNodeTerminalStep, CommitCallStep,
       UpsertRunLifecycleStep DEF CallStep
  <1>4. CASE DatabaseNext
    BY <1>2, <1>3, <1>4, OpenStoreStep, BeginCallStep, CallUpsertStep, AbortCallStep, CallTimeoutStep,
       ProcessEndsStep DEF DatabaseNext
  <1> QED
    BY <1>1, <1>4

\* The file changes only where its version is this binary's to change, and keeps what it had.
LEMMA FileStep ==
    ASSUME DatabaseInv, [DatabaseNext]_databaseVars
    PROVE  file' = file \/ (file.version \in {"", "2"} /\ Kept(file, file'))
  <1>1. ASSUME NEW p \in Processes, Commit(p), proc[p].pc \in {"commit", "tx"}
        PROVE  file.version \in {"", "2"} /\ Kept(file, file')
    <2>1. lock = p /\ file' = work
      BY <1>1 DEF Commit
    <2>2. Kept(file, work) /\ AtStatement(proc[p].pc)
      BY <2>1, Migrating, Zenon
    <2> QED
      BY <1>1, <2>1, <2>2, ZenonT(30) DEF AtStatement
  <1>2. ASSUME NEW p \in Processes, OpenStep(p)
        PROVE  file' = file \/ (file.version \in {"", "2"} /\ Kept(file, file'))
    <2>1. CASE AlterAddColumn(p)
      BY <2>1, AlterAddColumnStep, Zenon
    <2>2. CASE CommitMigration(p)
      BY <1>1, <2>2, Zenon DEF CommitMigration, At
    <2> QED
      BY <1>2, <2>1, <2>2, Zenon DEF OpenStep, BeginMigration, Begin, CreateTables, CheckVersion, Rollback,
         AddRunIDColumns, RecordDisposition, StampVersion, Exec, OpenTimeout
  <1>3. ASSUME NEW p \in Processes, CallStep(p)
        PROVE  file' = file \/ (file.version \in {"", "2"} /\ Kept(file, file'))
    <2>1. CASE UpsertRunLifecycle(p)
      BY <2>1, UpsertRunLifecycleStep, Zenon
    <2>2. CASE CommitCall(p)
      BY <1>1, <2>2, ZenonT(30) DEF CommitCall, At
    <2>3. CASE ExecPutArtifact(p)
      BY <2>3, ZenonT(30) DEF ExecPutArtifact, Refuse, Rollback, Exec
    <2>4. CASE ExecPutSource(p)
      BY <2>4, ZenonT(30) DEF ExecPutSource, Refuse, Rollback, Exec
    <2>5. CASE ExecRecordNodeTerminal(p)
      BY <2>5, Zenon DEF ExecRecordNodeTerminal, Refuse, Rollback, Exec
    <2> QED
      BY <1>3, <2>1, <2>2, <2>3, <2>4, <2>5, Zenon DEF CallStep
  <1>4. CASE UNCHANGED databaseVars
    BY <1>4 DEF databaseVars
  <1>5. CASE DatabaseNext
    BY <1>2, <1>3, <1>5, ZenonT(30) DEF DatabaseNext, OpenStore, BeginCall, Begin, CallUpsert, AbortCall, Rollback,
       CallTimeout, ProcessEnds
  <1> QED
    BY <1>4, <1>5, ZenonT(30)

\* A row of a Run is what GetArtifact returns, and only that.
LEMMA GetArtifactIs ==
    ASSUME file \in Database, OfOneKind(file), NEW k \in ArtifactKey
    PROVE  /\ GetArtifact(k) # None <=> file.artifacts[KeyString[k]] # None
           /\ file.artifacts[KeyString[k]] # None =>
                 /\ file.artifacts[KeyString[k]].run_id = k.run
                 /\ file.artifacts[KeyString[k]].artifact_id = KeyString[k]
                 /\ ~Legacy(file.artifacts[KeyString[k]])
  <1> DEFINE row == file.artifacts[KeyString[k]]
  <1>1. KeyString[k] \in ArtifactRows /\ k.run # <<>>
    BY KeysOfRuns
  <1>2. DOMAIN file.artifacts = ArtifactRows /\ row \in StoredArtifact \cup {None}
    BY <1>1, Fields
  <1>3. row # None => row.run_id = k.run /\ row.artifact_id = KeyString[k]
    BY RowOfRun
  <1>4. ~Legacy(row)
    BY <1>1, <1>3 DEF Legacy
  <1>5. row # None => row.art # None
    BY <1>2, NoneAssumption DEF StoredArtifact
  <1>6. LookupLive(file.artifacts, KeyString[k]) = row
    BY <1>1, <1>2, <1>4 DEF LookupLive
  <1>7. GetArtifact(k) # None <=> row # None
    BY <1>5, <1>6 DEF GetArtifact
  <1> QED
    BY <1>3, <1>4, <1>7

\* The terminal of a node attempt that is not legacy is what GetNodeTerminal returns.
LEMMA GetNodeTerminalIs ==
    ASSUME file \in Database, OfOneKind(file), NEW n \in NodeAttemptKey
    PROVE  GetNodeTerminal(n) # None <=>
              file.terminals[AttemptString[n]] # None /\ ~Legacy(file.terminals[AttemptString[n]])
  <1> DEFINE row == file.terminals[AttemptString[n]]
  <1>1. AttemptString[n] \in TerminalRows
    BY AttemptsOfRuns
  <1>2. DOMAIN file.terminals = TerminalRows /\ row \in StoredTerminal \cup {None}
    BY <1>1, Fields
  <1>3. row # None => row.state # None
    BY <1>2, NoneAssumption DEF StoredTerminal
  <1>4. LookupLive(file.terminals, AttemptString[n]) = IF ~Legacy(row) THEN row ELSE None
    BY <1>1, <1>2 DEF LookupLive
  <1> QED
    BY <1>3, <1>4 DEF GetNodeTerminal

\* A source that passes the filter belongs to an artifact that is returned.
LEMMA LiveSourceIs ==
    ASSUME file \in Database, OfOneKind(file), NEW id \in SourceIDs, liveSourceFilter(id)
    PROVE  \E k \in ArtifactKey : /\ KeyString[k] = file.sources[id].artifact_id
                                  /\ GetArtifact(k) # None
  <1>1. PICK key \in ArtifactRows : /\ file.artifacts[key] # None
                                    /\ file.artifacts[key].artifact_id = file.sources[id].artifact_id
                                    /\ file.artifacts[key].run_id # <<>>
    BY Fields, ZenonT(30) DEF liveSourceFilter
  <1>2. PICK k \in ArtifactKey : key = KeyString[k] /\ file.artifacts[key].artifact_id = key
    BY <1>1 DEF OfOneKind, Legacy
  <1> QED
    BY <1>1, <1>2, GetArtifactIs, ZenonT(30)

\* On a file with only such rows the reads agree with each other.
LEMMA ReadsAgree ==
    ASSUME file \in Database, OfOneKind(file)
    PROVE  ReadsSeeOnlyRuns
  <1>1. ASSUME NEW id \in SourceIDs, GetArtifactSource(id) # None
        PROVE  \E k \in ArtifactKey : /\ KeyString[k] = GetArtifactSource(id).artifact_id
                                      /\ GetArtifact(k) # None
    <2>1. liveSourceFilter(id) /\ GetArtifactSource(id) = file.sources[id]
      BY <1>1 DEF GetArtifactSource
    <2> QED
      BY <2>1, LiveSourceIs
  <1>2. ASSUME NEW k \in ArtifactKey, GetArtifact(k) = None
        PROVE  ListArtifactSources(KeyString[k]) = {}
    <2> SUFFICES ASSUME NEW id \in ListArtifactSources(KeyString[k]) PROVE FALSE
      OBVIOUS
    <2>1. id \in SourceIDs /\ file.sources[id].artifact_id = KeyString[k] /\ liveSourceFilter(id)
      BY DEF ListArtifactSources
    <2>2. PICK k2 \in ArtifactKey : KeyString[k2] = KeyString[k] /\ GetArtifact(k2) # None
      BY <2>1, LiveSourceIs
    <2>3. k2 = k
      BY <2>2, KeysOfRuns
    <2> QED
      BY <1>2, <2>2, <2>3
  <1>3. ASSUME NEW k \in ArtifactKey
        PROVE  GetArtifact(k) # None <=> KeyString[k] \in ListArtifactsByRun(k.run)
    <2>1. KeyString[k] \in DOMAIN file.artifacts
      BY KeysOfRuns, Fields
    <2> QED
      BY <2>1, GetArtifactIs DEF ListArtifactsByRun
  <1>4. ASSUME NEW n \in NodeAttemptKey
        PROVE  GetNodeTerminal(n) # None <=> AttemptString[n] \in ListNodeTerminalsByRun(n.run)
    <2>1. AttemptString[n] \in DOMAIN file.terminals
      BY AttemptsOfRuns, Fields
    <2> QED
      BY <2>1, GetNodeTerminalIs, TerminalOfRun DEF ListNodeTerminalsByRun
  <1> QED
    BY <1>1, <1>2, <1>3, <1>4, Zenon DEF ReadsSeeOnlyRuns

-----------------------------------------------------------------------------
(* The theorems.                                                            *)

\* The invariant holds whatever the processes do (sqliteMigrate and the calls that write).
LEMMA DatabaseInvariant == DatabaseSpec => []DatabaseInv
  BY DatabaseInvInit, DatabaseInvStep, PTL DEF DatabaseSpec

(***************************************************************************)
(* The file and the processes keep their types, and a process has the lock  *)
(* and a private copy exactly while it is in a transaction, so no error     *)
(* return of sqlite.go leaves one open.                                     *)
(***************************************************************************)
THEOREM DatabaseTypeCorrect == DatabaseSpec => []DatabaseTypeOK
  <1>1. DatabaseInv => DatabaseTypeOK
    BY ZenonT(30) DEF DatabaseInv, Readable, DatabaseTypeOK, ProcessOK, Process, InTransaction
  <1> QED
    BY <1>1, DatabaseInvariant, PTL

(***************************************************************************)
(* A process serves only on a whole schema, though the last columns are     *)
(* added outside the migration's transaction, any number of processes open  *)
(* the file at once and each may die between two statements                 *)
(* (sqliteMigrate).                                                         *)
(***************************************************************************)
THEOREM SchemaIsWhole == DatabaseSpec => []ServingSeesWholeSchema
  <1>1. DatabaseInv => ServingSeesWholeSchema
    BY Zenon DEF DatabaseInv, StampedMeansMigrated, ServingSeesWholeSchema, ProcessOK, PastMigration
  <1> QED
    BY <1>1, DatabaseInvariant, PTL

(***************************************************************************)
(* Never a half-migrated store: a stamped file has the Run-keyed schema and *)
(* the true number of legacy rows on record, at every later time too        *)
(* (migrateRunIdentity).                                                    *)
(***************************************************************************)
THEOREM NeverHalfMigrated == DatabaseSpec => []StampedMeansMigrated
  <1>1. DatabaseInv => StampedMeansMigrated
    BY DEF DatabaseInv
  <1> QED
    BY <1>1, DatabaseInvariant, PTL

(***************************************************************************)
(* The reads of a serving process agree with each other and return no       *)
(* legacy row and no source of one, even where RunIDs equal old             *)
(* SampleRunIDs (GetArtifactSource, ListArtifactSources,                    *)
(* ListArtifactsByRun, ListNodeTerminalsByRun).                             *)
(***************************************************************************)
THEOREM ReadsReturnOnlyRuns == DatabaseSpec => []ReadsSeeOnlyRuns
  <1>1. DatabaseInv => ReadsSeeOnlyRuns
    <2> SUFFICES ASSUME DatabaseInv PROVE ReadsSeeOnlyRuns
      OBVIOUS
    <2>1. CASE \E p \in Processes : Serves(p)
      <3>1. file \in Database /\ OfOneKind(file)
        BY <2>1, ZenonT(30) DEF DatabaseInv, Readable, ProcessOK, PastMigration
      <3> QED
        BY <3>1, ReadsAgree
    <2>2. CASE ~ \E p \in Processes : Serves(p)
      BY <2>2 DEF ReadsSeeOnlyRuns
    <2> QED
      BY <2>1, <2>2
  <1> QED
    BY <1>1, DatabaseInvariant, PTL

(***************************************************************************)
(* No migration and no call changes a row of before RunIDs, a source of     *)
(* one, or the record of how many there are (migrateRunIdentity,            *)
(* PutArtifact, PutArtifactSources, RecordNodeTerminal).                    *)
(***************************************************************************)
THEOREM LegacyRowsStay == DatabaseSpec => LegacyRetained
  <1> DEFINE Stay ==
        /\ \A key \in LegacyKeys(file.artifacts) : file'.artifacts[key] = file.artifacts[key]
        /\ \A key \in LegacyKeys(file.terminals) : file'.terminals[key] = file.terminals[key]
        /\ \A id \in SourceIDs :
              (file.sources[id] # None /\ \A k \in ArtifactKey : KeyString[k] # file.sources[id].artifact_id)
                 => file'.sources[id] = file.sources[id]
        /\ file'.sampleLifecycles = file.sampleLifecycles
        /\ file.counts # None => file'.counts = file.counts
  <1>1. DatabaseInv /\ [DatabaseNext]_databaseVars => [Stay]_databaseVars
    <2> SUFFICES ASSUME DatabaseInv, [DatabaseNext]_databaseVars PROVE Stay
      OBVIOUS
    <2>1. CASE file' = file
      BY <2>1
    <2>2. CASE Kept(file, file')
      BY <2>2 DEF Kept
    <2> QED
      BY <2>1, <2>2, FileStep, ZenonT(30)
  <1> QED
    BY <1>1, DatabaseInvariant, PTL DEF DatabaseSpec, LegacyRetained

(***************************************************************************)
(* A file of a newer binary, or with a version that cannot be read, stays   *)
(* as it was found (sqliteMigrate refuses it inside the transaction).       *)
(***************************************************************************)
THEOREM RefusedFilesStay == DatabaseSpec => RefusedLeavesFile
  <1>1. DatabaseInv /\ [DatabaseNext]_databaseVars
           => [file.version \notin {"", "2"} => file' = file]_databaseVars
    BY FileStep, Zenon
  <1> QED
    BY <1>1, DatabaseInvariant, PTL DEF DatabaseSpec, RefusedLeavesFile

-----------------------------------------------------------------------------
(* What one row becomes.                                                    *)

ArtifactRefused(old, a) == HasDigest(old) /\ old.art.digest # a.digest

ArtifactStored(old, k, a) ==
    IF HasDigest(old) THEN old
    ELSE [run_id |-> IF old = None THEN k.run ELSE old.run_id, artifact_id |-> KeyString[k], art |-> a]

SourceRefused(old, s) == old # None /\ old.artifact_id # KeyString[s.owner]

SourceStored(old, s) ==
    IF old = None THEN SourceRow(s) ELSE [old EXCEPT !.state = s.state, !.loc = s.loc]

TerminalRefused(old, s) == old # None /\ old.state # s

TerminalStored(old, n, s) == IF old = None THEN [run_id |-> n.run, state |-> s] ELSE old

\* The tables before and after the statements of a call that were not refused.
ArtifactWritten(old, new, k, a) ==
    /\ ~ArtifactRefused(old[KeyString[k]], a)
    /\ new = [old EXCEPT ![KeyString[k]] = ArtifactStored(old[KeyString[k]], k, a)]

TerminalWritten(old, new, n, s) ==
    /\ ~TerminalRefused(old[AttemptString[n]], s)
    /\ new = [old EXCEPT ![AttemptString[n]] = TerminalStored(old[AttemptString[n]], n, s)]

\* The rows before i have been written, the others are as they were.
SourcesWritten(old, new, rows, i) ==
    \A id \in SourceIDs :
        /\ \A j \in DOMAIN rows : (j < i /\ rows[j].id = id) =>
              /\ ~SourceRefused(old[id], rows[j].src)
              /\ new[id] = SourceStored(old[id], rows[j].src)
        /\ (\A j \in DOMAIN rows : j < i => rows[j].id # id) => new[id] = old[id]

-----------------------------------------------------------------------------
(* The transaction's copy.                                                  *)

\* The rows of a call of PutArtifactSources.
LEMMA SourceCallRows ==
    ASSUME NEW call \in SourceCalls
    PROVE  \A i \in DOMAIN call : call[i].id \in SourceIDs /\ call[i].src \in Source
  <1>1. call \in Seq([id : SourceIDs, src : Source])
    BY SQLiteStoreAssumption, Zenon
  <1>2. \A i \in DOMAIN call : i \in Nat /\ i > 0 /\ i <= Len(call)
    BY <1>1
  <1>3. \A i \in DOMAIN call : call[i] \in [id : SourceIDs, src : Source]
    BY <1>1, <1>2, ElementOf, ZenonT(30)
  <1> QED
    BY <1>3

SameRows(old, new) ==
    /\ new.artifacts = old.artifacts
    /\ new.sources = old.sources
    /\ new.terminals = old.terminals
    /\ new.lifecycles = old.lifecycles

\* The copy has the rows of c's statements before the one that is next, and no other change.
Shows(old, new, c, next) ==
    /\ new.lifecycles = old.lifecycles
    /\ IF c.op = "putArtifact" /\ next > 1
       THEN ArtifactWritten(old.artifacts, new.artifacts, c.key, c.art)
       ELSE new.artifacts = old.artifacts
    /\ IF c.op = "putSources" THEN SourcesWritten(old.sources, new.sources, c.rows, next)
       ELSE new.sources = old.sources
    /\ IF c.op = "recordTerminal" /\ next > 1
       THEN TerminalWritten(old.terminals, new.terminals, c.attempt, c.state)
       ELSE new.terminals = old.terminals

\* With DatabaseInv, inductive: a migration leaves the rows alone.
CopyInv ==
    lock # None =>
        IF proc[lock].pc = "tx" THEN Shows(file, work, proc[lock].call, proc[lock].next)
        ELSE SameRows(file, work)

\* No statement has run.
LEMMA ShowsAtFirst ==
    ASSUME NEW db \in Database, NEW c \in StoreCall
    PROVE  Shows(db, db, c, 1)
  <1>1. ASSUME c.op = "putSources"
        PROVE  SourcesWritten(db.sources, db.sources, c.rows, 1)
    <2>1. c.rows \in Seq([id : SourceIDs, src : Source])
      BY <1>1, CallFields, SQLiteStoreAssumption, Zenon
    <2>2. \A j \in DOMAIN c.rows : ~(j < 1)
      BY <2>1
    <2> QED
      BY <2>2 DEF SourcesWritten
  <1> QED
    BY <1>1 DEF Shows

\* A call of one statement that has not run it has no rows in the copy.
LEMMA NothingShown ==
    ASSUME NEW old, NEW new, NEW c, c.op # "putSources", Shows(old, new, c, 1)
    PROVE  SameRows(old, new)
  <1>1. ~(1 > 1)
    OBVIOUS
  <1> QED
    BY <1>1, Zenon DEF Shows, SameRows

\* PutArtifact's statement.
LEMMA ShowsArtifact ==
    ASSUME NEW old \in Database, NEW work1 \in Database, NEW c \in StoreCall, c.op = "putArtifact",
           Shows(old, work1, c, 1), NEW work2,
           ~ArtifactRefused(work1.artifacts[KeyString[c.key]], c.art),
           work2.artifacts = [work1.artifacts EXCEPT ![KeyString[c.key]] =
                                 ArtifactStored(work1.artifacts[KeyString[c.key]], c.key, c.art)],
           work2.sources = work1.sources, work2.terminals = work1.terminals,
           work2.lifecycles = work1.lifecycles
    PROVE  Shows(old, work2, c, 2)
  <1>1. c.op # "putSources" /\ c.op # "recordTerminal" /\ 2 > 1
    OBVIOUS
  <1>2. SameRows(old, work1)
    BY <1>1, NothingShown, Zenon
  <1>3. ArtifactWritten(old.artifacts, work2.artifacts, c.key, c.art)
    BY <1>2, Zenon DEF ArtifactWritten, SameRows
  <1> QED
    BY <1>1, <1>2, <1>3, Zenon DEF Shows, SameRows

\* RecordNodeTerminal's statement.
LEMMA ShowsTerminal ==
    ASSUME NEW old \in Database, NEW work1 \in Database, NEW c \in StoreCall, c.op = "recordTerminal",
           Shows(old, work1, c, 1), NEW work2,
           ~TerminalRefused(work1.terminals[AttemptString[c.attempt]], c.state),
           work2.terminals = [work1.terminals EXCEPT ![AttemptString[c.attempt]] =
                                 TerminalStored(work1.terminals[AttemptString[c.attempt]], c.attempt, c.state)],
           work2.artifacts = work1.artifacts, work2.sources = work1.sources,
           work2.lifecycles = work1.lifecycles
    PROVE  Shows(old, work2, c, 2)
  <1>1. c.op # "putSources" /\ c.op # "putArtifact" /\ 2 > 1
    OBVIOUS
  <1>2. SameRows(old, work1)
    BY <1>1, NothingShown, Zenon
  <1>3. TerminalWritten(old.terminals, work2.terminals, c.attempt, c.state)
    BY <1>2, Zenon DEF TerminalWritten, SameRows
  <1> QED
    BY <1>1, <1>2, <1>3, Zenon DEF Shows, SameRows

\* PutArtifactSources's statement for row i: no earlier row has its ID, so it met the file's.
LEMMA SourceMet ==
    ASSUME NEW old, NEW new, NEW call \in SourceCalls, NEW i \in DOMAIN call,
           SourcesWritten(old, new, call, i)
    PROVE  new[call[i].id] = old[call[i].id]
  <1>1. \A j \in DOMAIN call : j < i => call[j].id # call[i].id
    <2>1. call \in Seq([id : SourceIDs, src : Source])
      BY SQLiteStoreAssumption, ZenonT(30)
    <2>2. \A j \in DOMAIN call : call[j].id = call[i].id => j = i
      BY SQLiteStoreAssumption
    <2>3. i \in Nat
      BY <2>1
    <2> QED
      BY <2>2, <2>3
  <1>2. call[i].id \in SourceIDs
    BY SourceCallRows
  <1> QED
    BY <1>1, <1>2 DEF SourcesWritten

\* The copy then has the rows up to i.
LEMMA ShowsSource ==
    ASSUME NEW old \in Database, NEW work1 \in Database, NEW c \in StoreCall, c.op = "putSources",
           NEW i \in DOMAIN c.rows, Shows(old, work1, c, i), NEW work2,
           ~SourceRefused(work1.sources[c.rows[i].id], c.rows[i].src),
           work2.sources = [work1.sources EXCEPT ![c.rows[i].id] =
                               SourceStored(work1.sources[c.rows[i].id], c.rows[i].src)],
           work2.artifacts = work1.artifacts, work2.terminals = work1.terminals,
           work2.lifecycles = work1.lifecycles
    PROVE  Shows(old, work2, c, i + 1)
  <1> DEFINE call == c.rows
             was  == old.sources
             mid  == work1.sources
             new  == work2.sources
  <1>1. call \in SourceCalls /\ SourcesWritten(was, mid, call, i)
    BY CallFields, Zenon DEF Shows
  <1>2. call \in Seq([id : SourceIDs, src : Source])
    BY <1>1, SQLiteStoreAssumption, Zenon
  <1>3. /\ i \in Nat /\ \A j \in DOMAIN call : j \in Nat /\ (j < i + 1 <=> j < i \/ j = i)
    BY <1>2
  <1>4. call[i].id \in SourceIDs /\ mid[call[i].id] = was[call[i].id]
    <2>1. i \in DOMAIN call
      OBVIOUS
    <2>2. call[i].id \in SourceIDs
      BY <1>1, <2>1, SourceCallRows, ZenonT(30)
    <2> HIDE DEF call, was, mid
    <2>3. mid[call[i].id] = was[call[i].id]
      BY ONLY <1>1, <2>1, SourceMet
    <2> QED
      BY <2>2, <2>3, Zenon
  <1>5. mid \in [SourceIDs -> StoredSource \cup {None}]
    BY Fields, ZenonT(30)
  <1>6. /\ ~SourceRefused(was[call[i].id], call[i].src)
        /\ new[call[i].id] = SourceStored(was[call[i].id], call[i].src)
        /\ \A id \in SourceIDs : id # call[i].id => new[id] = mid[id]
    BY <1>4, <1>5, ZenonT(30)
  <1>7. \A j \in DOMAIN call : call[j].id = call[i].id => j = i
    BY <1>1, SQLiteStoreAssumption, ZenonT(30)
  <1> HIDE DEF call, was, mid, new
  <1>8. SourcesWritten(was, new, call, i + 1)
    <2> SUFFICES ASSUME NEW id \in SourceIDs
                 PROVE  /\ \A j \in DOMAIN call : (j < i + 1 /\ call[j].id = id) =>
                              /\ ~SourceRefused(was[id], call[j].src)
                              /\ new[id] = SourceStored(was[id], call[j].src)
                        /\ (\A j \in DOMAIN call : j < i + 1 => call[j].id # id) => new[id] = was[id]
      BY ZenonT(30) DEF SourcesWritten
    <2>1. CASE id = call[i].id
      BY <1>3, <1>6, <1>7, <2>1, ZenonT(30) DEF call
    <2>2. CASE id # call[i].id
      BY <1>1, <1>3, <1>6, <2>2, Zenon DEF SourcesWritten
    <2> QED
      BY <2>1, <2>2, ZenonT(30)
  <1> QED
    BY <1>8, Zenon DEF Shows, call, was, new

\* The statement inserts a row where there is none.
LEMMA ShowsInsert ==
    ASSUME NEW old \in Database, NEW copy \in Database, NEW c \in StoreCall, c.op = "putSources",
           NEW i \in DOMAIN c.rows, Shows(old, copy, c, i), copy.sources[c.rows[i].id] = None
    PROVE  Shows(old, [copy EXCEPT !.sources[c.rows[i].id] = SourceRow(c.rows[i].src)], c, i + 1)
  <1> DEFINE id  == c.rows[i].id
             src == c.rows[i].src
             row == SourceRow(src)
             new == [copy EXCEPT !.sources[id] = row]
  <1>1. SourceStored(copy.sources[id], src) = row /\ ~SourceRefused(copy.sources[id], src)
    BY DEF SourceStored, SourceRefused
  <1> HIDE DEF row
  <1>2. /\ new.sources = [copy.sources EXCEPT ![id] = row]
        /\ new.artifacts = copy.artifacts /\ new.terminals = copy.terminals
        /\ new.lifecycles = copy.lifecycles
    BY DEF Database
  <1> HIDE DEF new
  <1>3. Shows(old, new, c, i + 1)
    BY <1>1, <1>2, ShowsSource, ZenonT(30)
  <1> QED
    BY <1>3 DEF new, row

\* The statement updates state and location of the artifact's own row.
LEMMA ShowsUpdate ==
    ASSUME NEW old \in Database, NEW copy \in Database, NEW c \in StoreCall, c.op = "putSources",
           NEW i \in DOMAIN c.rows, Shows(old, copy, c, i), copy.sources[c.rows[i].id] # None,
           copy.sources[c.rows[i].id].artifact_id = KeyString[c.rows[i].src.owner]
    PROVE  Shows(old, [copy EXCEPT !.sources[c.rows[i].id].state = c.rows[i].src.state,
                                   !.sources[c.rows[i].id].loc = c.rows[i].src.loc], c, i + 1)
  <1> DEFINE id  == c.rows[i].id
             src == c.rows[i].src
             was == copy.sources[id]
             row == [was EXCEPT !.state = src.state, !.loc = src.loc]
             new == [copy EXCEPT !.sources[id].state = src.state, !.sources[id].loc = src.loc]
  <1>1. SourceStored(was, src) = row /\ ~SourceRefused(was, src)
    BY DEF SourceStored, SourceRefused
  <1>2. id \in SourceIDs
    BY CallFields, SourceCallRows, ZenonT(30)
  <1> HIDE DEF id, src
  <1>3. new.sources = [copy.sources EXCEPT ![id] = row]
    BY <1>2, Fields, ZenonT(30) DEF Database
  <1>4. /\ new.artifacts = copy.artifacts /\ new.terminals = copy.terminals
        /\ new.lifecycles = copy.lifecycles
    BY DEF Database
  <1> HIDE DEF new, row
  <1>5. Shows(old, new, c, i + 1)
    BY <1>1, <1>3, <1>4, ShowsSource, Zenon DEF id, src
  <1> QED
    BY <1>5 DEF new, id, src

\* A process without a transaction has not got the lock.
LEMMA NotTheOwner ==
    ASSUME DatabaseInv, NEW p \in Processes, proc[p].pc \notin InTransaction
    PROVE  lock # p
  BY Zenon DEF DatabaseInv, ProcessOK

\* The step of a process without a transaction.
LEMMA BystanderKeepsCopy ==
    ASSUME DatabaseInv, CopyInv, NEW p \in Processes, ProcStep(p), lock # p,
           UNCHANGED <<file, lock, work>>
    PROVE  CopyInv'
  <1>1. CASE lock = None
    BY <1>1 DEF CopyInv
  <1>2. CASE lock # None
    <2>1. lock \in Processes
      BY <1>2 DEF DatabaseInv
    <2>2. proc'[lock] = proc[lock]
      BY <2>1 DEF ProcStep
    <2> QED
      BY <1>2, <2>2 DEF CopyInv
  <1> QED
    BY <1>1, <1>2

\* A transaction that ends, and a statement outside of any.
LEMMA EndKeepsCopy ==
    ASSUME lock' = None
    PROVE  CopyInv'
  BY DEF CopyInv

\* After a rollback by the owner there is no copy; to the others it makes no difference.
LEMMA RollbackKeepsCopy ==
    ASSUME DatabaseInv, CopyInv, NEW p \in Processes, ProcStep(p), Rollback(p)
    PROVE  CopyInv'
  <1>1. CASE lock = p
    BY <1>1, EndKeepsCopy DEF Rollback
  <1>2. CASE lock # p
    <2>1. UNCHANGED <<file, lock, work>>
      BY <1>2 DEF Rollback
    <2> QED
      BY <1>2, <2>1, BystanderKeepsCopy
  <1> QED
    BY <1>1, <1>2

\* A statement of the migration.
LEMMA MigrationKeepsCopy ==
    ASSUME DatabaseInv, CopyInv, NEW p \in Processes, lock = p, UNCHANGED <<file, lock>>,
           SameRows(work, work'), proc[p].pc # "tx", proc'[p].pc # "tx"
    PROVE  CopyInv'
  <1>1. lock # None
    BY SQLiteStoreAssumption, ZenonT(30)
  <1>2. SameRows(file, work)
    BY <1>1 DEF CopyInv
  <1> QED
    BY <1>2, ZenonT(30) DEF CopyInv, SameRows

\* sqliteMigrate changes no row, and nothing of any call.
Quiet ==
    /\ SameRows(file, file')
    /\ \A q \in Processes : proc'[q].call = proc[q].call /\ proc'[q].result = proc[q].result

\* A process that only moves on is quiet.
LEMMA GotoQuiet ==
    ASSUME DatabaseInv, NEW p \in Processes, UNCHANGED file,
           NEW pc \in {"down", "serving", "tx", "upsert"} \cup Opening, Goto(p, pc)
    PROVE  Quiet
  BY GotoStep DEF DatabaseInv, Quiet, SameRows, ProcStep

\* A statement of the migration that leaves the rows of the copy alone.
LEMMA ExecCopy ==
    ASSUME DatabaseInv, CopyInv, NEW p \in Processes, lock = p, UNCHANGED <<file, lock>>,
           SameRows(work, work'), proc[p].pc # "tx",
           NEW pc \in Opening, Goto(p, pc)
    PROVE  CopyInv' /\ Quiet
  <1>1. proc'[p].pc = pc /\ pc # "tx"
    BY GotoStep, Zenon DEF DatabaseInv, Opening
  <1> QED
    BY <1>1, MigrationKeepsCopy, GotoQuiet, ZenonT(30)

\* BEGIN IMMEDIATE: the copy is the file.
LEMMA BeginMigrationCopy ==
    ASSUME DatabaseInv, NEW p \in Processes, BeginMigration(p)
    PROVE  CopyInv' /\ Quiet
  <1>1. lock' = p /\ work' = file /\ UNCHANGED file /\ Goto(p, "createTables")
    BY DEF BeginMigration, Begin
  <1>2. proc'[p].pc = "createTables"
    BY <1>1, GotoStep, ZenonT(30) DEF DatabaseInv, Opening
  <1>3. CopyInv'
    BY <1>1, <1>2, ZenonT(30) DEF CopyInv, SameRows
  <1> QED
    BY <1>1, <1>3, GotoQuiet DEF Opening

\* New tables are empty.
LEMMA CreateTablesCopy ==
    ASSUME DatabaseInv, CopyInv, NEW p \in Processes, CreateTables(p)
    PROVE  CopyInv' /\ Quiet
  <1>1. /\ proc[p].pc = "createTables" /\ lock = p /\ UNCHANGED <<file, lock>>
        /\ Goto(p, "checkVersion")
        /\ work' = [work EXCEPT !.tables = Tables,
                                !.columns = @ \cup {c \in Columns : c[1] \notin work.tables}]
    BY DEF CreateTables, Exec, At
  <1>2. work \in Database
    BY <1>1, Migrating, Zenon
  <1>3. SameRows(work, work')
    BY <1>1, <1>2 DEF Database, SameRows
  <1> QED
    BY <1>1, <1>3, ExecCopy, Zenon DEF Opening

\* A new column gives no row a RunID.
LEMMA AddRunIDColumnsCopy ==
    ASSUME DatabaseInv, CopyInv, NEW p \in Processes, AddRunIDColumns(p)
    PROVE  CopyInv' /\ Quiet
  <1>1. /\ proc[p].pc = "addColumns" /\ lock = p /\ UNCHANGED <<file, lock>>
        /\ Goto(p, IF work.version = "" THEN "disposition" ELSE "commit")
        /\ work' = [work EXCEPT !.columns = @ \cup RunIDColumns]
    BY Zenon DEF AddRunIDColumns, Exec, At
  <1>2. work \in Database
    BY <1>1, Migrating, Zenon
  <1>3. SameRows(work, work')
    BY <1>1, <1>2, Zenon DEF Database, SameRows
  <1> QED
    BY <1>1, <1>3, ExecCopy, Zenon DEF Opening

\* The counts of legacy rows are in a table of their own.
LEMMA RecordDispositionCopy ==
    ASSUME DatabaseInv, CopyInv, NEW p \in Processes, RecordDisposition(p)
    PROVE  CopyInv' /\ Quiet
  <1>1. /\ proc[p].pc = "disposition" /\ lock = p /\ UNCHANGED <<file, lock>> /\ Goto(p, "stamp")
        /\ work' = [work EXCEPT !.counts = LegacyCounts(work)]
    BY DEF RecordDisposition, Exec, At
  <1>2. work \in Database
    BY <1>1, Migrating, Zenon
  <1>3. SameRows(work, work')
    BY <1>1, <1>2 DEF Database, SameRows
  <1> QED
    BY <1>1, <1>3, ExecCopy DEF Opening

\* The version is in a table of its own.
LEMMA StampVersionCopy ==
    ASSUME DatabaseInv, CopyInv, NEW p \in Processes, StampVersion(p)
    PROVE  CopyInv' /\ Quiet
  <1>1. /\ proc[p].pc = "stamp" /\ lock = p /\ UNCHANGED <<file, lock>> /\ Goto(p, "commit")
        /\ work' = [work EXCEPT !.version = "2"]
    BY DEF StampVersion, Exec, At
  <1>2. work \in Database
    BY <1>1, Migrating, Zenon
  <1>3. SameRows(work, work')
    BY <1>1, <1>2 DEF Database, SameRows
  <1> QED
    BY <1>1, <1>3, ExecCopy DEF Opening

\* p's call ends without effect on the file, and p is told r.
Told(p, r) ==
    /\ UNCHANGED file
    /\ ProcStep(p)
    /\ proc'[p].call = None
    /\ proc'[p].result = r

\* A process that goes down takes its call with it.
LEMMA DownCopy ==
    ASSUME DatabaseInv, CopyInv, NEW p \in Processes, proc' = [proc EXCEPT ![p] = Down],
           Rollback(p) \/ (lock # p /\ UNCHANGED <<file, lock, work>>)
    PROVE  CopyInv' /\ Told(p, "none")
  <1>1. ProcStep(p) /\ proc'[p].call = None /\ proc'[p].result = "none"
    BY DownStep, ZenonT(30) DEF DatabaseInv
  <1>2. UNCHANGED file
    BY DEF Rollback
  <1>3. CopyInv'
    BY <1>1, RollbackKeepsCopy, BystanderKeepsCopy
  <1> QED
    BY <1>1, <1>2, <1>3 DEF Told

\* The check reads only; a refusal ends the process.
LEMMA CheckVersionCopy ==
    ASSUME DatabaseInv, CopyInv, NEW p \in Processes, CheckVersion(p)
    PROVE  CopyInv' /\ (Quiet \/ Told(p, "none"))
  <1>1. CASE Goto(p, "addColumns") /\ UNCHANGED <<file, lock, work>>
    <2>1. proc[p].pc = "checkVersion" /\ lock = p
      BY Zenon DEF CheckVersion, At, DatabaseInv, ProcessOK, InTransaction, Opening
    <2>2. SameRows(work, work')
      BY <1>1 DEF SameRows
    <2> QED
      BY <1>1, <2>1, <2>2, ExecCopy DEF Opening
  <1>2. CASE Rollback(p) /\ proc' = [proc EXCEPT ![p] = Down]
    BY <1>2, DownCopy, Zenon
  <1> QED
    BY <1>1, <1>2, Zenon DEF CheckVersion

\* The commit of the migration shows the rows the file had.
LEMMA CommitMigrationCopy ==
    ASSUME DatabaseInv, CopyInv, NEW p \in Processes, CommitMigration(p)
    PROVE  CopyInv' /\ Quiet
  <1>1. /\ proc[p].pc = "commit" /\ lock = p /\ file' = work /\ lock' = None
        /\ proc' = [proc EXCEPT ![p].pc = "alter", ![p].next = 1]
    BY DEF CommitMigration, Commit, At
  <1>2. SameRows(file, work)
    BY <1>1, SQLiteStoreAssumption DEF CopyInv
  <1>3. \A q \in Processes : proc'[q].call = proc[q].call /\ proc'[q].result = proc[q].result
    BY <1>1 DEF DatabaseInv, Process
  <1> QED
    BY <1>1, <1>2, <1>3, EndKeepsCopy, Zenon DEF Quiet

\* A column added outside the transaction changes no row.
LEMMA AlterAddColumnCopy ==
    ASSUME DatabaseInv, NEW p \in Processes, AlterAddColumn(p)
    PROVE  CopyInv' /\ Quiet
  <1>1. /\ lock' = None /\ file' = [file EXCEPT !.columns = @ \cup {AlterTable[proc[p].next]}]
        /\ \/ proc' = [proc EXCEPT ![p].pc = "serving", ![p].next = 0]
           \/ proc' = [proc EXCEPT ![p].next = @ + 1]
    BY DEF AlterAddColumn, ExecAutocommit
  <1>2. SameRows(file, file')
    BY <1>1, Zenon DEF DatabaseInv, Readable, Database, SameRows
  <1>3. \A q \in Processes : proc'[q].call = proc[q].call /\ proc'[q].result = proc[q].result
    BY <1>1 DEF DatabaseInv, Process
  <1> QED
    BY <1>1, <1>2, <1>3, EndKeepsCopy DEF Quiet

\* A process that cannot open the file goes down.
LEMMA OpenTimeoutCopy ==
    ASSUME DatabaseInv, CopyInv, NEW p \in Processes, OpenTimeout(p)
    PROVE  CopyInv' /\ Told(p, "none")
  BY DownCopy, Zenon DEF OpenTimeout

\* The death of a process ends its call without effect.
LEMMA ProcessEndsCopy ==
    ASSUME DatabaseInv, CopyInv, NEW p \in Processes, ProcessEnds(p)
    PROVE  CopyInv' /\ Told(p, "none")
  BY DownCopy, ZenonT(30) DEF ProcessEnds

\* A process that starts to open the file is quiet.
LEMMA OpenStoreCopy ==
    ASSUME DatabaseInv, CopyInv, NEW p \in Processes, OpenStore(p)
    PROVE  CopyInv' /\ Quiet
  <1>1. proc[p].pc = "down" /\ Goto(p, "begin") /\ UNCHANGED <<file, lock, work>>
    BY DEF OpenStore, At
  <1>2. lock # p
    BY <1>1, NotTheOwner DEF InTransaction, Opening
  <1>3. ProcStep(p)
    BY <1>1, GotoStep, ZenonT(30) DEF DatabaseInv, Opening
  <1> QED
    BY <1>1, <1>2, <1>3, BystanderKeepsCopy, GotoQuiet DEF Opening

\* What opening a store does to the copy and to what callers see: nothing, except that a
\* process that gives up has no result.
LEMMA OpenStepCopy ==
    ASSUME DatabaseInv, CopyInv, NEW p \in Processes, OpenStep(p)
    PROVE  CopyInv' /\ (Quiet \/ Told(p, "none"))
  BY BeginMigrationCopy, CreateTablesCopy, CheckVersionCopy, AddRunIDColumnsCopy, RecordDispositionCopy,
     StampVersionCopy, CommitMigrationCopy, AlterAddColumnCopy, OpenTimeoutCopy DEF OpenStep

-----------------------------------------------------------------------------
(* The copy in a call.                                                      *)

\* p makes the call c.
Made(p, c) ==
    /\ UNCHANGED file
    /\ proc[p].call = None
    /\ ProcStep(p)
    /\ proc'[p].call = c
    /\ proc'[p].result = "none"

\* A call in a transaction is made when it has the lock.
LEMMA BeginCallCopy ==
    ASSUME DatabaseInv, CopyInv, NEW p \in Processes, NEW c \in StoreCall, BeginCall(p, c)
    PROVE  CopyInv' /\ Made(p, c)
  <1>1. /\ proc[p].pc = "serving" /\ lock' = p /\ work' = file /\ UNCHANGED file
        /\ proc' = [proc EXCEPT ![p].pc = "tx", ![p].next = 1, ![p].call = c, ![p].result = "none"]
    BY DEF BeginCall, Begin, At
  <1>2. proc \in [Processes -> Process] /\ file \in Database /\ proc[p].call = None
    BY <1>1, Serving DEF ProcessOK
  <1>3. /\ ProcStep(p) /\ proc'[p].pc = "tx" /\ proc'[p].next = 1
        /\ proc'[p].call = c /\ proc'[p].result = "none"
    BY <1>1, <1>2, InTxStep, ZenonT(30)
  <1>4. Shows(file, file, c, 1)
    BY <1>2, ShowsAtFirst
  <1>5. CopyInv'
    BY <1>1, <1>3, <1>4 DEF CopyInv
  <1> QED
    BY <1>1, <1>2, <1>3, <1>5 DEF Made

\* An upsert of a lifecycle is made before its statement runs.
LEMMA CallUpsertCopy ==
    ASSUME DatabaseInv, CopyInv, NEW p \in Processes, NEW c \in StoreCall, CallUpsert(p, c)
    PROVE  CopyInv' /\ Made(p, c)
  <1>1. /\ proc[p].pc = "serving" /\ UNCHANGED <<file, lock, work>>
        /\ proc' = [proc EXCEPT ![p].pc = "upsert", ![p].call = c, ![p].result = "none"]
    BY DEF CallUpsert, At
  <1>2. proc \in [Processes -> Process] /\ proc[p].call = None /\ lock # p
    BY <1>1, Serving DEF ProcessOK
  <1>3. ProcStep(p) /\ proc'[p].call = c /\ proc'[p].result = "none"
    BY <1>1, <1>2, InUpsertStep, Zenon
  <1>4. CopyInv'
    BY <1>1, <1>2, <1>3, BystanderKeepsCopy
  <1> QED
    BY <1>1, <1>2, <1>3, <1>4 DEF Made

\* A process in the transaction of a call: its copy shows the call's rows so far.
LEMMA InCallCopy ==
    ASSUME DatabaseInv, CopyInv, NEW p \in Processes, At(p, "tx")
    PROVE  /\ proc \in [Processes -> Process] /\ proc[p].pc = "tx" /\ lock = p
           /\ proc[p].call \in StoreCall /\ proc[p].next \in Nat /\ proc[p].next > 0
           /\ file \in Database /\ OfOneKind(file) /\ work \in Database /\ OfOneKind(work)
           /\ Shows(file, work, proc[p].call, proc[p].next)
  <1>1. /\ proc \in [Processes -> Process] /\ proc[p].pc = "tx" /\ lock = p
        /\ proc[p].call \in StoreCall /\ proc[p].next \in Nat /\ proc[p].next > 0
        /\ work \in Database /\ OfOneKind(work) /\ file.version = "2"
    BY InCall, ZenonT(30) DEF ProcessOK
  <1>2. file \in Database /\ OfOneKind(file)
    BY <1>1 DEF DatabaseInv, Readable
  <1>3. Shows(file, work, proc[p].call, proc[p].next)
    BY <1>1, SQLiteStoreAssumption, ZenonT(30) DEF CopyInv
  <1> QED
    BY <1>1, <1>2, <1>3

\* A call that ends without a commit leaves the file as it was.
LEMMA EndCallCopy ==
    ASSUME DatabaseInv, CopyInv, NEW p \in Processes, NEW res \in {"ok", "refused", "failed"},
           EndCall(p, res), Rollback(p) \/ (lock # p /\ UNCHANGED <<file, lock, work>>)
    PROVE  CopyInv' /\ Told(p, res)
  <1>1. ProcStep(p) /\ proc'[p].call = None /\ proc'[p].result = res
    BY EndCallStep, Zenon DEF DatabaseInv
  <1>2. UNCHANGED file
    BY DEF Rollback
  <1>3. CopyInv'
    BY <1>1, RollbackKeepsCopy, BystanderKeepsCopy, ZenonT(30)
  <1> QED
    BY <1>1, <1>2, <1>3, ZenonT(30) DEF Told

\* A statement that is not refused is quiet: only the copy has its row.
LEMMA NextStatementCopy ==
    ASSUME DatabaseInv, CopyInv, NEW p \in Processes, At(p, "tx"), UNCHANGED <<file, lock>>,
           NextStatement(p), Shows(file, work', proc[p].call, proc[p].next + 1)
    PROVE  CopyInv' /\ Quiet
  <1>1. proc \in [Processes -> Process] /\ proc[p].pc = "tx" /\ lock = p
    BY InCallCopy
  <1>2. /\ ProcStep(p) /\ proc'[p].pc = "tx" /\ proc'[p].next = proc[p].next + 1
        /\ proc'[p].call = proc[p].call /\ proc'[p].result = proc[p].result
    BY <1>1, NextStatementStep, ZenonT(30)
  <1>3. CopyInv'
    BY <1>1, <1>2, ZenonT(30) DEF CopyInv
  <1>4. Quiet
    BY <1>2, ZenonT(30) DEF Quiet, SameRows, ProcStep
  <1> QED
    BY <1>3, <1>4, ZenonT(30)

\* PutArtifact's statement: the row it reads in the copy, and may refuse, is the file's.
LEMMA ExecPutArtifactCopy ==
    ASSUME DatabaseInv, CopyInv, NEW p \in Processes, ExecPutArtifact(p)
    PROVE  /\ CopyInv'
           /\ \/ Quiet
              \/ /\ Told(p, "refused") /\ proc[p].call.op = "putArtifact"
                 /\ ArtifactRefused(file.artifacts[KeyString[proc[p].call.key]], proc[p].call.art)
  <1> DEFINE c   == proc[p].call
             key == KeyString[c.key]
             old == work.artifacts[key]
             put == [run_id |-> IF old = None THEN c.key.run ELSE old.run_id,
                     artifact_id |-> key, art |-> c.art]
  <1>1. At(p, "tx") /\ c.op = "putArtifact" /\ proc[p].next = 1
    BY Zenon DEF ExecPutArtifact, Calling
  <1>2. /\ c \in StoreCall /\ file \in Database /\ work \in Database /\ Shows(file, work, c, 1)
    BY <1>1, InCallCopy, ZenonT(30)
  <1>3. c.key \in ArtifactKey /\ key \in ArtifactRows
    BY <1>1, <1>2, CallFields, KeysOfRuns, ZenonT(30)
  <1>4. work.artifacts = file.artifacts /\ proc[p].next + 1 = 2
    <2>1. c.op # "putSources" /\ proc[p].next + 1 = 2
      BY <1>1
    <2>2. SameRows(file, work)
      BY <1>2, <2>1, NothingShown, Zenon
    <2> QED
      BY <2>1, <2>2, Zenon DEF SameRows
  <1>5. CASE ArtifactRefused(old, c.art) /\ Refuse(p)
    BY <1>1, <1>4, <1>5, EndCallCopy, ZenonT(30) DEF Refuse
  <1>6. ASSUME ~ArtifactRefused(old, c.art), UNCHANGED <<file, lock>>, NextStatement(p),
               work'.artifacts = [work.artifacts EXCEPT ![key] = ArtifactStored(old, c.key, c.art)],
               work'.sources = work.sources, work'.terminals = work.terminals,
               work'.lifecycles = work.lifecycles
        PROVE  CopyInv' /\ Quiet
    <2>1. Shows(file, work', c, 2)
      BY <1>1, <1>2, <1>6, ShowsArtifact, ZenonT(30)
    <2>2. Shows(file, work', c, proc[p].next + 1)
      BY <1>4, <2>1, Zenon
    <2> QED
      BY <1>1, <1>6, <2>2, NextStatementCopy, ZenonT(30)
  <1>7. CASE HasDigest(old) /\ ~ArtifactRefused(old, c.art) /\ NextStatement(p)
             /\ UNCHANGED <<file, lock, work>>
    <2>1. ArtifactStored(old, c.key, c.art) = old
      BY <1>7, ZenonT(30) DEF ArtifactStored
    <2>2. work.artifacts \in [ArtifactRows -> StoredArtifact \cup {None}]
      BY <1>2, Fields, ZenonT(30)
    <2>3. work.artifacts = [work.artifacts EXCEPT ![key] = old]
      BY <1>3, <2>2, ZenonT(30)
    <2> QED
      BY <1>6, <1>7, <2>1, <2>3, ZenonT(30)
  <1>8. CASE ~HasDigest(old) /\ Exec(p, [work EXCEPT !.artifacts[key] = put]) /\ NextStatement(p)
    <2>1. ArtifactStored(old, c.key, c.art) = put /\ ~ArtifactRefused(old, c.art)
      BY <1>8, Zenon DEF ArtifactStored, ArtifactRefused
    <2> HIDE DEF put
    <2>2. work' = [work EXCEPT !.artifacts[key] = put] /\ UNCHANGED <<file, lock>>
      BY <1>8 DEF Exec
    <2>3. /\ work'.artifacts = [work.artifacts EXCEPT ![key] = put]
          /\ work'.sources = work.sources /\ work'.terminals = work.terminals
          /\ work'.lifecycles = work.lifecycles
      BY <1>2, <2>2 DEF Database
    <2> QED
      BY <1>6, <1>8, <2>1, <2>2, <2>3, ZenonT(30)
  <1> QED
    BY <1>1, <1>5, <1>7, <1>8, ZenonT(30) DEF ExecPutArtifact, ArtifactRefused

\* RecordNodeTerminal's statement: the row it meets in the copy is the file's.
LEMMA ExecRecordNodeTerminalCopy ==
    ASSUME DatabaseInv, CopyInv, NEW p \in Processes, ExecRecordNodeTerminal(p)
    PROVE  /\ CopyInv'
           /\ \/ Quiet
              \/ /\ Told(p, "refused") /\ proc[p].call.op = "recordTerminal"
                 /\ TerminalRefused(file.terminals[AttemptString[proc[p].call.attempt]], proc[p].call.state)
  <1> DEFINE c   == proc[p].call
             n   == c.attempt
             key == AttemptString[n]
             old == work.terminals[key]
             put == [run_id |-> n.run, state |-> c.state]
  <1>1. At(p, "tx") /\ c.op = "recordTerminal" /\ proc[p].next = 1
    BY ZenonT(30) DEF ExecRecordNodeTerminal, Calling
  <1>2. /\ c \in StoreCall /\ file \in Database /\ work \in Database /\ Shows(file, work, c, 1)
    BY <1>1, InCallCopy, ZenonT(30)
  <1>3. n \in NodeAttemptKey /\ key \in TerminalRows
    BY <1>1, <1>2, CallFields, AttemptsOfRuns, ZenonT(30)
  <1>4. work.terminals = file.terminals /\ proc[p].next + 1 = 2
    <2>1. c.op # "putSources" /\ proc[p].next + 1 = 2
      BY <1>1
    <2>2. SameRows(file, work)
      BY <1>2, <2>1, NothingShown, Zenon
    <2> QED
      BY <2>1, <2>2, Zenon DEF SameRows
  <1>5. CASE TerminalRefused(old, c.state) /\ Refuse(p)
    BY <1>1, <1>4, <1>5, EndCallCopy, ZenonT(30) DEF Refuse
  <1>6. ASSUME ~TerminalRefused(old, c.state), UNCHANGED <<file, lock>>, NextStatement(p),
               work'.terminals = [work.terminals EXCEPT ![key] = TerminalStored(old, n, c.state)],
               work'.artifacts = work.artifacts, work'.sources = work.sources,
               work'.lifecycles = work.lifecycles
        PROVE  CopyInv' /\ Quiet
    <2>1. Shows(file, work', c, 2)
      BY <1>1, <1>2, <1>6, ShowsTerminal, Zenon
    <2>2. Shows(file, work', c, proc[p].next + 1)
      BY <1>4, <2>1, Zenon
    <2> QED
      BY <1>1, <1>6, <2>2, NextStatementCopy, ZenonT(30)
  <1>7. CASE old # None /\ ~TerminalRefused(old, c.state) /\ NextStatement(p)
             /\ UNCHANGED <<file, lock, work>>
    <2>1. TerminalStored(old, n, c.state) = old
      BY <1>7, ZenonT(30) DEF TerminalStored
    <2>2. work.terminals \in [TerminalRows -> StoredTerminal \cup {None}]
      BY <1>2, Fields, ZenonT(30)
    <2>3. work.terminals = [work.terminals EXCEPT ![key] = old]
      BY <1>3, <2>2, ZenonT(30)
    <2> QED
      BY <1>6, <1>7, <2>1, <2>3, ZenonT(30)
  <1>8. CASE old = None /\ Exec(p, [work EXCEPT !.terminals[key] = put]) /\ NextStatement(p)
    <2>1. TerminalStored(old, n, c.state) = put /\ ~TerminalRefused(old, c.state)
      BY <1>8 DEF TerminalStored, TerminalRefused
    <2> HIDE DEF put
    <2>2. work' = [work EXCEPT !.terminals[key] = put] /\ UNCHANGED <<file, lock>>
      BY <1>8 DEF Exec
    <2>3. /\ work'.terminals = [work.terminals EXCEPT ![key] = put]
          /\ work'.artifacts = work.artifacts /\ work'.sources = work.sources
          /\ work'.lifecycles = work.lifecycles
      BY <1>2, <2>2 DEF Database
    <2> QED
      BY <1>6, <1>8, <2>1, <2>2, <2>3
  <1> QED
    BY <1>1, <1>5, <1>7, <1>8, ZenonT(30) DEF ExecRecordNodeTerminal, TerminalRefused

\* A statement of PutArtifactSources: the row it meets, and may refuse, is the file's.
LEMMA ExecPutSourceCopy ==
    ASSUME DatabaseInv, CopyInv, NEW p \in Processes, ExecPutSource(p)
    PROVE  /\ CopyInv'
           /\ \/ Quiet
              \/ /\ Told(p, "refused") /\ proc[p].call.op = "putSources"
                 /\ \E i \in DOMAIN proc[p].call.rows :
                       SourceRefused(file.sources[proc[p].call.rows[i].id], proc[p].call.rows[i].src)
  <1> DEFINE c   == proc[p].call
             i   == proc[p].next
             q   == c.rows[i]
             old == work.sources[q.id]
             ins == [work EXCEPT !.sources[q.id] = SourceRow(q.src)]
             upd == [work EXCEPT !.sources[q.id].state = q.src.state, !.sources[q.id].loc = q.src.loc]
  <1>1. At(p, "tx") /\ c.op = "putSources" /\ i <= Len(c.rows)
    BY Zenon DEF ExecPutSource, Calling
  <1>2. \/ old = None /\ Exec(p, ins) /\ NextStatement(p)
        \/ old # None /\ old.artifact_id = KeyString[q.src.owner] /\ Exec(p, upd) /\ NextStatement(p)
        \/ old # None /\ old.artifact_id # KeyString[q.src.owner] /\ Refuse(p)
    BY Zenon DEF ExecPutSource
  <1>3. /\ c \in StoreCall /\ i \in Nat /\ i > 0
        /\ file \in Database /\ work \in Database /\ Shows(file, work, c, i)
    BY <1>1, InCallCopy, ZenonT(30)
  <1>4. ASSUME NextStatement(p), UNCHANGED <<file, lock>>, Shows(file, work', c, i + 1)
        PROVE  CopyInv' /\ Quiet
    BY <1>1, <1>4, NextStatementCopy
  <1>5. ASSUME Refuse(p) PROVE CopyInv' /\ Told(p, "refused")
    BY <1>5, EndCallCopy DEF Refuse
  <1> HIDE DEF c, i
  <1>6. c.rows \in SourceCalls /\ i \in DOMAIN c.rows
    BY <1>1, <1>3, CallFields, SQLiteStoreAssumption
  <1> HIDE DEF ins, upd
  <1>7. CASE old = None /\ Exec(p, ins) /\ NextStatement(p)
    <2>1. Shows(file, ins, c, i + 1)
      BY <1>1, <1>3, <1>6, <1>7, ShowsInsert DEF ins
    <2> QED
      BY <1>4, <1>7, <2>1, ZenonT(30) DEF Exec
  <1>8. CASE old # None /\ old.artifact_id = KeyString[q.src.owner] /\ Exec(p, upd) /\ NextStatement(p)
    <2> DEFINE db   == file
               copy == work
    <2>1. /\ db \in Database /\ copy \in Database /\ c \in StoreCall /\ c.op = "putSources"
          /\ i \in DOMAIN c.rows /\ Shows(db, copy, c, i) /\ copy.sources[c.rows[i].id] # None
          /\ copy.sources[c.rows[i].id].artifact_id = KeyString[c.rows[i].src.owner]
      BY <1>1, <1>3, <1>6, <1>8, Zenon
    <2> HIDE DEF db, copy
    <2>2. Shows(db, [copy EXCEPT !.sources[c.rows[i].id].state = c.rows[i].src.state,
                                 !.sources[c.rows[i].id].loc = c.rows[i].src.loc], c, i + 1)
      BY ONLY <2>1, ShowsUpdate, ZenonT(30)
    <2>3. Shows(file, upd, c, i + 1)
      BY <2>2, SMTT(30) DEF upd, db, copy
    <2> QED
      BY <1>4, <1>8, <2>3, ZenonT(30) DEF Exec
  <1>9. CASE old # None /\ old.artifact_id # KeyString[q.src.owner] /\ Refuse(p)
    <2>1. SourcesWritten(file.sources, work.sources, c.rows, i) /\ SourceRefused(old, q.src)
      BY <1>1, <1>3, <1>9, ZenonT(30) DEF Shows, SourceRefused
    <2>2. old = file.sources[q.id]
      <3> DEFINE call == c.rows
                 was  == file.sources
                 mid  == work.sources
      <3>1. call \in SourceCalls /\ i \in DOMAIN call /\ SourcesWritten(was, mid, call, i)
        BY <1>6, <2>1
      <3> HIDE DEF call, was, mid
      <3>2. mid[call[i].id] = was[call[i].id]
        BY ONLY <3>1, SourceMet
      <3> QED
        BY <3>2, ZenonT(30) DEF call, was, mid
    <2>3. SourceRefused(file.sources[c.rows[i].id], c.rows[i].src)
      BY <2>1, <2>2
    <2> QED
      BY <1>1, <1>5, <1>6, <1>9, <2>3, ZenonT(30) DEF c
  <1> HIDE DEF q, old
  <1> QED
    BY <1>2, <1>7, <1>8, <1>9, ZenonT(60)

\* The commit of a call: its rows appear in the file, and its caller is told so.
Took(p) ==
    /\ proc[p].call \in StoreCall /\ proc[p].call.op # "upsertLifecycle"
    /\ file \in Database /\ OfOneKind(file) /\ file' \in Database /\ OfOneKind(file')
    /\ proc[p].next \in Nat /\ proc[p].next > StatementsOf(proc[p].call)
    /\ Shows(file, file', proc[p].call, proc[p].next)
    /\ ProcStep(p) /\ proc'[p].call = None /\ proc'[p].result = "ok"

\* A commit shows the rows of all statements of the call at once.
LEMMA CommitCallCopy ==
    ASSUME DatabaseInv, CopyInv, NEW p \in Processes, CommitCall(p)
    PROVE  CopyInv' /\ Took(p)
  <1>1. At(p, "tx") /\ proc[p].next > StatementsOf(proc[p].call) /\ Commit(p) /\ EndCall(p, "ok")
    BY DEF CommitCall
  <1>2. /\ proc \in [Processes -> Process] /\ proc[p].call \in StoreCall /\ proc[p].next \in Nat
        /\ file \in Database /\ OfOneKind(file) /\ work \in Database /\ OfOneKind(work)
        /\ Shows(file, work, proc[p].call, proc[p].next)
    BY <1>1, InCallCopy
  <1>3. proc[p].call.op # "upsertLifecycle"
    BY <1>1, InCall, ZenonT(30) DEF ProcessOK
  <1>4. ProcStep(p) /\ proc'[p].call = None /\ proc'[p].result = "ok"
    BY <1>1, <1>2, EndCallStep, ZenonT(30)
  <1>5. file' = work /\ lock' = None
    BY <1>1, ZenonT(30) DEF Commit
  <1> QED
    BY <1>1, <1>2, <1>3, <1>4, <1>5, EndKeepsCopy, ZenonT(30) DEF Took

\* A store error ends the call without effect.
LEMMA AbortCallCopy ==
    ASSUME DatabaseInv, CopyInv, NEW p \in Processes, AbortCall(p)
    PROVE  CopyInv' /\ Told(p, "failed")
  BY EndCallCopy DEF AbortCall

\* A call that does not get the lock ends without effect.
LEMMA CallTimeoutCopy ==
    ASSUME DatabaseInv, CopyInv, NEW p \in Processes, CallTimeout(p)
    PROVE  CopyInv' /\ Told(p, "failed")
  <1>1. proc[p].pc \in {"serving", "upsert"} /\ UNCHANGED <<file, lock, work>> /\ EndCall(p, "failed")
    BY DEF CallTimeout
  <1>2. lock # p
    BY <1>1, Serving
  <1> QED
    BY <1>1, <1>2, EndCallCopy

\* The upsert replaces the row of its Run in the file, in one step.
LEMMA UpsertRunLifecycleCopy ==
    ASSUME DatabaseInv, CopyInv, NEW p \in Processes, UpsertRunLifecycle(p)
    PROVE  LET c == proc[p].call
           IN  /\ CopyInv'
               /\ c \in StoreCall /\ c.op = "upsertLifecycle" /\ file \in Database
               /\ file' = [file EXCEPT !.lifecycles[c.run] = c.row]
               /\ ProcStep(p) /\ proc'[p].call = None /\ proc'[p].result = "ok"
  <1> DEFINE c == proc[p].call
  <1>1. /\ proc[p].pc = "upsert" /\ lock = None /\ UNCHANGED lock /\ EndCall(p, "ok")
        /\ file' = [file EXCEPT !.lifecycles[c.run] = c.row]
    BY DEF UpsertRunLifecycle, ExecAutocommit, At
  <1>2. proc \in [Processes -> Process] /\ ProcessOK(p) /\ file \in Database
    BY <1>1, Serving
  <1>3. c \in StoreCall /\ c.op = "upsertLifecycle"
    BY <1>1, <1>2 DEF ProcessOK, At
  <1>4. ProcStep(p) /\ proc'[p].call = None /\ proc'[p].result = "ok"
    BY <1>1, <1>2, EndCallStep
  <1> QED
    BY <1>1, <1>2, <1>3, <1>4, EndKeepsCopy

\* At first there is no copy.
LEMMA CopyInvInit == DatabaseInit => CopyInv
  BY DEF DatabaseInit, MigrationInit, CopyInv
=============================================================================
