--------------------------- MODULE Version_proofs ---------------------------
(***************************************************************************)
(* The two ways to compare versions are one total order.                   *)
(***************************************************************************)
EXTENDS Version, TLAPS

LEMMA VersionParts ==
  ASSUME NEW v \in Versions
  PROVE  v.major \in Nat /\ v.minor \in Nat /\ v.minor <= 255 /\ v.micro \in Nat
  BY DEF Versions

(* GDF_VERSION_CHECK() orders versions: of two, one is at least the other, *)
(* both are only when they are the same, and what is at least a version is *)
(* at least whatever that one is at least.                                 *)
THEOREM VersionsAreOrdered ==
  ASSUME NEW u \in Versions, NEW v \in Versions, NEW w \in Versions
  PROVE  /\ GDF_VERSION_CHECK(u, v) \/ GDF_VERSION_CHECK(v, u)
         /\ GDF_VERSION_CHECK(u, v) /\ GDF_VERSION_CHECK(v, u) => u = v
         /\ GDF_VERSION_CHECK(u, v) /\ GDF_VERSION_CHECK(v, w) => GDF_VERSION_CHECK(u, w)
<1>1. GDF_VERSION_CHECK(u, v) \/ GDF_VERSION_CHECK(v, u)
  BY VersionParts DEF GDF_VERSION_CHECK
<1>2. ASSUME GDF_VERSION_CHECK(u, v), GDF_VERSION_CHECK(v, u) PROVE u = v
  <2>1. u.major = v.major /\ u.minor = v.minor /\ u.micro = v.micro
    BY <1>2, VersionParts DEF GDF_VERSION_CHECK
  <2> QED
    BY <2>1 DEF Versions
<1>3. ASSUME GDF_VERSION_CHECK(u, v), GDF_VERSION_CHECK(v, w) PROVE GDF_VERSION_CHECK(u, w)
  BY <1>3, VersionParts DEF GDF_VERSION_CHECK
<1> QED
  BY <1>1, <1>2, <1>3

(* One number of two parts compares as the two parts do.                   *)
LEMMA EncodingOrders ==
  ASSUME NEW v \in Versions, NEW w \in Versions
  PROVE  GDF_VERSION(v) < GDF_VERSION(w)
            <=> v.major < w.major \/ (v.major = w.major /\ v.minor < w.minor)
<1>1. CASE v.major < w.major
  <2>1. v.major * 65536 + 65536 <= w.major * 65536
    BY <1>1, VersionParts
  <2> QED
    BY <1>1, <2>1, VersionParts DEF GDF_VERSION, G_ENCODE_VERSION
<1>2. CASE v.major = w.major
  BY <1>2, VersionParts DEF GDF_VERSION, G_ENCODE_VERSION
<1>3. CASE v.major > w.major
  <2>1. w.major * 65536 + 65536 <= v.major * 65536
    BY <1>3, VersionParts
  <2> QED
    BY <1>3, <2>1, VersionParts DEF GDF_VERSION, G_ENCODE_VERSION
<1> QED
  BY <1>1, <1>2, <1>3, VersionParts

(* A program that defines none of the macros may use exactly the functions *)
(* that the headers' version has: availability agrees with what            *)
(* GDF_VERSION_CHECK() tells of the version that introduced them.          *)
THEOREM AvailabilityIsVersionCheck ==
  ASSUME NEW v \in Versions, NEW w \in Versions
  PROVE  ~Unavailable(w, DefaultOf(v)) <=> GDF_VERSION_CHECK(v, Introduction(w))
<1>1. /\ Introduction(w).major = w.major
      /\ Introduction(w).minor = w.minor
      /\ Introduction(w).micro = 0
  BY DEF Introduction, Versions
<1>2. DefaultOf(v) = GDF_VERSION(v)
  BY DEF DefaultOf, GDF_VERSION
<1> QED
  BY <1>1, <1>2, EncodingOrders, VersionParts DEF Unavailable, GDF_VERSION_CHECK

(* For a program that allows no less than it requires, no function is      *)
(* reported as deprecated and as not yet available at once.                *)
THEOREM DeprecatedIsAvailable ==
  ASSUME NEW v \in Versions, NEW u \in Versions, NEW w \in Versions,
         GDF_VERSION_CHECK(u, v)
  PROVE  Deprecated(w, DefaultOf(v)) => ~Unavailable(w, DefaultOf(u))
<1>1. DefaultOf(v) = GDF_VERSION(v) /\ DefaultOf(u) = GDF_VERSION(u)
  BY DEF DefaultOf, GDF_VERSION
<1>2. /\ GDF_VERSION(v) \in Nat
      /\ GDF_VERSION(u) \in Nat
      /\ GDF_VERSION(w) \in Nat
  BY VersionParts DEF GDF_VERSION, G_ENCODE_VERSION
<1>3. ~(GDF_VERSION(u) < GDF_VERSION(v))
  BY EncodingOrders, VersionParts DEF GDF_VERSION_CHECK
<1> QED
  BY <1>1, <1>2, <1>3 DEF Deprecated, Unavailable
=============================================================================
