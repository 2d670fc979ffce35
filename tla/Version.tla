------------------------------ MODULE Version -------------------------------
(***************************************************************************)
(* The macros of datafusion-glib/version.h.in, which the C preprocessor    *)
(* evaluates where the headers are included.  A version is compared in two *)
(* ways: GDF_VERSION_CHECK() goes through its three parts, the macros for  *)
(* single functions compare one number made of two of them.                *)
(***************************************************************************)
EXTENDS Integers

(* G_ENCODE_VERSION() has one byte for the minor version.                  *)
Versions == [major : Nat, minor : 0 .. 255, micro : Nat]

(* Whether the headers of version v are at least w.                        *)
GDF_VERSION_CHECK(v, w) ==
    \/ v.major > w.major
    \/ v.major = w.major /\ v.minor > w.minor
    \/ v.major = w.major /\ v.minor = w.minor /\ v.micro >= w.micro

(* (major) << 16 | (minor) << 8                                            *)
G_ENCODE_VERSION(major, minor) == major * 65536 + minor * 256

(* What GDF_VERSION_MIN_REQUIRED and GDF_VERSION_MAX_ALLOWED are in        *)
(* version v for a program that does not define them.                      *)
DefaultOf(v) == G_ENCODE_VERSION(v.major, v.minor)

(* GDF_VERSION_10_0, GDF_VERSION_21_0.                                     *)
GDF_VERSION(w) == G_ENCODE_VERSION(w.major, w.minor)

(* A function declared GDF_DEPRECATED_IN_x_y, or GDF_AVAILABLE_IN_x_y, is  *)
(* warned of.                                                              *)
Deprecated(w, GDF_VERSION_MIN_REQUIRED) == GDF_VERSION_MIN_REQUIRED >= GDF_VERSION(w)
Unavailable(w, GDF_VERSION_MAX_ALLOWED) == GDF_VERSION_MAX_ALLOWED < GDF_VERSION(w)

(* The x.y.0 that introduced a function.                                   *)
Introduction(w) == [w EXCEPT !.micro = 0]
=============================================================================
