----------------------------- MODULE MCSafeFetch -----------------------------
(* Instances of SafeFetch for TLC. *)
EXTENDS SafeFetch, TLC

CONSTANTS c1, c2,             \* callers
          page, manifest, site, http  \* URLs
=============================================================================
