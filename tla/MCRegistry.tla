------------------------------ MODULE MCRegistry ------------------------------
(* Small instances of Registry for TLC: two configured accounts, one of    *)
(* them with an icon, and one that registers on the site.                  *)
EXTENDS Registry

CONSTANTS a, b, c
MCSlug == {a, b, c}
MCCurated == {a, b}
MCWithIcon == {a}
=============================================================================
