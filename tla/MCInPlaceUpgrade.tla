--------------------------- MODULE MCInPlaceUpgrade ---------------------------
(* Values of the constants of InPlaceUpgrade for TLC. *)
EXTENDS InPlaceUpgrade

Minors == {25, 26, 27}

\* two upgrades in a row, and one taken back
MCEdits == {<<25, 26>>, <<26, 25>>, <<26, 27>>}

\* a single upgrade
OneEdit == {<<25, 26>>}
=============================================================================
