--------------------------- MODULE AtomicCatalog ----------------------------
(***************************************************************************)
(* What the web UI's catalog routes promise, without previews, locks or    *)
(* requests: the catalog changes by one accepted edit at a time.  Edits    *)
(* that overlap (see CatalogCrud) may overwrite each other, and then only  *)
(* the identifiers are still promised to be unique.                        *)
(***************************************************************************)
EXTENDS CatalogEdits

CONSTANTS
  Edits,       \* the edits requested
  HandWritten  \* the catalogs the operator may have started from

VARIABLES
  catalog,
  overlaps     \* edits that overlapped an earlier one

Start == catalog \in HandWritten /\ overlaps = 0

Apply(m) ==
  /\ Accepts(catalog[m.section], m)
  /\ catalog' = Edited(catalog, m)
  /\ UNCHANGED overlaps

Overlap ==
  /\ overlaps' = overlaps + 1
  /\ UniqueCatalog(catalog')

Step == Overlap \/ \E m \in Edits : Apply(m)

AtomicSpec == Start /\ [][Step]_<<catalog, overlaps>>

=============================================================================
