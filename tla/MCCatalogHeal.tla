--------------------------- MODULE MCCatalogHeal ---------------------------
(***************************************************************************)
(* One service with its certificate check, the timer and one operator,     *)
(* whose --apply-dns passes load and save the file without touching the    *)
(* certificate's entry.                                                    *)
(***************************************************************************)
EXTENDS CatalogHeal

MCOrder == << [service |-> "web", dimension |-> "cert"] >>

=============================================================================
