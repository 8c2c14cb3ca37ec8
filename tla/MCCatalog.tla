------------------------------ MODULE MCCatalog ------------------------------
(* Catalog for TLC: a reader and an add, which both read the catalogue,    *)
(* and an update of the definitions, which a call means to cancel.         *)
EXTENDS Catalog

CONSTANTS r1, a1, t1, x1

MCReader == {r1}
MCAdders == {a1}
MCRunners == {t1}
MCCancellers == {x1}
MCCommands == [c \in MCCancellers |-> t1]

(* The definitions there are, and those the update fetches. *)
MCMaxDefs == 2
=============================================================================
