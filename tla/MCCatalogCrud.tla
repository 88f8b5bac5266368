--------------------------- MODULE MCCatalogCrud ----------------------------
(***************************************************************************)
(* Two requests at a time over a catalog of one or two services and a      *)
(* stream.  The edits can clash with each other and with the web UI's own  *)
(* server name, fail to validate and fail to render.                       *)
(***************************************************************************)
EXTENDS CatalogCrud

E(name, key, body) == [name |-> name, key |-> key, body |-> body]
Catalogs == {
  [services |-> << E("blog", "b.org", "plain") >>, streams |-> << >>],
  [services |-> << E("blog", "b.org", "plain"), E("wiki", "w.org", "plain") >>,
   streams |-> << E("blog", "b.org", "plain") >>] }

M(action, section, name, payload) ==
  [action |-> action, section |-> section, name |-> name, payload |-> payload]

MCEdits == {
  M("create", "services", "wiki", E("wiki", "w.org", "plain")),
  M("create", "services", "wiki", E("wiki", "b.org", "plain")),
  M("create", "services", "wiki", E("wiki", Keep, "plain")),
  M("update", "services", "blog", E("wiki", Keep, Keep)),
  M("update", "services", "blog", E(Keep, "w.org", Keep)),
  M("update", "services", "wiki", E(Keep, Keep, "odd")),
  M("update", "services", "blog", E(Keep, Keep, Null)),
  M("delete", "services", "blog", E(Keep, Keep, Keep)),
  M("create", "streams", "blog", E("blog", "w.org", "plain")),
  M("delete", "streams", "blog", E(Keep, Keep, Keep)) }

=============================================================================
