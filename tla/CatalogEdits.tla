---------------------------- MODULE CatalogEdits ----------------------------
(***************************************************************************)
(* app/catalog_crud.py, the pure half: what one create, update or delete   *)
(* makes of a catalog (build_candidate_catalog and the functions it        *)
(* dispatches to), and when it is refused.                                 *)
(*                                                                         *)
(* An entry is reduced to what the functions compare: its name, the second *)
(* identifier of its section (server_name of a service, listen_port of a   *)
(* stream) and a body that stands for all its other fields.                *)
(***************************************************************************)
EXTENDS Integers, Sequences, SequencesExt

CONSTANTS
  Name, Key, Body,
  ValidBody,    \* bodies that pass validate_service or validate_stream
  Keep,         \* a field a payload does not have
  Null          \* a field that is null or missing: in a payload or an entry

Field == Name \cup Key \cup Body

ASSUME FieldAssumption ==
  /\ Keep \notin Field /\ Null \notin Field /\ Keep # Null
  /\ ValidBody \subseteq Body

Section == {"services", "streams"}
Entry == [name: Name, key: Key, body: Body]
Catalog == [Section -> Seq(Entry)]

Payload ==
  [name: Name \cup {Keep, Null}, key: Key \cup {Keep, Null}, body: Body \cup {Keep, Null}]

\* CatalogMutationRequest.  The routes that take a service or a stream
\* directly build the same edits.
Edit ==
  [action: {"create", "update", "delete"}, section: Section, name: Name, payload: Payload]

-----------------------------------------------------------------------------

Blank == [name |-> Null, key |-> Null, body |-> Null]

\* _merge_dicts: a null pops the field.
Merge(base, payload) ==
  [f \in {"name", "key", "body"} |-> IF payload[f] = Keep THEN base[f] ELSE payload[f]]

\* Mutant of Valid: the second identifier is not required.
ValidWithoutKey(e) == e.name \in Name /\ e.body \in ValidBody

\* validate_service, validate_stream.
Valid(e) == e.name \in Name /\ e.key \in Key /\ e.body \in ValidBody

\* Mutant of Clash: the second identifier is not compared.
ClashByName(d, e) == d.name = e.name

Clash(d, e) == d.name = e.name \/ d.key = e.key

Indices(s, name) == {i \in DOMAIN s : s[i].name = name}

\* _service_index, _stream_index: the first entry of that name.
IndexOf(s, name) == CHOOSE i \in Indices(s, name) : \A j \in Indices(s, name) : i <= j

NewEntry(s, m) ==
  Merge(IF m.action = "create" THEN Blank ELSE s[IndexOf(s, m.name)], m.payload)

\* The entries the edited one is compared with (skip_index).
Others(s, m) ==
  IF m.action = "create" THEN DOMAIN s ELSE DOMAIN s \ {IndexOf(s, m.name)}

Accepts(s, m) ==
  /\ m.action # "create" => Indices(s, m.name) # {}
  /\ m.action # "delete" =>
       /\ Valid(NewEntry(s, m))
       /\ \A i \in Others(s, m) : ~Clash(s[i], NewEntry(s, m))

EditedSection(s, m) ==
  CASE m.action = "create" -> Append(s, NewEntry(s, m))
    [] m.action = "update" -> [s EXCEPT ![IndexOf(s, m.name)] = NewEntry(s, m)]
    [] m.action = "delete" -> RemoveAt(s, IndexOf(s, m.name))

Edited(c, m) == [c EXCEPT ![m.section] = EditedSection(@, m)]

-----------------------------------------------------------------------------

\* No two entries of a section share an identifier.
Unique(s) ==
  \A i, j \in DOMAIN s : i # j => s[i].name # s[j].name /\ s[i].key # s[j].key

UniqueCatalog(c) == \A section \in Section : Unique(c[section])

=============================================================================
