-------------------------------- MODULE Layers --------------------------------
(***************************************************************************)
(* VerifierConfig::load of crates/termproof/src/config.rs: the files of a  *)
(* configuration are merged over the built-in one in the order of their    *)
(* precedence. A value is a leaf or a map from keys to values.             *)
(***************************************************************************)
EXTENDS Naturals, Sequences, SequencesExt

CONSTANTS
  Builtin,   \* VerifierConfig::default(), a map
  Settings,  \* the keys of maps
  Leaves,    \* what is no map
  Depth,     \* bound on the nesting of maps
  Types,     \* of the paths of typed fields: the leaves it takes, of a field that is a map none
  Filled,    \* the fields of the typed sections, which have defaults of their own
  IdleCap,   \* defaults.idle_cap_seconds
  Null       \* the leaf null

VARIABLES
  places,    \* the files looked for, in order
  contents,  \* of each: a value, "missing", "empty" or "broken"
  nth,       \* how many places were looked at
  merged,    \* the configuration so far
  loading    \* "loading", "loaded" or "refused"

layerVars == <<places, contents, nth, merged, loading>>

Leaf(value) == [leaf |-> value]
Map(values) == [map |-> values]
IsMap(value) == "map" \in DOMAIN value

\* serde_json::Value, of maps that are nested at most n deep.
Nested[n \in 0..Depth] ==
  IF n = 0 THEN {Leaf(x) : x \in Leaves}
  ELSE Nested[n - 1] \cup
         {Map(values) : values \in UNION {[keys -> Nested[n - 1]] : keys \in SUBSET Settings}}

KeyPaths == {<<k>> : k \in Settings} \cup {<<k, l>> : k, l \in Settings}

\* What a value says of a path of one or two keys, and whether it leaves no room for it.
Cuts(value, path) == path[1] \in DOMAIN value.map /\ Len(path) = 2 /\ ~IsMap(value.map[path[1]])
Says(value, path) ==
  /\ path[1] \in DOMAIN value.map
  /\ Len(path) = 2 => IsMap(value.map[path[1]]) /\ path[2] \in DOMAIN value.map[path[1]].map
Told(value, path) == IF Len(path) = 1 THEN value.map[path[1]] ELSE value.map[path[1]].map[path[2]]

ASSUME LayerAssumption ==
  /\ Depth \in Nat /\ Builtin \in Nested[Depth] /\ IsMap(Builtin)
  /\ IdleCap \in Filled
  /\ \A path \in Filled : /\ \E k, l \in Settings : path = <<k, l>>
                         /\ <<path[1]>> \in DOMAIN Types /\ Types[<<path[1]>>] = {}
                         /\ Says(Builtin, <<path[1]>>)

\* A path that the caller gives for the user's file is looked at alone; without a home
\* there is no other; the caller's configuration comes last.
UserPlaces(given, home) ==
  IF given THEN <<"user_given">> ELSE IF home THEN <<"user_legacy", "user_current">> ELSE <<>>
Places(given, home, explicit) ==
  UserPlaces(given, home) \o <<"project_legacy", "project_current">> \o
    (IF explicit THEN <<"explicit">> ELSE <<>>)

LayerInit(fileContents) ==
  /\ \E given, home, explicit \in BOOLEAN : places = Places(given, home, explicit)
  /\ contents \in [ToSet(places) -> fileContents]
  /\ nth = 0 /\ merged = Builtin /\ loading = "loading"

\* Faulty: the maps of the top are merged, and those in them replaced.
ShallowMerge(base, overlay) ==
  IF IsMap(base) /\ IsMap(overlay)
  THEN Map([k \in DOMAIN base.map \cup DOMAIN overlay.map |->
              IF k \in DOMAIN overlay.map THEN overlay.map[k] ELSE base.map[k]])
  ELSE overlay

DeepMerge(base, overlay) ==
  LET Merged[n \in 0..Depth] ==
        [b \in Nested[n] |-> [o \in Nested[n] |->
           IF IsMap(b) /\ IsMap(o)
           THEN Map([k \in DOMAIN b.map \cup DOMAIN o.map |->
                       IF k \notin DOMAIN o.map THEN b.map[k]
                       ELSE IF k \notin DOMAIN b.map THEN o.map[k]
                       ELSE Merged[n - 1][b.map[k]][o.map[k]]])
           ELSE o]]
  IN  Merged[Depth][base][overlay]

\* A file that is empty, or whose content is no map, says nothing.
Overlay(content) ==
  IF IsMap(content) THEN content ELSE Map([k \in {} |-> Builtin])

Unread == nth < Len(places)

Skip ==
  /\ loading = "loading" /\ Unread /\ contents[places[nth + 1]] = Leaf("missing")
  /\ nth' = nth + 1
  /\ UNCHANGED <<places, contents, merged, loading>>

Refuse ==
  /\ loading = "loading" /\ Unread /\ contents[places[nth + 1]] = Leaf("broken")
  /\ loading' = "refused"
  /\ UNCHANGED <<places, contents, nth, merged>>

Merge ==
  /\ loading = "loading" /\ Unread
  /\ contents[places[nth + 1]] \notin {Leaf("missing"), Leaf("broken")}
  /\ merged' = DeepMerge(merged, Overlay(contents[places[nth + 1]]))
  /\ nth' = nth + 1
  /\ UNCHANGED <<places, contents, loading>>

\* Only the result has to be of the types of the fields.
WellTyped(config) ==
  \A path \in DOMAIN Types : Says(config, path) =>
    IF Types[path] = {} THEN IsMap(Told(config, path))
    ELSE \E x \in Types[path] : Told(config, path) = Leaf(x)

\* deserialize_idle_cap takes null for a field that is not there.
Unset(config, path) ==
  ~Says(config, path) \/ (path = IdleCap /\ Told(config, path) = Leaf(Null))

\* A typed section gets the defaults of the fields that it does not set.
Deserialized(config) ==
  LET fields(k) == {l \in Settings : <<k, l>> \in Filled}
      Section(k) ==
        Map([l \in DOMAIN config.map[k].map \cup fields(k) |->
               IF l \in fields(k) /\ Unset(config, <<k, l>>) THEN Told(Builtin, <<k, l>>)
               ELSE config.map[k].map[l]])
  IN  Map([k \in DOMAIN config.map |-> IF fields(k) = {} THEN config.map[k] ELSE Section(k)])

FinishLoading ==
  /\ loading = "loading" /\ ~Unread
  /\ IF WellTyped(merged) THEN loading' = "loaded" /\ merged' = Deserialized(merged)
     ELSE loading' = "refused" /\ UNCHANGED merged
  /\ UNCHANGED <<places, contents, nth>>

LayerStep == Skip \/ Refuse \/ Merge \/ FinishLoading

-----------------------------------------------------------------------------
LayerOf(i) == IF i = 0 THEN Builtin ELSE Overlay(contents[places[i]])

\* The files so far that say something of the path, the last of them and what it says, and
\* whether what it says is removed by a later one.
Telling(path) == {i \in 0..nth : Says(LayerOf(i), path)}
LastTelling(path) == CHOOSE i \in Telling(path) : \A j \in Telling(path) : j <= i
Said(path) == Told(LayerOf(LastTelling(path)), path)
Removed(path) ==
  Telling(path) = {} \/ \E i \in 0..nth : i > LastTelling(path) /\ Cuts(LayerOf(i), path)

\* After any number of files each setting is what the last of them that mentions it says,
\* and a later file that replaces its section by something else removes it. Of the loaded
\* configuration that is not so for the fields of the typed sections: one that was removed
\* is what the built-in configuration says, and so is an idle cap for which the last file
\* says null (which by the comment of config.rs:78-79 would mean "no cap").
ConfigIsLayered ==
  loading # "refused" =>
    \A path \in KeyPaths :
      IF /\ loading = "loaded" /\ path \in Filled
         /\ Removed(path) \/ (path = IdleCap /\ Said(path) = Leaf(Null))
      THEN Says(merged, path) /\ Told(merged, path) = Told(Builtin, path)
      ELSE /\ Says(merged, path) <=> ~Removed(path)
           /\ ~Removed(path) => IF IsMap(Said(path)) THEN IsMap(Told(merged, path))
                                ELSE Told(merged, path) = Said(path)

=============================================================================
