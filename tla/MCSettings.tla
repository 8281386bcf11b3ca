----------------------------- MODULE MCSettings -----------------------------
(***************************************************************************)
(* Nodes of the first version, of the last and of one between, set up as a *)
(* door by an owner who left no setting at its default, and a new board.   *)
(***************************************************************************)
EXTENDS SettingsStore, FiniteSets

CONSTANT Mine   \* a text

Numbers ==
  [port |-> 8080, nodeid |-> 12, status |-> 1, runtime |-> 3, minontime |-> 30, sdcache |-> 1,
   netverbose |-> 0, toolonpin_activehigh |-> 0, toolrunpin_activehigh |-> 1,
   role |-> 2, announce_port |-> 50000, announce_mode |-> 1, mqtt_port |-> 8883,
   door_keep_open_ms |-> 3000, doorbell_mode |-> 1,
   maintainer_cache |-> 1, invert_colours |-> 0, off_delay |-> 60]

MCLeft ==
  {[valid |-> 255, fields |-> Nothing]} \union
  {[valid |-> v,
    fields |-> [f \in Layout(v) |->
                  IF f \in DOMAIN Numbers THEN Numbers[f] ELSE Mine]] : v \in {42, 45, 48}}

MCChoices == [netverbose |-> {1}]

\* Bounds: one field at a time is edited and not saved, or was and nobody knows
\* since a cut save which value was kept, and a node of which a conversion was
\* cut saves nothing more.
OneOpen ==
  Cardinality(edited \union {f \in DOMAIN owner : Cardinality(owner[f]) > 1}) <= 1

SavedNoMore == cut < Size => pc # "save"

=============================================================================
