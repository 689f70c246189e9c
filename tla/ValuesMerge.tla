----------------------------- MODULE ValuesMerge -----------------------------
(***************************************************************************)
(* The values of a release (controllers/project/values.go, merge.go): what *)
(* the ProjectHelmChart says is merged between the operator's defaults and *)
(* what the operator insists on.                                           *)
(*                                                                         *)
(* A map gives each of its fields an entry or none; entries are leaves or, *)
(* again, maps, of one of the types Go decodes them to.  A                 *)
(* map[string]string and a list are leaves: MergeMaps does not look into   *)
(* them.                                                                   *)
(***************************************************************************)
EXTENDS Naturals, Sequences

CONSTANTS Fields, \* the keys of the maps
          Texts,  \* what is written in leaves
          Depth   \* bound: how deep maps are nested

ASSUME ValuesAssumption ==
  /\ {"global", "cattle", "url", "projectNamespaces", "projectID", "projectNamespaceSelector",
      "matchLabels"} \subseteq Fields
  /\ {"default", "project"} \subseteq Texts
  /\ Depth \in Nat /\ Depth >= 4

Leaf(x) == [kind |-> "leaf", is |-> x]
\* A YAML map with a key that is no string.
MixedMap(x) == [kind |-> "mixed", is |-> x]
\* map[string]interface{}, and what YAML decodes to when all its keys are strings.
Map(f) == [kind |-> "map", at |-> f]
YAMLMap(f) == [kind |-> "yaml", at |-> f]
\* The field is not there.
None == [kind |-> "none"]

\* The map with these entries.
Entries(f) == [k \in Fields |-> IF k \in DOMAIN f THEN f[k] ELSE None]

\* What MergeMaps does not look into: what a leaf says is a set of texts.
Opaque == [kind : {"leaf", "mixed"}, is : SUBSET Texts]

\* What a field may have, if these are the maps inside it.
EntriesOver(maps) == {None} \cup Opaque \cup [kind : {"map", "yaml"}, at : maps]

\* The maps that are nested at most n deep.
MapsTo[n \in Nat] == IF n = 0 THEN {} ELSE [Fields -> EntriesOver(MapsTo[n - 1])]

\* Mutant: maps that were read from a YAML file are not recognised.
IsJSONMap(v) == v.kind = "map"

\* getMap and convertMapInterfaceInterfaceToMapStringInterface: v can be merged into.
IsMap(v) == v.kind \in {"map", "yaml"}

\* The overlay wins, but where both have a map the two are merged, as inside says.
Merged(base, overlay, inside) ==
  [k \in Fields |->
     IF IsMap(base[k]) /\ IsMap(overlay[k]) THEN Map(inside[base[k].at, overlay[k].at])
     ELSE IF overlay[k] = None THEN base[k] ELSE overlay[k]]

MergeTo[n \in Nat] ==
  [layers \in MapsTo[n] \X MapsTo[n] |-> Merged(layers[1], layers[2], MergeTo[n - 1])]

MergeMaps(base, overlay) == MergeTo[Depth][base, overlay]

Cattle(f) == Entries([global |-> Map(Entries([cattle |-> Map(Entries(f))]))])

\* The URL stands for the default registry, too.
DefaultValues == Cattle([url |-> Leaf({"default"})])

\* getProjectNamespaceSelector, with a project label: either label names the project.
ProjectNamespaceSelector == Entries([matchLabels |-> Leaf({"project"})])

\* The project's ID stands for the IDs of the cluster and of the release project.
RequiredValues(namespaces) ==
  Cattle([projectNamespaces |-> Leaf(namespaces),
          projectID |-> Leaf({"project"}),
          projectNamespaceSelector |-> Map(ProjectNamespaceSelector)])

\* getValues
GetValues(values, override, namespaces) ==
  MergeMaps(MergeMaps(MergeMaps(DefaultValues, values), override), RequiredValues(namespaces))

-----------------------------------------------------------------------------
(* The reference: where a path leads in what several layers say.             *)

\* Whatever type Go gives it.
HasEntries(v) == v.kind \notin {"none", "leaf", "mixed"}

\* The path, below the field k.
Under(k, path) == <<k>> \o path

\* The paths of f, each with the entry it leads to; inside gives those of the maps in f.
PathsOf(f, inside) ==
  {<<<<k>>, f[k]>> : k \in {j \in Fields : f[j] # None}}
    \cup UNION {{<<Under(k, p[1]), p[2]>> : p \in inside[f[k].at]} :
                  k \in {j \in Fields : HasEntries(f[j])}}

PathsTo[n \in Nat] == [f \in MapsTo[n] |-> PathsOf(f, PathsTo[n - 1])]

Paths(f) == PathsTo[Depth][f]

Leaves(f) == {p \in Paths(f) : ~HasEntries(p[2])}

LeadsTo(path, longer) ==
  Len(path) <= Len(longer) /\ \A i \in 1 .. Len(path) : path[i] = longer[i]

\* The layer f has something to say about the path: something there, or a leaf on the
\* way, which hides everything below.
Decides(f, path) ==
  \E p \in Paths(f) : p[1] = path \/ (~HasEntries(p[2]) /\ LeadsTo(p[1], path))

\* A leaf of a layer is there in the end unless a later layer decides otherwise.
Overlaid(layers) ==
  UNION {{l \in Leaves(layers[i]) :
            \A j \in i + 1 .. Len(layers) : ~Decides(layers[j], l[1])} :
         i \in 1 .. Len(layers)}
=============================================================================
