-------------------------- MODULE MCReleaseContents --------------------------
(* One binding of each kind, to the same default role.                       *)
EXTENDS ReleaseValues, TLC

\* Keys of values ("other" stands for those the operator does not set), and what is
\* in their leaves.
MCFields == {"global", "cattle", "url", "projectNamespaces", "projectID", "projectNamespaceSelector",
             "matchLabels", "other"}
MCTexts == {"default", "project", "user", "file"} \cup Namespaces \cup ReleaseNamespaces

\* They refer to one default role each.
MCRolesOf == [b \in AllBindings |-> {"admin"}]

\* Values that the operator has, too; and no map where the operator has one.
MCFirstValues ==
  Cattle([url |-> Leaf({"user"}), projectNamespaces |-> Leaf({}),
          projectNamespaceSelector |-> Map(Entries([other |-> Leaf({"user"}),
                                                    matchLabels |-> Leaf({"user"})]))])
MCNextValues == Entries([global |-> Leaf({"user"}), other |-> Map(Entries([url |-> Leaf({"user"})]))])
MCSpecValues == {MCFirstValues, MCNextValues}

\* From a file, so its maps are YAML maps.
MCValuesOverride ==
  Entries([global |-> YAMLMap(Entries([cattle |-> YAMLMap(Entries([url |-> Leaf({"file"})]))])),
           other |-> MixedMap({"file"})])

\* What getValues returns, each computed once.
ValuesOf ==
  [x \in SpecValues \X SUBSET (Namespaces \cup ReleaseNamespaces) |-> GetValues(x[1], MCValuesOverride, x[2])] @@ <<>>
MCValuesFor(values, namespaces) == ValuesOf[values, namespaces]

\* At first the bindings are all there or none is, the project has one namespace, and
\* spec.values are the first ones; changes lead to the rest.
MCInit ==
  /\ Init
  /\ \A b, c \in AllBindings : subjects[b] = subjects[c]
  /\ members = {CHOOSE n \in Namespaces : TRUE}
  /\ spec = MCFirstValues

MCSpec == MCInit /\ [][Next]_vars /\ Fairness
=============================================================================
