---------------------------- MODULE ReleaseValues ----------------------------
(***************************************************************************)
(* The values of a release (ReleaseContents) are those that getValues      *)
(* merges (ValuesMerge).                                                   *)
(***************************************************************************)
EXTENDS ReleaseContents, ValuesMerge

CONSTANT ValuesOverride \* the operator's file of overrides

\* The controller calls getValues with the options of the operator.
ASSUME RVAssumption ==
  /\ SpecValues \subseteq MapsTo[Depth] /\ ValuesOverride \in MapsTo[Depth]
  /\ Namespaces \cup ReleaseNamespaces \subseteq Texts
  /\ \A values \in SpecValues, targets \in SUBSET (Namespaces \cup ReleaseNamespaces) :
       ValuesFor(values, targets) = GetValues(values, ValuesOverride, targets)

\* When nothing is left to do, every value of the HelmChart comes from the last of
\* defaults, spec.values, overrides and required values that has something to say about
\* it (values.go:9-40), for namespaces M that are those of the project and, perhaps,
\* some that left it unannounced; and there is no HelmChart if these are none
\* (controller.go:273-281).
ValuesAreOverlaid ==
  Quiet /\ tracked =>
    \E M \in SUBSET Namespaces :
      /\ members \subseteq M
      /\ IF M = {} THEN chart = NoValues
         ELSE Leaves(chart) = Overlaid(<<DefaultValues, spec, ValuesOverride,
                                         RequiredValues(M \cup ReleaseNamespaces)>>)
=============================================================================
