----------------------------- MODULE ImageList -----------------------------
(***************************************************************************)
(* Which image resources `kp image list --filter ...` prints (list.go and  *)
(* list_filter.go of pkg/commands/image).  A filter is the name before the *)
(* equals sign and what is after it: one value for a builder, a set of     *)
(* them, in any case, for the others.                                      *)
(***************************************************************************)
FilterNames == {"builder", "clusterbuilder", "latest-reason", "ready"}

\* getReadyText: the READY column.
ReadyText(image) == IF image.ready = "no condition" THEN "unknown" ELSE image.ready

MatchesStatus(image, values) == ReadyText(image) \in values
MatchesLatestReason(image, values) == image.reasons \cap values # {}
MatchesBuilder(image, kind, values) == image.builderKind = kind /\ values = {image.builder}

Matches(image, filter) ==
  CASE filter.name = "builder"        -> MatchesBuilder(image, "Builder", filter.values)
    [] filter.name = "clusterbuilder" -> MatchesBuilder(image, "ClusterBuilder", filter.values)
    [] filter.name = "latest-reason"  -> MatchesLatestReason(image, filter.values)
    [] filter.name = "ready"          -> MatchesStatus(image, filter.values)

\* filterImageList: one argument that is no filter fails the command.
Accepted(filters) == \A f \in filters : f.name \in FilterNames
FilterImageList(images, filters) == {i \in images : \A f \in filters : Matches(i, f)}
-----------------------------------------------------------------------------
(* Every image and every filter of a small world.                          *)

Readiness == {"true", "false", "unknown"}
AllImages == [builderKind : {"Builder", "ClusterBuilder"}, builder : {"a", "b"},
              ready : Readiness \cup {"no condition"}, reasons : SUBSET {"commit", "config"}]
AllFilters == [name : {"builder", "clusterbuilder"}, values : {{"a"}, {"b"}}]
                \cup [name : {"latest-reason"}, values : SUBSET {"commit", "config"} \ {{}}]
                \cup [name : {"ready"}, values : SUBSET Readiness \ {{}}]

\* The filter on readiness and the column are two functions with a case for no condition
\* each: a filter lists exactly the images whose column shows one of its values.
ASSUME ReadyFilterIsColumn ==
  \A values \in SUBSET Readiness \ {{}} :
    FilterImageList(AllImages, {[name |-> "ready", values |-> values]})
      = {i \in AllImages : ReadyText(i) \in values}

\* A second filter narrows what the first one found, and no value of a filter hides what
\* another value of it lists.
ASSUME FiltersNarrow ==
  \A f, g \in AllFilters :
    /\ FilterImageList(AllImages, {f, g}) = FilterImageList(FilterImageList(AllImages, {f}), {g})
    /\ f.name = g.name /\ f.name \in {"ready", "latest-reason"} =>
         FilterImageList(AllImages, {[f EXCEPT !.values = @ \cup g.values]})
           = FilterImageList(AllImages, {f}) \cup FilterImageList(AllImages, {g})
=============================================================================
