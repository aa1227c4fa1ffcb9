---------------------------- MODULE KpackCompat ----------------------------
(***************************************************************************)
(* The kpack clients kp gets when it connects (pkg/k8s/clientset.go,       *)
(* pkg/kpackcompat).  kp only knows the v1alpha2 API.  On a cluster that   *)
(* prefers another version it is given a wrapper with the same interface,  *)
(* which talks v1alpha1: it converts objects on the way out and answers on *)
(* the way back, or refuses the kinds v1alpha1 does not have.              *)
(*                                                                         *)
(* The wrapper has no state, so it is a set of operators.  A request takes *)
(* the objects the server stores for one kind and returns a response: the  *)
(* objects stored after it and the answer.  An object is a function from   *)
(* fields to values; the versions differ in what some fields are called.   *)
(* A patch is NOT converted on its way out, nor is what a watch returns.   *)
(***************************************************************************)
EXTENDS MergePatch, Naturals, FiniteSets

CONSTANTS Namespaces,  \* NoNamespace among them
          Names,
          Fields,      \* of a v1alpha2 object
          V1Fields,    \* of the same object in v1alpha1
          Values,
          V1Name,      \* by kind and v1alpha2 field: what v1alpha1 calls it
          NoNamespace, \* where the cluster-scoped objects are, and "all of them" in a list
          NoObject,
          Refused      \* the answer that is an error

NamespacedKinds == {"Build", "Builder", "Image", "SourceResolver"}
ClusterKinds == {"ClusterBuilder", "ClusterStack", "ClusterStore"}
ConvertibleKinds == NamespacedKinds \cup ClusterKinds

Keys == Namespaces \X Names
Stores(objects) == [Keys -> objects \cup {NoObject}]
Objects == [Fields -> Values]
V1Objects == [V1Fields -> Values]

ASSUME CompatAssumption ==
  /\ NoNamespace \in Namespaces
  /\ NoObject \notin Objects \cup V1Objects
  /\ Refused \notin V1Objects
  /\ \A kind \in ConvertibleKinds :
       /\ V1Name[kind] \in [Fields -> V1Fields]
       /\ \A f, g \in Fields : V1Name[kind][f] = V1Name[kind][g] => f = g
       /\ \A n \in V1Fields : \E f \in Fields : V1Name[kind][f] = n
-----------------------------------------------------------------------------
(* An API server, of either version.                                       *)

Response(store, answer) == [store |-> store, answer |-> answer]
Refuse(store) == Response(store, Refused)

Stored(store, key, o) == Response([store EXCEPT ![key] = o], o)
IfPresent(store, key, response) == IF store[key] = NoObject THEN Refuse(store) ELSE response

ServeCreate(store, key, o) == IF store[key] = NoObject THEN Stored(store, key, o) ELSE Refuse(store)
ServeUpdate(store, key, o) == IfPresent(store, key, Stored(store, key, o))
ServePatch(store, key, patch) == IfPresent(store, key, Stored(store, key, ApplyMergePatch(store[key], patch)))
ServeGet(store, key) == IfPresent(store, key, Response(store, store[key]))
ServeDelete(store, key) == IfPresent(store, key, Response([store EXCEPT ![key] = NoObject], NoObject))

\* Keys of a namespace; a namespaced client without a namespace asks for all.
In(ns) == {key \in Keys : ns \in {key[1], NoNamespace}}
ServeList(store, ns) == Response(store, {store[key] : key \in In(ns)} \ {NoObject})
ServeDeleteCollection(store, ns) ==
  Response([key \in Keys |-> IF key \in In(ns) THEN NoObject ELSE store[key]], NoObject)
-----------------------------------------------------------------------------
(* The conversions of kpack.                                               *)

ConvertTo(kind, o) == [n \in V1Fields |-> o[CHOOSE f \in Fields : V1Name[kind][f] = n]]
ConvertFrom(kind, v) == [f \in Fields |-> v[V1Name[kind][f]]]

\* What a v1alpha1 server stores for the objects of a v1alpha2 one.
V1Store(kind, store) ==
  [key \in Keys |-> IF store[key] = NoObject THEN NoObject ELSE ConvertTo(kind, store[key])]

\* A response with an object in it, on its way back.
ConvertResponse(kind, response) ==
  IF response.answer = Refused THEN response
  ELSE [response EXCEPT !.answer = ConvertFrom(kind, response.answer)]
-----------------------------------------------------------------------------
(* The client of each kind: which kind of v1alpha1 client it wraps, if     *)
(* any, and which namespace it puts into every request.  The code has a    *)
(* file for each kind with the same nine methods written out again; the    *)
(* operations below are those of all of them.                              *)

Converting(kind, ns) == [kind |-> kind, ns |-> ns, converts |-> TRUE]
\* Every operation returns ErrV1alpha2Required.
Refusing(kind, ns) == [kind |-> kind, ns |-> ns, converts |-> FALSE]

Builds(ns) == Converting("Build", ns)
Builders(ns) == Converting("Builder", ns)
Images(ns) == Converting("Image", ns)
SourceResolvers(ns) == Converting("SourceResolver", ns)
ClusterBuilders == Converting("ClusterBuilder", NoNamespace)
ClusterStacks == Converting("ClusterStack", NoNamespace)
ClusterStores == Converting("ClusterStore", NoNamespace)
Buildpacks(ns) == Refusing("Buildpack", ns)
ClusterBuildpacks == Refusing("ClusterBuildpack", NoNamespace)
ClusterLifecycles == Refusing("ClusterLifecycle", NoNamespace)

\* kpackV1alpha1CompatClient
CompatClients ==
  (UNION {{Builds(ns), Builders(ns), Images(ns), SourceResolvers(ns), Buildpacks(ns)} : ns \in Namespaces})
    \cup {ClusterBuilders, ClusterStacks, ClusterStores, ClusterBuildpacks, ClusterLifecycles}
ConvertingClients == {c \in CompatClients : c.converts}

\* NewForConfig: the client for the version the server prefers for the kpack group.
NewForConfig(preferred) ==
  CASE preferred = "no group" -> "error"
    [] preferred = "v1alpha2" -> "real"
    [] OTHER                  -> "compat"
-----------------------------------------------------------------------------
(* The operations of the clients.                                          *)

Key(c, name) == <<c.ns, name>>
Via(c, store, response) == IF c.converts THEN response ELSE Refuse(store)

Create(c, store, name, o) ==
  Via(c, store, ConvertResponse(c.kind, ServeCreate(store, Key(c, name), ConvertTo(c.kind, o))))

\* Update and UpdateStatus, which differ in the fields the server takes from the object.
Update(c, store, name, o) ==
  Via(c, store, ConvertResponse(c.kind, ServeUpdate(store, Key(c, name), ConvertTo(c.kind, o))))

Patch(c, store, name, patch) ==
  Via(c, store, ConvertResponse(c.kind, ServePatch(store, Key(c, name), patch)))

Get(c, store, name) == Via(c, store, ConvertResponse(c.kind, ServeGet(store, Key(c, name))))

Delete(c, store, name) == Via(c, store, ServeDelete(store, Key(c, name)))
DeleteCollection(c, store) == Via(c, store, ServeDeleteCollection(store, c.ns))

List(c, store) ==
  LET listed == ServeList(store, c.ns)
  IN  Via(c, store, Response(listed.store, {ConvertFrom(c.kind, v) : v \in listed.answer}))

\* The events of a watch carry v1alpha1 objects.
Watch(c, store) == Via(c, store, ServeList(store, c.ns))
-----------------------------------------------------------------------------
(* What the wrapper promises: through it, a v1alpha1 server acts as a      *)
(* v1alpha2 server would.                                                  *)

\* The response of the wrapper to the objects as v1alpha1 has them is the direct one.
Agrees(c, direct, compat) == compat = Response(V1Store(c.kind, direct.store), direct.answer)

\* The fields a patch may have if it is to mean the same in both versions.
SameName(kind) == {f \in Fields : V1Name[kind][f] = f}

RequestsAgree(c, store) ==
  LET v1 == V1Store(c.kind, store)
  IN  /\ \A name \in Names, o \in Objects :
           /\ Agrees(c, ServeCreate(store, Key(c, name), o), Create(c, v1, name, o))
           /\ Agrees(c, ServeUpdate(store, Key(c, name), o), Update(c, v1, name, o))
      /\ \A name \in Names :
           /\ Agrees(c, ServeGet(store, Key(c, name)), Get(c, v1, name))
           /\ Agrees(c, ServeDelete(store, Key(c, name)), Delete(c, v1, name))
      /\ Agrees(c, ServeDeleteCollection(store, c.ns), DeleteCollection(c, v1))
      /\ Agrees(c, ServeList(store, c.ns), List(c, v1))

PatchesAgree(c, store) ==
  \A name \in Names, fields \in SUBSET SameName(c.kind) :
    \A patch \in [fields -> Values] :
      Agrees(c, ServePatch(store, Key(c, name), patch), Patch(c, V1Store(c.kind, store), name, patch))

\* A patch of fields that v1alpha1 does not have is accepted, and does nothing.
OtherPatchesAreLost(c, store) ==
  \A name \in Names, fields \in SUBSET (Fields \ V1Fields) :
    \A patch \in [fields -> Values] :
      LET v1 == V1Store(c.kind, store)
      IN  Patch(c, v1, name, patch) = Get(c, v1, name)
=============================================================================
