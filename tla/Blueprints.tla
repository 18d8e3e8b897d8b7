----------------------------- MODULE Blueprints -----------------------------
(***************************************************************************)
(* The Blueprints of the console: create, replace, delete, and the check   *)
(* of the port types along their edges                                     *)
(* (internal/api/handlers_blueprint.go, internal/taskscheduler/portcheck.go *)
(* and store.go). A request looks the plugins of its nodes up one after    *)
(* the other, while they are upgraded and uninstalled, and saves the whole *)
(* Blueprint when it has looked at them all. How a Task walks the stored   *)
(* graph is TaskScheduler's, how plugins change is PluginLifecycle's.      *)
(***************************************************************************)
EXTENDS Integers, Sequences, FiniteSets

CONSTANTS
    Worker,        \* requests under way at once
    User,
    Key,           \* the UUIDs of Blueprints, numbers in the order of the bucket
    Plugin,
    Version,
    Manifest,      \* plugin, version |-> its capabilities and what they declare
    Seeded,        \* the standard interfaces of SeedStandardSchemas
    Draft,         \* node lists a user may send
    Builtin,       \* BuiltinPluginID
    NoRef, NoSchema, NoManifest, NoBlueprint, NoUser,
    MaxChanges,    \* BOUND: upgrades, uninstallations and installations
    MaxFaults,     \* BOUND: reads and writes that fail
    MaxCreations   \* BOUND: requests to create a Blueprint

ASSUME BlueprintsAssumption ==
    /\ Key \subseteq Nat
    /\ {MaxChanges, MaxFaults, MaxCreations} \subseteq Nat
    /\ \A d \in Draft : Len(d) \in Nat /\ DOMAIN d = 1..Len(d)
    /\ \A d \in Draft : \A i \in DOMAIN d :
          /\ d[i].plugin \in Plugin \cup {Builtin}
          /\ d[i].next \subseteq DOMAIN d

-----------------------------------------------------------------------------
(***************************************************************************)
(* portcheck.go. Types are as trimmed and in lower case. A schema has the  *)
(* types of its output ports and the types of its required inputs: the     *)
(* check passes optional ports over.                                       *)
(***************************************************************************)
Wildcards == {"", "any"}
Conversions == {<<"int", "float">>, <<"int", "text">>, <<"float", "text">>, <<"bool", "text">>}

TypeCompatible(src, dst) ==
    src = dst \/ src \in Wildcards \/ dst \in Wildcards \/ <<src, dst>> \in Conversions

HasCompatibleOutput(outputs, type) == \E out \in outputs : TypeCompatible(out, type)

CheckEdge(upstream, downstream) ==
    \A type \in downstream.required : HasCompatibleOutput(upstream.outputs, type)

\* No mismatch: an end without a schema lets its edges through.
ValidateBlueprintPorts(draft, schemas) ==
    \A from \in DOMAIN schemas : \A to \in draft[from].next \cap DOMAIN schemas :
        CheckEdge(schemas[from], schemas[to])

\* The registry of standard interfaces, which SeedStandardSchemas fills at boot.
SchemaStoreGet(ref) == IF ref \in DOMAIN Seeded THEN Seeded[ref] ELSE NoSchema

\* The standard interface first, then the inline one; either may be missing.
CapabilitySchema(capability) ==
    IF capability.ref # NoRef THEN SchemaStoreGet(capability.ref) ELSE capability.inline

NodeSchema(node, manifest) ==
    IF manifest = NoManifest \/ node.capability \notin DOMAIN manifest THEN NoSchema
    ELSE CapabilitySchema(manifest[node.capability])

With(f, x, v) == [y \in DOMAIN f \cup {x} |-> IF y = x THEN v ELSE f[y]]
\* MUTANT: a schema that is nil is entered
KeepsNil(schemas, i, schema) == With(schemas, i, schema)

WithSchema(schemas, i, schema) == IF schema = NoSchema THEN schemas ELSE With(schemas, i, schema)

-----------------------------------------------------------------------------
VARIABLES
    stored,     \* BlueprintStore
    installed,  \* PluginInstance: the version, or NoManifest when there is no record
    job,
    clock,      \* time.Now() of the last creation
    changes, faults,
    seen,       \* AUXILIARY: what each request could have read of each plugin
    checkedBy,  \* AUXILIARY: the same, for the request that saved each Blueprint
    panicked    \* AUXILIARY: requests that net/http had to recover

boundVars == <<changes, faults>>
vars == <<stored, installed, job, clock, boundVars, seen, checkedBy, panicked>>

Empty == [x \in {} |-> NoManifest]
IdleJob == [pc |-> "idle", user |-> NoUser, key |-> 0, bp |-> NoBlueprint, left |-> <<>>,
            manifests |-> Empty, schemas |-> Empty]

Nothing == [p \in Plugin |-> {}]

At(w, pc) == job[w].pc = pc
SetJob(w, j) == job' = [job EXCEPT ![w] = j]
Done(w) == SetJob(w, IdleJob) /\ seen' = [seen EXCEPT ![w] = Nothing]
Fails == faults < MaxFaults /\ faults' = faults + 1
Succeeds == UNCHANGED faults

ManifestOf(p, v) == IF v = NoManifest THEN NoManifest ELSE Manifest[p][v]
StartsSeeing(w) == seen' = [seen EXCEPT ![w] = [p \in Plugin |-> {installed[p]}]]

\* BlueprintStore, whose Save writes the whole record without looking at the one it replaces.
StoreGet(key) == stored[key]
StoreSave(key, bp) == stored' = [stored EXCEPT ![key] = bp]
StoreDelete(key) == stored' = [stored EXCEPT ![key] = NoBlueprint]

Resolve(w, u, key, bp) ==
    SetJob(w, [IdleJob EXCEPT !.pc = "resolve", !.user = u, !.key = key, !.bp = bp,
                              !.left = [i \in DOMAIN bp.nodes |-> i]])

Create(w, u, draft) ==
    /\ At(w, "idle")
    /\ \E key \in Key :
          /\ clock < MaxCreations
          /\ checkedBy[key] = Nothing /\ \A x \in Worker : job[x].key # key
          /\ Resolve(w, u, key, [user |-> u, nodes |-> draft, created |-> clock + 1])
    /\ clock' = clock + 1
    /\ StartsSeeing(w)
    /\ UNCHANGED <<stored, installed, boundVars, checkedBy, panicked>>

\* Get, and the comparison with the user of the session.
OwnBlueprint(u, key) == StoreGet(key) # NoBlueprint /\ StoreGet(key).user = u

Update(w, u, key, draft) ==
    /\ At(w, "idle")
    /\ OwnBlueprint(u, key)
    /\ Resolve(w, u, key, [StoreGet(key) EXCEPT !.nodes = draft])
    /\ StartsSeeing(w)
    /\ UNCHANGED <<stored, installed, clock, boundVars, checkedBy, panicked>>

\* MUTANT: every node has its manifest read
ReadsAgain(w, p) == FALSE

Cached(w, p) == p \in DOMAIN job[w].manifests

Node(w) == job[w].bp.nodes[Head(job[w].left)]

\* The next node, with the manifest that was read for it or is nil.
Resolved(w, manifest) ==
    [job[w] EXCEPT !.left = Tail(@),
                   !.manifests = IF Node(w).plugin = Builtin THEN @
                                 ELSE With(@, Node(w).plugin, manifest),
                   !.schemas = WithSchema(@, Head(job[w].left), NodeSchema(Node(w), manifest))]

\* One pass of the loop of resolveNodeSchemas. A record that cannot be read, or a package
\* that cannot be loaded, is kept as nil; a record that is not there is read through.
ResolveNode(w) ==
    /\ At(w, "resolve") /\ job[w].left # <<>>
    /\ LET id == Node(w).plugin
       IN  \/ id = Builtin /\ SetJob(w, Resolved(w, NoManifest)) /\ Succeeds
              /\ UNCHANGED <<seen, panicked>>
           \/ /\ id # Builtin /\ Cached(w, id)
              /\ SetJob(w, Resolved(w, job[w].manifests[id]))
              /\ Succeeds /\ UNCHANGED <<seen, panicked>>
           \/ /\ id # Builtin /\ ~Cached(w, id) /\ installed[id] # NoManifest
              /\ SetJob(w, Resolved(w, ManifestOf(id, installed[id])))
              /\ Succeeds /\ UNCHANGED <<seen, panicked>>
           \/ /\ id # Builtin /\ ~Cached(w, id)
              /\ SetJob(w, Resolved(w, NoManifest))
              /\ Fails /\ seen' = [seen EXCEPT ![w][id] = @ \cup {NoManifest}]
              /\ UNCHANGED panicked
           \/ /\ id # Builtin /\ ~Cached(w, id) /\ installed[id] = NoManifest
              /\ Done(w)
              /\ panicked' = panicked \cup {job[w].key}
              /\ Succeeds
    /\ UNCHANGED <<stored, installed, clock, changes, checkedBy>>

\* The answer 400.
RejectPorts(w) ==
    /\ At(w, "resolve") /\ job[w].left = <<>>
    /\ ~ValidateBlueprintPorts(job[w].bp.nodes, job[w].schemas)
    /\ Done(w)
    /\ UNCHANGED <<stored, installed, clock, boundVars, checkedBy, panicked>>

Save(w) ==
    /\ At(w, "resolve") /\ job[w].left = <<>>
    /\ ValidateBlueprintPorts(job[w].bp.nodes, job[w].schemas)
    /\ \/ /\ Succeeds
          /\ StoreSave(job[w].key, job[w].bp)
          /\ checkedBy' = [checkedBy EXCEPT ![job[w].key] = seen[w]]
       \/ Fails /\ UNCHANGED <<stored, checkedBy>>
    /\ Done(w)
    /\ UNCHANGED <<installed, clock, changes, panicked>>

DeleteGet(w, u, key) ==
    /\ At(w, "idle")
    /\ OwnBlueprint(u, key)
    /\ SetJob(w, [IdleJob EXCEPT !.pc = "delete", !.user = u, !.key = key, !.bp = stored[key]])
    /\ UNCHANGED <<stored, installed, clock, boundVars, seen, checkedBy, panicked>>

Delete(w) ==
    /\ At(w, "delete")
    /\ \/ Succeeds /\ StoreDelete(job[w].key)
       \/ Fails /\ UNCHANGED stored
    /\ Done(w)
    /\ UNCHANGED <<installed, clock, changes, checkedBy, panicked>>

\* An installation, an upgrade or an uninstallation.
ChangePlugin(p) ==
    /\ changes < MaxChanges /\ changes' = changes + 1
    /\ \E v \in (Version \cup {NoManifest}) \ {installed[p]} :
          /\ installed' = [installed EXCEPT ![p] = v]
          /\ seen' = [w \in Worker |-> IF At(w, "resolve") THEN [seen[w] EXCEPT ![p] = @ \cup {v}]
                                      ELSE seen[w]]
    /\ UNCHANGED <<stored, job, clock, faults, checkedBy, panicked>>

Init ==
    /\ stored = [k \in Key |-> NoBlueprint]
    /\ installed \in [Plugin -> Version \cup {NoManifest}]
    /\ job = [w \in Worker |-> IdleJob]
    /\ clock = 0
    /\ changes = 0 /\ faults = 0
    /\ seen = [w \in Worker |-> Nothing]
    /\ checkedBy = [k \in Key |-> Nothing]
    /\ panicked = {}

Next ==
    \/ \E w \in Worker, u \in User :
          \/ \E d \in Draft : Create(w, u, d) \/ \E k \in Key : Update(w, u, k, d)
          \/ \E k \in Key : DeleteGet(w, u, k)
    \/ \E w \in Worker : ResolveNode(w) \/ RejectPorts(w) \/ Save(w) \/ Delete(w)
    \/ \E p \in Plugin : ChangePlugin(p)

Spec == Init /\ [][Next]_vars

-----------------------------------------------------------------------------
Blueprint == [user : User, nodes : Draft, created : Nat]

TypeOK ==
    /\ stored \in [Key -> Blueprint \cup {NoBlueprint}]
    /\ installed \in [Plugin -> Version \cup {NoManifest}]
    /\ \A w \in Worker :
          /\ job[w].pc \in {"idle", "resolve", "delete"}
          /\ ~At(w, "idle") => job[w].key \in Key /\ job[w].bp \in Blueprint
          /\ DOMAIN job[w].manifests \subseteq Plugin
          /\ NoSchema \notin {job[w].schemas[i] : i \in DOMAIN job[w].schemas}
    /\ clock \in Nat /\ panicked \subseteq Key

\* What resolveNodeSchemas returns when nothing changes while it runs.
SchemasUnder(draft, version) ==
    LET schema == [i \in DOMAIN draft |->
                      IF draft[i].plugin = Builtin THEN NoSchema
                      ELSE NodeSchema(draft[i], ManifestOf(draft[i].plugin, version[draft[i].plugin]))]
    IN  [i \in {j \in DOMAIN draft : schema[j] # NoSchema} |-> schema[i]]

\* Every stored Blueprint passes the port check for plugins as they were, all at one time of
\* each plugin: a request never puts the ports of two versions of a plugin together, however
\* it is upgraded, uninstalled and installed again between the lookups.
SavedWasChecked ==
    \A k \in Key : stored[k] # NoBlueprint =>
        \E version \in [Plugin -> Version \cup {NoManifest}] :
            /\ \A p \in Plugin : version[p] \in checkedBy[k][p]
            /\ ValidateBlueprintPorts(stored[k].nodes, SchemasUnder(stored[k].nodes, version))

\* "capabilities without interfaceRef, and uncached schemas are omitted - their edges are
\* allowed through" (handlers_blueprint.go:29): what a plugin lacks ends no request.
UnresolvedIsAllowed == panicked = {}

\* What was deleted does not come back.
DeletedStaysDeleted ==
    [][\A k \in Key : stored[k] = NoBlueprint /\ checkedBy[k] # Nothing
                       => stored'[k] = NoBlueprint]_stored

\* ListByUser: the bucket backwards.
ListByUser(u) ==
    LET own == {k \in Key : stored[k] # NoBlueprint /\ stored[k].user = u}
        Nth(n) == CHOOSE k \in own : Cardinality({j \in own : j >= k}) = n
    IN  [n \in 1..Cardinality(own) |-> stored[Nth(n)]]

\* "ordered by CreatedAt descending" (taskscheduler/store.go:80).
ListedNewestFirst ==
    \A u \in User : \A i, j \in DOMAIN ListByUser(u) :
        i < j => ListByUser(u)[i].created > ListByUser(u)[j].created
=============================================================================
