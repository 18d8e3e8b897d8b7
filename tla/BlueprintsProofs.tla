-------------------------- MODULE BlueprintsProofs --------------------------
(***************************************************************************)
(* Theorems about Blueprints, for any requests under way, any plugins and  *)
(* versions of them with any capabilities, and any bound on the changes.   *)
(***************************************************************************)
EXTENDS Blueprints, TLAPS

\* What a request may have read of each plugin.
Readings == [Plugin -> SUBSET (Version \cup {NoManifest})]

\* The record with these fields.
Fields(pc, user, key, bp, left, manifests, schemas) ==
    [pc : {pc}, user : {user}, key : {key}, bp : {bp}, left : {left},
     manifests : {manifests}, schemas : {schemas}]

JobTypes(j) ==
    /\ j \in Fields(j.pc, j.user, j.key, j.bp, j.left, j.manifests, j.schemas)
    /\ j.pc \in {"idle", "resolve", "delete"}
    /\ j.pc # "idle" => j.key \in Key /\ j.bp \in Blueprint
    /\ j.pc = "resolve" => j.left \in Seq(DOMAIN j.bp.nodes)
    /\ DOMAIN j.manifests \subseteq Plugin
    /\ \A i \in DOMAIN j.schemas : j.schemas[i] # NoSchema

Types ==
    /\ stored \in [Key -> Blueprint \cup {NoBlueprint}]
    /\ installed \in [Plugin -> Version \cup {NoManifest}]
    /\ job = [w \in Worker |-> job[w]]
    /\ \A w \in Worker : JobTypes(job[w])
    /\ clock \in Nat /\ panicked \subseteq Key
    /\ seen \in [Worker -> Readings]
    /\ checkedBy \in [Key -> Readings]

\* What a plugin is now, a request that is looking plugins up could have read.
SeesInstalled(s, current) == \A p \in Plugin : current[p] \in s[p]

\* A manifest a request holds is of one version of its plugin, one it could have read.
ManifestsWereSeen(j, s) ==
    \A p \in DOMAIN j.manifests : \E v \in s[p] : j.manifests[p] = ManifestOf(p, v)

\* The schemas a request holds are those of the nodes it has passed, out of its manifests.
IsRead(j, i) == j.bp.nodes[i].plugin # Builtin /\ j.bp.nodes[i].plugin \in DOMAIN j.manifests
OwnSchema(j, i) == NodeSchema(j.bp.nodes[i], j.manifests[j.bp.nodes[i].plugin])

IsPassed(j, i) ==
    j.bp.nodes[i].plugin # Builtin =>
        IsRead(j, i) /\ (i \in DOMAIN j.schemas \/ OwnSchema(j, i) = NoSchema)

SchemasAreRead(j) ==
    \A i \in DOMAIN j.schemas :
        i \in DOMAIN j.bp.nodes /\ IsRead(j, i) /\ j.schemas[i] = OwnSchema(j, i)

PassedAreRead(j) ==
    \A i \in DOMAIN j.bp.nodes : (\E n \in DOMAIN j.left : j.left[n] = i) \/ IsPassed(j, i)

JobInv(j, s, current) ==
    j.pc = "resolve" =>
        /\ SeesInstalled(s, current)
        /\ ManifestsWereSeen(j, s)
        /\ SchemasAreRead(j)
        /\ PassedAreRead(j)

JobsInOrder == \A w \in Worker : JobInv(job[w], seen[w], installed)

IInv == Types /\ JobsInOrder /\ SavedWasChecked

-----------------------------------------------------------------------------
(***************************************************************************)
(* Lemmas about the operators.                                             *)
(***************************************************************************)
\* The drafts the assumption speaks of, by node.
LEMMA DraftNodes ==
    ASSUME NEW d \in Draft, NEW i \in DOMAIN d
    PROVE  d[i].plugin \in Plugin \cup {Builtin}
  BY BlueprintsAssumption

\* A job that is reset is a job, and so is what it may have read.
LEMMA IdleIsAJob == JobTypes(IdleJob) /\ IdleJob.pc = "idle" /\ Nothing \in Readings
  BY DEF JobTypes, Fields, IdleJob, Empty, Nothing, Readings

\* A request that starts to look plugins up: it has passed no node and holds nothing.
LEMMA ResolveStarts ==
    ASSUME NEW w \in Worker, NEW u, NEW key \in Key, NEW bp \in Blueprint,
           Types, bp.nodes \in Draft, StartsSeeing(w), Resolve(w, u, key, bp)
    PROVE  /\ job' = [x \in Worker |-> job'[x]]
           /\ seen' \in [Worker -> Readings]
           /\ \A x \in Worker : x # w => job'[x] = job[x] /\ seen'[x] = seen[x]
           /\ JobTypes(job'[w])
           /\ JobInv(job'[w], seen'[w], installed)
  <1> DEFINE all == [i \in DOMAIN bp.nodes |-> i]
             j   == [IdleJob EXCEPT !.pc = "resolve", !.user = u, !.key = key, !.bp = bp,
                                    !.left = all]
  <1>1. j \in Fields("resolve", u, key, bp, all, Empty, Empty)
    <2> HIDE DEF all
    <2> QED BY DEF IdleJob, Fields
  <1>2. job' = [job EXCEPT ![w] = j]
    BY DEF Resolve, SetJob
  <1> HIDE DEF j
  <1>a. /\ j.pc = "resolve" /\ j.user = u /\ j.key = key /\ j.bp = bp /\ j.left = all
        /\ j.manifests = Empty /\ j.schemas = Empty
    <2> HIDE DEF all
    <2> QED BY <1>1 DEF Fields
  <1>3. job'[w] = j /\ \A x \in Worker : x # w => job'[x] = job[x]
    BY <1>2 DEF Types
  <1>4. job' = [x \in Worker |-> job'[x]]
    BY <1>2 DEF Types
  <1>5. seen'[w] = [p \in Plugin |-> {installed[p]}] /\ seen' \in [Worker -> Readings]
        /\ \A x \in Worker : x # w => seen'[x] = seen[x]
    BY DEF StartsSeeing, Types, Readings
  <1>6. j.left \in Seq(DOMAIN bp.nodes)
    <2>1. Len(bp.nodes) \in Nat /\ DOMAIN bp.nodes = 1..Len(bp.nodes)
      BY BlueprintsAssumption
    <2> QED BY <1>a, <2>1
  <1>7. JobTypes(j)
    BY <1>1, <1>a, <1>6 DEF JobTypes, Empty
  <1>8. JobInv(j, seen'[w], installed)
    <2>1. SeesInstalled(seen'[w], installed)
      BY <1>5 DEF SeesInstalled
    <2>2. ManifestsWereSeen(j, seen'[w]) /\ SchemasAreRead(j)
      BY <1>a DEF ManifestsWereSeen, SchemasAreRead, Empty
    <2>3. PassedAreRead(j)
      BY <1>a DEF PassedAreRead
    <2> QED BY <2>1, <2>2, <2>3 DEF JobInv
  <1> QED BY <1>3, <1>4, <1>5, <1>7, <1>8

\* A request that ends holds nothing, and the others are not touched.
LEMMA DoneResets ==
    ASSUME NEW w \in Worker, Types, Done(w)
    PROVE  /\ job' = [x \in Worker |-> job'[x]]
           /\ seen' \in [Worker -> Readings]
           /\ \A x \in Worker : x # w => job'[x] = job[x] /\ seen'[x] = seen[x]
           /\ JobTypes(job'[w]) /\ job'[w].pc = "idle"
  <1>1. job'[w] = IdleJob /\ \A x \in Worker : x # w => job'[x] = job[x]
    BY DEF Done, SetJob, Types
  <1>2. job' = [x \in Worker |-> job'[x]]
    BY DEF Done, SetJob, Types
  <1>3. seen' \in [Worker -> Readings] /\ \A x \in Worker : x # w => seen'[x] = seen[x]
    BY IdleIsAJob DEF Done, Types
  <1> QED BY <1>1, <1>2, <1>3, IdleIsAJob

\* The rest of the jobs are as they were: what holds of one job holds of all.
LEMMA OneJobMoves ==
    ASSUME NEW w \in Worker, IInv, installed' = installed,
           \A x \in Worker : x # w => job'[x] = job[x] /\ seen'[x] = seen[x],
           JobTypes(job'[w]),
           job'[w].pc # "resolve" \/ JobInv(job'[w], seen'[w], installed)
    PROVE  (\A x \in Worker : JobTypes(job'[x])) /\ JobsInOrder'
  BY DEF IInv, Types, JobsInOrder, JobInv

\* It speaks of what is stored and of what its request read only.
LEMMA StoredUnchanged ==
    ASSUME SavedWasChecked, UNCHANGED <<stored, checkedBy>> PROVE SavedWasChecked'
  BY DEF SavedWasChecked

-----------------------------------------------------------------------------
\* It holds at first.
LEMMA InitIInv == Init => IInv
<1> SUFFICES ASSUME Init PROVE IInv
  OBVIOUS
<1>1. \A w \in Worker : job[w] = IdleJob /\ job[w].pc = "idle"
  BY DEF Init, IdleJob
<1>2. Types
  <2>1. job = [w \in Worker |-> job[w]] /\ \A w \in Worker : JobTypes(job[w])
    BY <1>1, IdleIsAJob DEF Init
  <2>2. seen \in [Worker -> Readings] /\ checkedBy \in [Key -> Readings]
    BY IdleIsAJob DEF Init
  <2> QED BY <2>1, <2>2 DEF Init, Types
<1>3. JobsInOrder
  BY <1>1 DEF JobsInOrder, JobInv
<1>4. SavedWasChecked
  BY DEF SavedWasChecked, Init
<1> QED BY <1>2, <1>3, <1>4 DEF IInv

-----------------------------------------------------------------------------
(***************************************************************************)
(* One pass of the loop: the node's manifest m is the one in the cache, or *)
(* of a version of its plugin that the request could have read.            *)
(***************************************************************************)
Found(w, m, s) ==
    LET id == Node(w).plugin
    IN  \/ id = Builtin /\ m = NoManifest
        \/ id # Builtin /\ Cached(w, id) /\ m = job[w].manifests[id]
        \/ id # Builtin /\ ~Cached(w, id) /\ \E v \in s[id] : m = ManifestOf(id, v)

\* A list that is not empty, and its head and tail.
LEMMA HeadAndTail ==
    ASSUME NEW S, NEW left \in Seq(S), left # <<>>
    PROVE  /\ Len(left) \in Nat /\ Len(left) # 0 /\ DOMAIN left = 1..Len(left)
           /\ Head(left) = left[1] /\ Head(left) \in S
           /\ Tail(left) \in Seq(S)
           /\ Len(Tail(left)) = Len(left) - 1 /\ DOMAIN Tail(left) = 1..(Len(left) - 1)
           /\ \A k \in 1..(Len(left) - 1) : Tail(left)[k] = left[k + 1]
  <1>1. Len(left) \in Nat /\ Len(left) # 0 /\ DOMAIN left = 1..Len(left)
    OBVIOUS
  <1>2. Head(left) = left[1] /\ Head(left) \in S
    OBVIOUS
  <1>3. Tail(left) \in Seq(S) /\ Len(Tail(left)) = Len(left) - 1
    OBVIOUS
  <1>4. DOMAIN Tail(left) = 1..(Len(left) - 1)
    BY <1>1, <1>3
  <1>5. \A k \in 1..(Len(left) - 1) : Tail(left)[k] = left[k + 1]
    OBVIOUS
  <1> QED BY <1>1, <1>2, <1>3, <1>4, <1>5

\* The node at the head of what is left is one of the Blueprint's.
LEMMA HeadIsANode ==
    ASSUME NEW w \in Worker, Types, At(w, "resolve"), job[w].left # <<>>
    PROVE  /\ job[w].bp \in Blueprint /\ job[w].bp.nodes \in Draft
           /\ Head(job[w].left) \in DOMAIN job[w].bp.nodes
           /\ Node(w).plugin \in Plugin \cup {Builtin}
           /\ Tail(job[w].left) \in Seq(DOMAIN job[w].bp.nodes)
           /\ \A n \in DOMAIN job[w].left :
                 \/ job[w].left[n] = Head(job[w].left)
                 \/ \E k \in DOMAIN Tail(job[w].left) : Tail(job[w].left)[k] = job[w].left[n]
<1>1. JobTypes(job[w]) /\ job[w].pc = "resolve"
  BY DEF Types, At
<1>2. job[w].bp \in Blueprint /\ job[w].bp.nodes \in Draft
  BY <1>1 DEF JobTypes, Blueprint
<1>3. job[w].left \in Seq(DOMAIN job[w].bp.nodes)
  BY <1>1 DEF JobTypes
<1> DEFINE left == job[w].left
<1>4. /\ Len(left) \in Nat /\ Len(left) # 0 /\ DOMAIN left = 1..Len(left)
      /\ Head(left) = left[1] /\ Head(left) \in DOMAIN job[w].bp.nodes
      /\ Tail(left) \in Seq(DOMAIN job[w].bp.nodes)
      /\ Len(Tail(left)) = Len(left) - 1 /\ DOMAIN Tail(left) = 1..(Len(left) - 1)
      /\ \A k \in 1..(Len(left) - 1) : Tail(left)[k] = left[k + 1]
  BY <1>3, HeadAndTail
<1>5. Node(w).plugin \in Plugin \cup {Builtin}
  BY <1>2, <1>4, DraftNodes DEF Node
<1>6. ASSUME NEW n \in DOMAIN left, left[n] # Head(left)
      PROVE  \E k \in DOMAIN Tail(left) : Tail(left)[k] = left[n]
  <2>1. n \in 1..Len(left) /\ n # 1
    BY <1>4, <1>6
  <2>2. n - 1 \in 1..(Len(left) - 1) /\ Tail(left)[n - 1] = left[n]
    BY <1>4, <2>1
  <2> QED BY <1>4, <2>2
<1> QED BY <1>2, <1>4, <1>5, <1>6

\* A pass takes one node, and adds its manifest to the cache and its schema, if there are any.
LEMMA ResolvedFields ==
    ASSUME NEW w \in Worker, NEW m, Types, At(w, "resolve")
    PROVE  LET j      == Resolved(w, m)
               head   == Head(job[w].left)
               schema == NodeSchema(Node(w), m)
           IN  /\ j \in Fields(j.pc, j.user, j.key, j.bp, j.left, j.manifests, j.schemas)
               /\ j.pc = "resolve" /\ j.key = job[w].key /\ j.bp = job[w].bp
               /\ j.left = Tail(job[w].left)
               /\ Node(w).plugin = Builtin => j.manifests = job[w].manifests
               /\ Node(w).plugin # Builtin =>
                     j.manifests = With(job[w].manifests, Node(w).plugin, m)
               /\ j.schemas = WithSchema(job[w].schemas, head, schema)
<1> DEFINE old     == job[w]
           fetched == IF Node(w).plugin = Builtin THEN old.manifests
                      ELSE With(old.manifests, Node(w).plugin, m)
           schemas == WithSchema(old.schemas, Head(old.left), NodeSchema(Node(w), m))
           j       == Resolved(w, m)
<1>1. old \in Fields("resolve", old.user, old.key, old.bp, old.left, old.manifests, old.schemas)
  BY DEF Types, JobTypes, At
<1>2. j = [old EXCEPT !.left = Tail(old.left), !.manifests = fetched, !.schemas = schemas]
  BY <1>1 DEF Resolved, Fields
<1>3. j \in Fields("resolve", old.user, old.key, old.bp, Tail(old.left), fetched, schemas)
  <2> HIDE DEF fetched, schemas, j
  <2> QED BY <1>1, <1>2 DEF Fields
<1>4. /\ j.pc = "resolve" /\ j.user = old.user /\ j.key = old.key /\ j.bp = old.bp
      /\ j.left = Tail(old.left) /\ j.manifests = fetched /\ j.schemas = schemas
  <2> HIDE DEF fetched, schemas, j
  <2> QED BY <1>3 DEF Fields
<1>5. j \in Fields(j.pc, j.user, j.key, j.bp, j.left, j.manifests, j.schemas)
  <2> HIDE DEF fetched, schemas, j
  <2> QED BY <1>3, <1>4
<1> QED BY <1>4, <1>5

\* A pass keeps what is known of the job: what is cached stays, so the schemas of the
\* nodes that were passed are still those of the manifests.
LEMMA PassKeepsInv ==
    ASSUME NEW w \in Worker, NEW m, NEW s,
           Types, At(w, "resolve"), job[w].left # <<>>,
           JobInv(job[w], seen[w], installed),
           Found(w, m, s), \A p \in Plugin : seen[w][p] \subseteq s[p]
    PROVE  JobTypes(Resolved(w, m)) /\ JobInv(Resolved(w, m), s, installed)
<1> DEFINE old == job[w]
           j   == Resolved(w, m)
           id  == Node(w).plugin
           head == Head(old.left)
           schema == NodeSchema(Node(w), m)
<1>1. /\ old.bp.nodes \in Draft /\ head \in DOMAIN old.bp.nodes
      /\ id \in Plugin \cup {Builtin} /\ Node(w) = old.bp.nodes[head]
      /\ Tail(old.left) \in Seq(DOMAIN old.bp.nodes)
      /\ \A n \in DOMAIN old.left :
            \/ old.left[n] = head
            \/ \E k \in DOMAIN Tail(old.left) : Tail(old.left)[k] = old.left[n]
  BY HeadIsANode DEF Node
<1>2. /\ JobTypes(old) /\ old.pc = "resolve"
      /\ SeesInstalled(seen[w], installed) /\ ManifestsWereSeen(old, seen[w])
      /\ SchemasAreRead(old) /\ PassedAreRead(old)
  BY DEF Types, At, JobInv
<1>3. /\ j \in Fields(j.pc, j.user, j.key, j.bp, j.left, j.manifests, j.schemas)
      /\ j.pc = "resolve" /\ j.key = old.key /\ j.bp = old.bp
      /\ j.left = Tail(old.left)
      /\ id = Builtin => j.manifests = old.manifests
      /\ id # Builtin => j.manifests = With(old.manifests, id, m)
      /\ j.schemas = WithSchema(old.schemas, head, schema)
  BY ResolvedFields
<1> HIDE DEF j, id, head, schema
<1>4. /\ id = Builtin => j.manifests = old.manifests
      /\ id # Builtin => /\ DOMAIN j.manifests = DOMAIN old.manifests \cup {id}
                         /\ j.manifests[id] = m
      /\ \A p \in DOMAIN old.manifests : j.manifests[p] = old.manifests[p]
  <2>1. CASE id = Builtin
    BY <1>3, <2>1
  <2>2. CASE id # Builtin
    <3>1. j.manifests = With(old.manifests, id, m)
      BY <1>3, <2>2
    <3>2. DOMAIN j.manifests = DOMAIN old.manifests \cup {id} /\ j.manifests[id] = m
      BY <3>1 DEF With
    <3>3. ASSUME NEW p \in DOMAIN old.manifests PROVE j.manifests[p] = old.manifests[p]
      <4>1. CASE p # id
        BY <3>1, <4>1 DEF With
      <4>2. CASE p = id
        BY <2>2, <3>2, <4>2 DEF Found, Cached, id
      <4> QED BY <4>1, <4>2
    <3> QED BY <2>2, <3>2, <3>3
  <2> QED BY <2>1, <2>2
<1>5. /\ schema = NoSchema => j.schemas = old.schemas
      /\ schema # NoSchema => /\ DOMAIN j.schemas = DOMAIN old.schemas \cup {head}
                              /\ j.schemas[head] = schema
                              /\ \A i \in DOMAIN old.schemas : i # head => j.schemas[i] = old.schemas[i]
  <2>1. CASE schema = NoSchema
    BY <1>3, <2>1 DEF WithSchema
  <2>2. CASE schema # NoSchema
    <3>1. j.schemas = With(old.schemas, head, schema)
      BY <1>3, <2>2 DEF WithSchema
    <3> QED BY <2>2, <3>1 DEF With
  <2> QED BY <2>1, <2>2
<1>6. schema # NoSchema => id # Builtin
  BY DEF schema, Found, NodeSchema, id
<1>7. \A i \in DOMAIN old.bp.nodes : IsRead(old, i) => IsRead(j, i) /\ OwnSchema(j, i) = OwnSchema(old, i)
  <2>1. DOMAIN old.manifests \subseteq DOMAIN j.manifests
    BY <1>4
  <2> QED BY <1>3, <1>4, <2>1 DEF IsRead, OwnSchema
<1>8. id # Builtin => IsRead(j, head) /\ OwnSchema(j, head) = schema
  BY <1>1, <1>3, <1>4 DEF IsRead, OwnSchema, schema, id
<1>9. JobTypes(j)
  <2>1. DOMAIN j.manifests \subseteq Plugin
    BY <1>1, <1>2, <1>4 DEF JobTypes
  <2>2. \A i \in DOMAIN j.schemas : j.schemas[i] # NoSchema
    BY <1>2, <1>5 DEF JobTypes
  <2>3. j.left \in Seq(DOMAIN j.bp.nodes)
    BY <1>1, <1>3
  <2>4. j.key \in Key /\ j.bp \in Blueprint
    BY <1>2, <1>3 DEF JobTypes
  <2> QED BY <1>3, <2>1, <2>2, <2>3, <2>4 DEF JobTypes
<1>10. SeesInstalled(s, installed)
  BY <1>2 DEF SeesInstalled
<1>11. ManifestsWereSeen(j, s)
  <2> SUFFICES ASSUME NEW p \in DOMAIN j.manifests
               PROVE  \E v \in s[p] : j.manifests[p] = ManifestOf(p, v)
    BY DEF ManifestsWereSeen
  <2>1. CASE p \in DOMAIN old.manifests
    <3>1. PICK v \in seen[w][p] : old.manifests[p] = ManifestOf(p, v)
      BY <1>2, <2>1 DEF ManifestsWereSeen
    <3>2. p \in Plugin
      BY <1>2, <2>1 DEF JobTypes
    <3> QED BY <1>4, <2>1, <3>1, <3>2
  <2>2. CASE p \notin DOMAIN old.manifests
    BY <1>4, <2>2 DEF Found, Cached, id
  <2> QED BY <2>1, <2>2
<1>12. SchemasAreRead(j)
  <2> SUFFICES ASSUME NEW i \in DOMAIN j.schemas
               PROVE  i \in DOMAIN j.bp.nodes /\ IsRead(j, i) /\ j.schemas[i] = OwnSchema(j, i)
    BY DEF SchemasAreRead
  <2>1. CASE i = head /\ schema # NoSchema
    BY <1>1, <1>3, <1>5, <1>6, <1>8, <2>1
  <2>2. CASE i # head \/ schema = NoSchema
    <3>1. i \in DOMAIN old.schemas /\ j.schemas[i] = old.schemas[i]
      BY <1>5, <2>2
    <3>2. i \in DOMAIN old.bp.nodes /\ IsRead(old, i) /\ old.schemas[i] = OwnSchema(old, i)
      BY <1>2, <3>1 DEF SchemasAreRead
    <3> QED BY <1>3, <1>7, <3>1, <3>2
  <2> QED BY <2>1, <2>2
<1>13. PassedAreRead(j)
  <2> SUFFICES ASSUME NEW i \in DOMAIN j.bp.nodes, ~\E n \in DOMAIN j.left : j.left[n] = i
               PROVE  IsPassed(j, i)
    BY DEF PassedAreRead
  <2>1. CASE i = head
    BY <1>1, <1>3, <1>5, <1>8, <2>1 DEF IsPassed, id
  <2>2. CASE i # head
    <3>1. i \in DOMAIN old.bp.nodes /\ ~\E n \in DOMAIN old.left : old.left[n] = i
      BY <1>1, <1>3, <2>2
    <3>2. IsPassed(old, i)
      BY <1>2, <3>1 DEF PassedAreRead
    <3>3. i \in DOMAIN old.schemas => i \in DOMAIN j.schemas
      BY <1>5
    <3> QED BY <1>3, <1>7, <3>1, <3>2, <3>3 DEF IsPassed
  <2> QED BY <2>1, <2>2
<1> QED BY <1>3, <1>9, <1>10, <1>11, <1>12, <1>13 DEF JobInv, j

-----------------------------------------------------------------------------
(***************************************************************************)
(* Every step keeps it. Steps that store nothing first.                    *)
(***************************************************************************)
\* A Blueprint is created under a key nobody has.
LEMMA CreateKeeps ==
    ASSUME IInv, NEW w \in Worker, NEW u \in User, NEW d \in Draft, Create(w, u, d)
    PROVE  IInv'
<1>1. PICK key \in Key :
        Resolve(w, u, key, [user |-> u, nodes |-> d, created |-> clock + 1])
  BY DEF Create
<1> DEFINE bp == [user |-> u, nodes |-> d, created |-> clock + 1]
<1>2. bp \in Blueprint /\ bp.nodes \in Draft
  BY DEF IInv, Types, Blueprint
<1>3. Types /\ StartsSeeing(w) /\ Resolve(w, u, key, bp)
  BY <1>1 DEF IInv, Create
<1> HIDE DEF bp
<1>4. /\ job' = [x \in Worker |-> job'[x]]
      /\ seen' \in [Worker -> Readings]
      /\ \A x \in Worker : x # w => job'[x] = job[x] /\ seen'[x] = seen[x]
      /\ JobTypes(job'[w])
      /\ JobInv(job'[w], seen'[w], installed)
  BY <1>2, <1>3, ResolveStarts
<1>5. UNCHANGED <<stored, installed, checkedBy, panicked>> /\ clock' = clock + 1
  BY DEF Create
<1>6. (\A x \in Worker : JobTypes(job'[x])) /\ JobsInOrder'
  BY <1>4, <1>5, OneJobMoves
<1>7. Types'
  BY <1>4, <1>5, <1>6 DEF IInv, Types
<1>8. SavedWasChecked'
  BY <1>5, StoredUnchanged DEF IInv
<1> QED BY <1>6, <1>7, <1>8 DEF IInv

\* A Blueprint is replaced whole, but for its owner and the time it was made.
LEMMA UpdateKeeps ==
    ASSUME IInv, NEW w \in Worker, NEW u \in User, NEW key \in Key, NEW d \in Draft,
           Update(w, u, key, d)
    PROVE  IInv'
<1> DEFINE bp == [stored[key] EXCEPT !.nodes = d]
<1>1. Types /\ StartsSeeing(w) /\ Resolve(w, u, key, bp)
  BY DEF IInv, Update, StoreGet
<1>2. stored[key] \in Blueprint
  BY DEF IInv, Types, Update, OwnBlueprint, StoreGet
<1>3. bp \in Blueprint /\ bp.nodes \in Draft
  BY <1>2 DEF Blueprint
<1> HIDE DEF bp
<1>4. /\ job' = [x \in Worker |-> job'[x]]
      /\ seen' \in [Worker -> Readings]
      /\ \A x \in Worker : x # w => job'[x] = job[x] /\ seen'[x] = seen[x]
      /\ JobTypes(job'[w])
      /\ JobInv(job'[w], seen'[w], installed)
  BY <1>1, <1>3, ResolveStarts
<1>5. UNCHANGED <<stored, installed, clock, checkedBy, panicked>>
  BY DEF Update
<1>6. (\A x \in Worker : JobTypes(job'[x])) /\ JobsInOrder'
  BY <1>4, <1>5, OneJobMoves
<1>7. Types'
  BY <1>4, <1>5, <1>6 DEF IInv, Types
<1>8. SavedWasChecked'
  BY <1>5, StoredUnchanged DEF IInv
<1> QED BY <1>6, <1>7, <1>8 DEF IInv

\* What a pass does, whichever way it goes on.
LEMMA PassMoves ==
    ASSUME IInv, NEW w \in Worker, NEW m, At(w, "resolve"), job[w].left # <<>>,
           SetJob(w, Resolved(w, m)), Found(w, m, seen'[w]),
           seen' \in [Worker -> Readings],
           \A x \in Worker : x # w => seen'[x] = seen[x],
           \A p \in Plugin : seen[w][p] \subseteq seen'[w][p],
           UNCHANGED <<stored, installed, clock, checkedBy, panicked>>
    PROVE  IInv'
<1>1. JobTypes(Resolved(w, m)) /\ JobInv(Resolved(w, m), seen'[w], installed)
  BY PassKeepsInv DEF IInv, JobsInOrder
<1>2. /\ job' = [x \in Worker |-> job'[x]]
      /\ job'[w] = Resolved(w, m)
      /\ \A x \in Worker : x # w => job'[x] = job[x]
  BY DEF SetJob, IInv, Types
<1>3. (\A x \in Worker : JobTypes(job'[x])) /\ JobsInOrder'
  BY <1>1, <1>2, OneJobMoves
<1>4. Types'
  BY <1>2, <1>3 DEF IInv, Types
<1>5. SavedWasChecked'
  BY StoredUnchanged DEF IInv
<1> QED BY <1>3, <1>4, <1>5 DEF IInv

\* A request that ends without a write to the store.
LEMMA EndKeeps ==
    ASSUME IInv, NEW w \in Worker, Done(w),
           UNCHANGED <<stored, installed, clock, checkedBy>>, panicked' \subseteq Key
    PROVE  IInv'
<1>1. /\ job' = [x \in Worker |-> job'[x]]
      /\ seen' \in [Worker -> Readings]
      /\ \A x \in Worker : x # w => job'[x] = job[x] /\ seen'[x] = seen[x]
      /\ JobTypes(job'[w]) /\ job'[w].pc = "idle"
  BY DoneResets DEF IInv
<1>2. (\A x \in Worker : JobTypes(job'[x])) /\ JobsInOrder'
  BY <1>1, OneJobMoves
<1>3. Types'
  BY <1>1, <1>2 DEF IInv, Types
<1>4. SavedWasChecked'
  BY StoredUnchanged DEF IInv
<1> QED BY <1>2, <1>3, <1>4 DEF IInv

\* Each way a node is looked up is a pass, and a plugin that is gone ends the request.
LEMMA ResolveNodeKeeps ==
    ASSUME IInv, NEW w \in Worker, ResolveNode(w) PROVE IInv'
<1> DEFINE id == Node(w).plugin
<1>1. /\ At(w, "resolve") /\ job[w].left # <<>>
      /\ UNCHANGED <<stored, installed, clock, checkedBy>>
  BY DEF ResolveNode
<1>2. id \in Plugin \cup {Builtin}
  BY <1>1, HeadIsANode DEF IInv
<1>3. seen \in [Worker -> Readings] /\ SeesInstalled(seen[w], installed)
  BY <1>1 DEF IInv, Types, JobsInOrder, JobInv, At
<1>4. CASE id = Builtin /\ SetJob(w, Resolved(w, NoManifest)) /\ UNCHANGED <<seen, panicked>>
  BY <1>1, <1>3, <1>4, PassMoves DEF Found
<1>5. CASE /\ id # Builtin /\ Cached(w, id)
           /\ SetJob(w, Resolved(w, job[w].manifests[id])) /\ UNCHANGED <<seen, panicked>>
  BY <1>1, <1>3, <1>5, PassMoves DEF Found
<1>6. CASE /\ id # Builtin /\ ~Cached(w, id)
           /\ SetJob(w, Resolved(w, ManifestOf(id, installed[id]))) /\ UNCHANGED <<seen, panicked>>
  <2>1. installed[id] \in seen'[w][id]
    BY <1>2, <1>3, <1>6 DEF SeesInstalled
  <2>2. Found(w, ManifestOf(id, installed[id]), seen'[w])
    BY <1>6, <2>1 DEF Found
  <2> QED BY <1>1, <1>3, <1>6, <2>2, PassMoves
<1>7. CASE /\ id # Builtin /\ ~Cached(w, id)
           /\ SetJob(w, Resolved(w, NoManifest)) /\ UNCHANGED panicked
           /\ seen' = [seen EXCEPT ![w][id] = @ \cup {NoManifest}]
  <2>1. id \in Plugin /\ seen[w] \in Readings
    BY <1>2, <1>3, <1>7
  <2> HIDE DEF id
  <2>2. seen'[w] = [seen[w] EXCEPT ![id] = @ \cup {NoManifest}]
        /\ \A x \in Worker : x # w => seen'[x] = seen[x]
    BY <1>3, <1>7
  <2>3. seen'[w] \in Readings /\ NoManifest \in seen'[w][id]
        /\ \A p \in Plugin : seen[w][p] \subseteq seen'[w][p]
    BY <2>1, <2>2 DEF Readings
  <2>4. seen' \in [Worker -> Readings]
    BY <1>3, <1>7, <2>2, <2>3
  <2>5. NoManifest = ManifestOf(id, NoManifest)
    BY DEF ManifestOf
  <2>6. Found(w, NoManifest, seen'[w])
    BY <1>7, <2>3, <2>5 DEF Found, id
  <2> QED BY <1>1, <1>7, <2>2, <2>3, <2>4, <2>6, PassMoves
<1>8. CASE Done(w) /\ panicked' = panicked \cup {job[w].key}
  <2>1. job[w].key \in Key
    BY <1>1 DEF IInv, Types, JobTypes, At
  <2> QED BY <1>1, <1>8, <2>1, EndKeeps DEF IInv, Types
<1> QED BY <1>4, <1>5, <1>6, <1>7, <1>8 DEF ResolveNode

\* A request that has passed every node holds the schemas of one version of each plugin.
LEMMA ReadAtOneVersion ==
    ASSUME NEW j, NEW s \in Readings, JobTypes(j), JobInv(j, s, installed),
           j.pc = "resolve", j.left = <<>>,
           ValidateBlueprintPorts(j.bp.nodes, j.schemas)
    PROVE  \E version \in [Plugin -> Version \cup {NoManifest}] :
              /\ \A p \in Plugin : version[p] \in s[p]
              /\ ValidateBlueprintPorts(j.bp.nodes, SchemasUnder(j.bp.nodes, version))
<1> DEFINE nodes == j.bp.nodes
           Was(p, v) == p \in DOMAIN j.manifests => j.manifests[p] = ManifestOf(p, v)
           version == [p \in Plugin |-> CHOOSE v \in s[p] : Was(p, v)]
           under == SchemasUnder(nodes, version)
<1>1. ManifestsWereSeen(j, s) /\ SchemasAreRead(j) /\ PassedAreRead(j) /\ SeesInstalled(s, installed)
  BY DEF JobInv
<1>2. ASSUME NEW p \in Plugin PROVE version[p] \in s[p] /\ Was(p, version[p])
  <2>1. \E v \in s[p] : Was(p, v)
    BY <1>1 DEF ManifestsWereSeen, SeesInstalled
  <2> HIDE DEF Was
  <2> QED BY <2>1
<1>3. version \in [Plugin -> Version \cup {NoManifest}]
  BY <1>2 DEF Readings
<1>4. DOMAIN j.manifests \subseteq Plugin
  BY DEF JobTypes
<1> HIDE DEF version
<1> DEFINE Of(i) == IF nodes[i].plugin = Builtin THEN NoSchema
                    ELSE NodeSchema(nodes[i], ManifestOf(nodes[i].plugin, version[nodes[i].plugin]))
<1>5. \A i \in DOMAIN nodes : IsRead(j, i) => Of(i) = OwnSchema(j, i)
  BY <1>2, <1>4 DEF IsRead, OwnSchema
<1>6. \A i \in DOMAIN nodes : IsPassed(j, i)
  BY <1>1 DEF PassedAreRead
<1>7. DOMAIN under = {i \in DOMAIN nodes : Of(i) # NoSchema} /\ \A i \in DOMAIN under : under[i] = Of(i)
  BY DEF SchemasUnder
<1> HIDE DEF Of, under
<1>8. ASSUME NEW i \in DOMAIN under PROVE i \in DOMAIN j.schemas /\ under[i] = j.schemas[i]
  <2>1. i \in DOMAIN nodes /\ Of(i) # NoSchema /\ under[i] = Of(i)
    BY <1>7
  <2>2. nodes[i].plugin # Builtin
    BY <2>1 DEF Of
  <2>3. IsRead(j, i) /\ OwnSchema(j, i) = Of(i)
    BY <1>5, <1>6, <2>1, <2>2 DEF IsPassed
  <2>4. i \in DOMAIN j.schemas
    BY <1>6, <2>1, <2>2, <2>3 DEF IsPassed
  <2> QED BY <1>1, <2>1, <2>3, <2>4 DEF SchemasAreRead
<1>9. ValidateBlueprintPorts(nodes, under)
  BY <1>8 DEF ValidateBlueprintPorts
<1> QED BY <1>2, <1>3, <1>9 DEF under

\* The step that makes the property hold: what is saved was read at one version each.
LEMMA SaveKeeps ==
    ASSUME IInv, NEW w \in Worker, Save(w) PROVE IInv'
<1>1. /\ At(w, "resolve") /\ job[w].left = <<>> /\ Done(w)
      /\ ValidateBlueprintPorts(job[w].bp.nodes, job[w].schemas)
      /\ UNCHANGED <<installed, clock, panicked>>
  BY DEF Save
<1>2. CASE UNCHANGED <<stored, checkedBy>>
  BY <1>1, <1>2, EndKeeps DEF IInv, Types
<1>3. CASE /\ StoreSave(job[w].key, job[w].bp)
           /\ checkedBy' = [checkedBy EXCEPT ![job[w].key] = seen[w]]
  <2> DEFINE k == job[w].key
  <2>1. k \in Key /\ job[w].bp \in Blueprint /\ seen[w] \in Readings /\ JobTypes(job[w])
    BY <1>1 DEF IInv, Types, JobTypes, At
  <2>2. stored' = [stored EXCEPT ![k] = job[w].bp] /\ checkedBy' = [checkedBy EXCEPT ![k] = seen[w]]
    BY <1>3 DEF StoreSave
  <2> HIDE DEF k
  <2>3. /\ stored' \in [Key -> Blueprint \cup {NoBlueprint}]
        /\ checkedBy' \in [Key -> Readings]
        /\ stored'[k] = job[w].bp /\ checkedBy'[k] = seen[w]
        /\ \A l \in Key : l # k => stored'[l] = stored[l] /\ checkedBy'[l] = checkedBy[l]
    BY <2>1, <2>2 DEF IInv, Types
  <2>4. /\ job' = [x \in Worker |-> job'[x]]
        /\ seen' \in [Worker -> Readings]
        /\ \A x \in Worker : x # w => job'[x] = job[x] /\ seen'[x] = seen[x]
        /\ JobTypes(job'[w]) /\ job'[w].pc = "idle"
    BY <1>1, DoneResets DEF IInv
  <2>5. (\A x \in Worker : JobTypes(job'[x])) /\ JobsInOrder'
    BY <1>1, <2>4, OneJobMoves
  <2>6. Types'
    BY <1>1, <2>3, <2>4, <2>5 DEF IInv, Types
  <2>7. \E version \in [Plugin -> Version \cup {NoManifest}] :
            /\ \A p \in Plugin : version[p] \in seen[w][p]
            /\ ValidateBlueprintPorts(job[w].bp.nodes, SchemasUnder(job[w].bp.nodes, version))
    BY <1>1, <2>1, ReadAtOneVersion DEF IInv, JobsInOrder, At
  <2>8. SavedWasChecked'
    BY <2>3, <2>7 DEF IInv, SavedWasChecked
  <2> QED BY <2>5, <2>6, <2>8 DEF IInv
<1> QED BY <1>2, <1>3 DEF Save

\* A mismatch ends the request.
LEMMA RejectPortsKeeps ==
    ASSUME IInv, NEW w \in Worker, RejectPorts(w) PROVE IInv'
  BY EndKeeps DEF RejectPorts, IInv, Types

\* A delete starts with the Blueprint as it is stored.
LEMMA DeleteGetKeeps ==
    ASSUME IInv, NEW w \in Worker, NEW u \in User, NEW key \in Key, DeleteGet(w, u, key)
    PROVE  IInv'
<1> DEFINE j == [IdleJob EXCEPT !.pc = "delete", !.user = u, !.key = key, !.bp = stored[key]]
<1>1. SetJob(w, j) /\ UNCHANGED <<stored, installed, clock, seen, checkedBy, panicked>>
  BY DEF DeleteGet
<1>2. stored[key] \in Blueprint
  BY DEF IInv, Types, DeleteGet, OwnBlueprint, StoreGet
<1>3. j \in Fields("delete", u, key, stored[key], <<>>, Empty, Empty)
  BY DEF Fields, IdleJob
<1> HIDE DEF j
<1>4. /\ j.pc = "delete" /\ j.user = u /\ j.key = key /\ j.bp = stored[key]
      /\ j.left = <<>> /\ j.manifests = Empty /\ j.schemas = Empty
  BY <1>3 DEF Fields
<1>5. JobTypes(j)
  BY <1>2, <1>3, <1>4 DEF JobTypes, Empty
<1>6. /\ job' = [x \in Worker |-> job'[x]] /\ job'[w] = j
      /\ \A x \in Worker : x # w => job'[x] = job[x]
  BY <1>1 DEF SetJob, IInv, Types
<1>7. (\A x \in Worker : JobTypes(job'[x])) /\ JobsInOrder'
  BY <1>1, <1>4, <1>5, <1>6, OneJobMoves
<1>8. Types'
  BY <1>1, <1>6, <1>7 DEF IInv, Types
<1>9. SavedWasChecked'
  BY <1>1, StoredUnchanged DEF IInv
<1> QED BY <1>7, <1>8, <1>9 DEF IInv

\* A delete takes a Blueprint away, so there is less to hold of.
LEMMA DeleteKeeps ==
    ASSUME IInv, NEW w \in Worker, Delete(w) PROVE IInv'
<1>1. At(w, "delete") /\ Done(w) /\ UNCHANGED <<installed, clock, checkedBy, panicked>>
  BY DEF Delete
<1>2. CASE UNCHANGED stored
  BY <1>1, <1>2, EndKeeps DEF IInv, Types
<1>3. CASE StoreDelete(job[w].key)
  <2>1. /\ stored' \in [Key -> Blueprint \cup {NoBlueprint}]
        /\ \A k \in Key : stored'[k] # NoBlueprint => stored'[k] = stored[k]
    BY <1>3 DEF StoreDelete, IInv, Types
  <2>2. /\ job' = [x \in Worker |-> job'[x]]
        /\ seen' \in [Worker -> Readings]
        /\ \A x \in Worker : x # w => job'[x] = job[x] /\ seen'[x] = seen[x]
        /\ JobTypes(job'[w]) /\ job'[w].pc = "idle"
    BY <1>1, DoneResets DEF IInv
  <2>3. (\A x \in Worker : JobTypes(job'[x])) /\ JobsInOrder'
    BY <1>1, <2>2, OneJobMoves
  <2>4. Types'
    BY <1>1, <2>1, <2>2, <2>3 DEF IInv, Types
  <2>5. SavedWasChecked'
    BY <1>1, <2>1 DEF IInv, SavedWasChecked
  <2> QED BY <2>3, <2>4, <2>5 DEF IInv
<1> QED BY <1>2, <1>3 DEF Delete

\* A plugin changes under the requests: they hold what they held, and could read one more.
LEMMA ChangePluginKeeps ==
    ASSUME IInv, NEW p \in Plugin, ChangePlugin(p) PROVE IInv'
<1>1. UNCHANGED <<stored, job, clock, checkedBy, panicked>>
  BY DEF ChangePlugin
<1>2. PICK v \in Version \cup {NoManifest} :
        /\ installed' = [installed EXCEPT ![p] = v]
        /\ seen' = [w \in Worker |-> IF At(w, "resolve") THEN [seen[w] EXCEPT ![p] = @ \cup {v}]
                                     ELSE seen[w]]
  BY DEF ChangePlugin
<1>3. installed' \in [Plugin -> Version \cup {NoManifest}]
  BY <1>2 DEF IInv, Types
<1>4. ASSUME NEW w \in Worker
      PROVE  seen'[w] \in Readings /\ JobInv(job[w], seen'[w], installed')
  <2>1. seen[w] \in Readings /\ JobInv(job[w], seen[w], installed)
    BY DEF IInv, Types, JobsInOrder
  <2>2. CASE job[w].pc = "resolve"
    <3>1. seen'[w] = [seen[w] EXCEPT ![p] = @ \cup {v}]
      BY <1>2, <2>2 DEF At
    <3>2. /\ seen'[w] \in Readings /\ v \in seen'[w][p]
          /\ \A q \in Plugin : seen[w][q] \subseteq seen'[w][q]
      BY <2>1, <3>1 DEF Readings
    <3>3. SeesInstalled(seen'[w], installed')
      BY <1>2, <2>1, <2>2, <3>2 DEF JobInv, SeesInstalled, IInv, Types
    <3>4. ManifestsWereSeen(job[w], seen'[w])
      <4>1. DOMAIN job[w].manifests \subseteq Plugin /\ ManifestsWereSeen(job[w], seen[w])
        BY <2>1, <2>2 DEF JobInv, IInv, Types, JobTypes
      <4> QED BY <3>2, <4>1 DEF ManifestsWereSeen
    <3> QED BY <2>1, <2>2, <3>2, <3>3, <3>4 DEF JobInv
  <2>3. CASE job[w].pc # "resolve"
    BY <1>2, <2>1, <2>3 DEF At, JobInv
  <2> QED BY <2>2, <2>3
<1>5. seen' \in [Worker -> Readings]
  BY <1>2, <1>4
<1>6. JobsInOrder'
  BY <1>1, <1>4 DEF JobsInOrder
<1>7. Types'
  BY <1>1, <1>3, <1>5 DEF IInv, Types
<1>8. SavedWasChecked'
  BY <1>1, StoredUnchanged DEF IInv
<1> QED BY <1>6, <1>7, <1>8 DEF IInv

\* A step that changes nothing keeps it.
LEMMA StutterKeeps ==
    ASSUME IInv, UNCHANGED vars PROVE IInv'
<1>1. UNCHANGED <<stored, installed, job, clock, seen, checkedBy, panicked>>
  BY DEF vars
<1>2. Types' /\ JobsInOrder'
  BY <1>1 DEF IInv, Types, JobsInOrder
<1>3. SavedWasChecked'
  BY <1>1, StoredUnchanged DEF IInv
<1> QED BY <1>2, <1>3 DEF IInv

\* The inductive invariant: what each request has cached is of one version of each plugin.
THEOREM Invariance == Spec => []IInv
<1>1. IInv /\ [Next]_vars => IInv'
  <2> SUFFICES ASSUME IInv, [Next]_vars PROVE IInv'
    OBVIOUS
  <2>1. ASSUME NEW w \in Worker, NEW u \in User, NEW d \in Draft, Create(w, u, d) PROVE IInv'
    BY <2>1, CreateKeeps
  <2>2. ASSUME NEW w \in Worker, NEW u \in User, NEW k \in Key, NEW d \in Draft, Update(w, u, k, d)
        PROVE  IInv'
    BY <2>2, UpdateKeeps
  <2>3. ASSUME NEW w \in Worker, NEW u \in User, NEW k \in Key, DeleteGet(w, u, k) PROVE IInv'
    BY <2>3, DeleteGetKeeps
  <2>4. ASSUME NEW w \in Worker, ResolveNode(w) PROVE IInv'
    BY <2>4, ResolveNodeKeeps
  <2>5. ASSUME NEW w \in Worker, RejectPorts(w) PROVE IInv'
    BY <2>5, RejectPortsKeeps
  <2>6. ASSUME NEW w \in Worker, Save(w) PROVE IInv'
    BY <2>6, SaveKeeps
  <2>7. ASSUME NEW w \in Worker, Delete(w) PROVE IInv'
    BY <2>7, DeleteKeeps
  <2>8. ASSUME NEW p \in Plugin, ChangePlugin(p) PROVE IInv'
    BY <2>8, ChangePluginKeeps
  <2>9. CASE UNCHANGED vars
    BY <2>9, StutterKeeps
  <2> QED BY <2>1, <2>2, <2>3, <2>4, <2>5, <2>6, <2>7, <2>8, <2>9 DEF Next
<1> QED BY <1>1, InitIInv, PTL DEF Spec

\* The stored Blueprints, the plugins and the requests are of their types, and no request
\* keeps a schema that is missing (resolveNodeSchemas).
THEOREM TypeCorrect == Spec => []TypeOK
<1>1. IInv => TypeOK
  BY DEF IInv, Types, JobTypes, TypeOK, At
<1> QED BY <1>1, Invariance, PTL

\* Every stored Blueprint passes the port check for plugins as they were, one version of each,
\* all read while its request was under way, however they were upgraded meanwhile.
THEOREM OneVersionOfEach == Spec => []SavedWasChecked
<1>1. IInv => SavedWasChecked
  BY DEF IInv
<1> QED BY <1>1, Invariance, PTL
=============================================================================
