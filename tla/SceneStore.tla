----------------------------- MODULE SceneStore -----------------------------
(***************************************************************************)
(* The scene graph of WalkieWorld: walkie_world/scene/store.py, driven by  *)
(* observe_objects, _seed_map_objects and persist of walkie_world/world.py *)
(* and edged by walkie_world/scene/relations.py.                           *)
(*                                                                         *)
(* Builders fold batches of observations into a copy of the node list, cap *)
(* it, swap the scene pointer and rewrite three files, one after another.  *)
(* The process may die or a write may fail between any two of them; the    *)
(* next process loads what the files hold and seeds the surveyed map.      *)
(*                                                                         *)
(* Space is a line of places.  A node keeps what the properties tell       *)
(* apart: class, centroid, bounding box, whether it has a point cloud in   *)
(* RAM, sightings, recency, source, room and whose vector it carries;      *)
(* captions, confidences and the vectors themselves are left out.          *)
(***************************************************************************)
EXTENDS Integers, Sequences, FiniteSets, SequencesExt

CONSTANTS
  Main,          \* the thread that constructs the world and persists at exit
  Builders,      \* threads that call observe_objects
  NoOne,         \* lock value when nobody holds it
  Batches,       \* batches of observations a build may hand over
  MapObjects,    \* the surveyed objects, in map order: <<name, class>>
  Surveys,       \* surveyed footprints a run may start with: [name -> box]
  Classes, LastPlace, RoomOf,
  NoRoom, NoEmb,
  MergeDist,     \* merge_dist
  NearDist,      \* centroid distance of an edge (near_m)
  Cap,           \* prune_max_records; 0 switches the cap off
  MaxBuilds,     \* bound: batches observed in a behaviour
  MaxCrashes,    \* bound: restarts
  MaxFaults      \* bound: file writes that raise

Places  == 0..LastPlace
Threads == Builders \cup {Main}
MapNames == {MapObjects[i][1] : i \in 1..Len(MapObjects)}

Observation == [cls : Classes, at : Places, last : Nat, n : Nat \ {0}, emb : BOOLEAN]

ASSUME SceneAssumption ==
  /\ Main \notin Builders /\ NoOne \notin Threads
  /\ LastPlace \in Nat /\ MergeDist \in Nat /\ NearDist \in Nat
  /\ Cap \in Nat
  /\ MaxBuilds \in Nat /\ MaxCrashes \in Nat /\ MaxFaults \in Nat
  /\ MapNames \cap Nat = {} /\ NoEmb \notin Nat \cup MapNames
  /\ MapObjects \in Seq(MapNames \X Classes)
  /\ \A i, j \in 1..Len(MapObjects) : i # j => MapObjects[i][1] # MapObjects[j][1]
  /\ DOMAIN RoomOf = Places
  /\ \A s \in Surveys : DOMAIN s \subseteq MapNames /\ \A m \in DOMAIN s : s[m] # {} /\ s[m] \subseteq Places
  /\ Batches \subseteq Seq(Observation)

VARIABLES
  scene,    \* SceneStore._scene: [nodes, edges]; embedding rows follow nodes
  disk,     \* nodes.json, embeddings.npy, edges.json
  lock,     \* WalkieWorld._scene_lock: its holder, or NoOne
  stage,    \* where each thread is in observe -> install -> persist
  batch,    \* observations a builder has still to fold
  draft,    \* the node list a builder works on
  worldMap, \* what the map this process has read surveys: [name -> box]
  nextId,   \* fresh perception ids (uuid4 in the code)
  ledger,   \* sightings the live scene should hold (history)
  ledgerDisk, \* sightings nodes.json should hold (history)
  tally,    \* sightings a draft has folded in minus those it pruned (history)
  sightedAt, \* where each surveyed object has been detected so far (history)
  builds, crashes, faults

known   == <<worldMap, sightedAt>>
work    == <<stage, batch, draft, tally>>
bounds  == <<builds, crashes, faults>>
vars    == <<scene, disk, lock, work, known, nextId, ledger, ledgerDisk, bounds>>

Goto(t, label) == stage' = [stage EXCEPT ![t] = label]

AbsDiff(a, b) == IF a >= b THEN a - b ELSE b - a
Hull(S) == {p \in Places : \E a, b \in S : a <= p /\ p <= b}
IsMap(node) == node.src = "map"
Ids(nodes) == {nodes[i].id : i \in 1..Len(nodes)}
Total(counts) ==
  LET sum[i \in 0..Len(counts)] == IF i = 0 THEN 0 ELSE sum[i - 1] + counts[i]
  IN  sum[Len(counts)]
Sightings(nodes) == Total([i \in 1..Len(nodes) |-> nodes[i].n])

(* The members of a finite set in the order R, a strict total one.  The sorts
   of the libraries say nothing to a prover. *)
Arranged(S, R) ==
  CHOOSE s \in [1..Cardinality(S) -> S] :
    \A i, j \in 1..Cardinality(S) : i < j => <<s[i], s[j]>> \in R

-----------------------------------------------------------------------------
(* merge(): one observation against the node list. *)

SameClass(nodes, obs) == {i \in 1..Len(nodes) : nodes[i].cls = obs.cls}

InReach(nodes, obs) ==
  {i \in SameClass(nodes, obs) : AbsDiff(nodes[i].at, obs.at) <= MergeDist}

(* The closest node in reach; of equally close ones the last (d <= best_d). *)
Closest(nodes, obs) ==
  CHOOSE i \in InReach(nodes, obs) :
    \A j \in InReach(nodes, obs) \ {i} :
      LET di == AbsDiff(nodes[i].at, obs.at)
          dj == AbsDiff(nodes[j].at, obs.at)
      IN  di < dj \/ (di = dj /\ j < i)

(* Map placeholders whose footprint the observation falls in. *)
Boxed(nodes, obs) ==
  {i \in SameClass(nodes, obs) : IsMap(nodes[i]) /\ obs.at \in nodes[i].box}

NodeFromObs(obs, id) ==
  [id |-> id, cls |-> obs.cls, at |-> obs.at, box |-> {obs.at}, cloud |-> TRUE,
   n |-> obs.n, last |-> obs.last, src |-> "perception",
   emb |-> IF obs.emb THEN id ELSE NoEmb, room |-> NoRoom]

(* _update_node: the clouds are united and the geometry recomputed from them;
   a node without a cloud (a placeholder, or one loaded from disk) takes the
   observation's.  The centroid of a union lies somewhere in its hull. *)
UpdatedNodes(node, obs) ==
  LET box == IF node.cloud THEN Hull(node.box \cup {obs.at}) ELSE {obs.at} IN
  {[node EXCEPT !.n = @ + obs.n,
                !.last = IF obs.last > @ THEN obs.last ELSE @,
                !.emb = IF obs.emb /\ (@ = NoEmb \/ node.n = 0) THEN node.id ELSE @,
                !.box = box, !.at = p, !.cloud = TRUE] : p \in box}

(* The outcomes of folding one observation into a node list. *)
Fold(nodes, obs, id) ==
  IF InReach(nodes, obs) # {}
  THEN {[nodes EXCEPT ![Closest(nodes, obs)] = u] :
          u \in UpdatedNodes(nodes[Closest(nodes, obs)], obs)}
  ELSE IF Boxed(nodes, obs) # {}
  THEN {[nodes EXCEPT ![Min(Boxed(nodes, obs))] = u] :
          u \in UpdatedNodes(nodes[Min(Boxed(nodes, obs))], obs)}
  ELSE {Append(nodes, NodeFromObs(obs, id))}

(* The positions of a list as the cap arranges them: map nodes in their order,
   then the rest, newest first. *)
Precedes(nodes) ==
  {p \in (1..Len(nodes)) \X (1..Len(nodes)) :
     LET x == nodes[p[1]]
         y == nodes[p[2]]
     IN  IF IsMap(x) \/ IsMap(y) THEN IsMap(x) /\ (IsMap(y) => p[1] < p[2])
         ELSE x.last > y.last \/ (x.last = y.last /\ p[1] < p[2])}

KeptOf(nodes, order) ==
  Max({Cap} \cup {k \in 1..Len(nodes) : IsMap(nodes[order[k]])})

(* Mutant: of the perceived nodes the stalest are kept. *)
CappedStalest(nodes) ==
  LET order == Arranged(1..Len(nodes),
                 {p \in (1..Len(nodes)) \X (1..Len(nodes)) :
                    IF IsMap(nodes[p[1]]) = IsMap(nodes[p[2]])
                    THEN <<p[2], p[1]>> \in Precedes(nodes) ELSE p \in Precedes(nodes)})
  IN  IF Cap = 0 \/ Len(nodes) <= Cap THEN nodes
      ELSE [k \in 1..KeptOf(nodes, order) |-> nodes[order[k]]]

(* The cap: map nodes stay, and as many of the newest others as fit. *)
Capped(nodes) ==
  LET order == Arranged(1..Len(nodes), Precedes(nodes))
  IN  IF Cap = 0 \/ Len(nodes) <= Cap THEN nodes
      ELSE [k \in 1..KeptOf(nodes, order) |-> nodes[order[k]]]

-----------------------------------------------------------------------------
(* merge_map_objects(): refresh never-perceived placeholders, append missing
   ones, leave promoted ones alone.  `embeds` says whether the embedding
   server answers; if not, a cached vector of the same name is kept. *)

MapNode(m, survey, embeds, cached) ==
  [id |-> m[1], cls |-> m[2], at |-> (Min(survey[m[1]]) + Max(survey[m[1]])) \div 2, box |-> survey[m[1]],
   cloud |-> FALSE, n |-> 0, last |-> 0, src |-> "map",
   emb |-> IF embeds THEN m[1] ELSE cached, room |-> NoRoom]

Surveyed(id, survey) == id \in MapNames /\ id \in DOMAIN survey
MapObject(id) == CHOOSE m \in Range(MapObjects) : m[1] = id

(* The nodes of the surveyed objects the list does not hold, in map order. *)
MissingNodes(nodes, survey, embeds) ==
  LET missing == {k \in 1..Len(MapObjects) :
                    MapObjects[k][1] \in DOMAIN survey \ Ids(nodes)}
      order == Arranged(missing, {p \in missing \X missing : p[1] < p[2]})
  IN  [i \in 1..Cardinality(missing) |->
         MapNode(MapObjects[order[i]], survey, embeds, NoEmb)]

(* Mutant: without the embedding server the cached placeholder is kept whole. *)
SeededCached(nodes, survey, embeds) ==
  [i \in 1..Len(nodes) |->
     IF Surveyed(nodes[i].id, survey) /\ nodes[i].n = 0 /\ (embeds \/ nodes[i].emb = NoEmb)
     THEN MapNode(MapObject(nodes[i].id), survey, embeds, nodes[i].emb)
     ELSE nodes[i]]
  \o MissingNodes(nodes, survey, embeds)

Seeded(nodes, survey, embeds) ==
  [i \in 1..Len(nodes) |->
     IF Surveyed(nodes[i].id, survey) /\ nodes[i].n = 0
     THEN MapNode(MapObject(nodes[i].id), survey, embeds, nodes[i].emb)
     ELSE nodes[i]]
  \o MissingNodes(nodes, survey, embeds)

(* derive_relations, reduced to its near edges: an unordered pair per edge. *)
Relations(nodes) ==
  {<<nodes[e[1]].id, nodes[e[2]].id>> : e \in
     {p \in (1..Len(nodes)) \X (1..Len(nodes)) :
        p[1] < p[2] /\ AbsDiff(nodes[p[1]].at, nodes[p[2]].at) <= NearDist}}

(* _stamp_rooms *)
Stamped(nodes) == [i \in 1..Len(nodes) |-> [nodes[i] EXCEPT !.room = RoomOf[nodes[i].at]]]

-----------------------------------------------------------------------------
(* load(): a node without a vector adopts the row of embeddings.npy at its
   position, and edges between unknown ids are dropped.  Clouds are not kept. *)
Loaded(files) ==
  [nodes |-> [i \in 1..Len(files.nodes) |->
                [files.nodes[i] EXCEPT
                   !.cloud = FALSE,
                   !.emb = IF @ = NoEmb /\ i <= Len(files.emb) THEN files.emb[i] ELSE @]],
   edges |-> {e \in files.edges :
                e[1] \in Ids(files.nodes) /\ e[2] \in Ids(files.nodes)}]

EmptyScene == [nodes |-> <<>>, edges |-> {}]

Init ==
  /\ scene = EmptyScene
  /\ disk = [nodes |-> <<>>, emb |-> <<>>, edges |-> {}]
  /\ lock = Main
  /\ stage = [t \in Threads |-> IF t = Main THEN "seed" ELSE "idle"]
  /\ batch = [t \in Threads |-> <<>>]
  /\ draft = [t \in Threads |-> <<>>]
  /\ tally = [t \in Threads |-> 0]
  /\ worldMap \in Surveys /\ sightedAt = [m \in MapNames |-> {}]
  /\ nextId = 1
  /\ ledger = 0 /\ ledgerDisk = 0
  /\ builds = 0 /\ crashes = 0 /\ faults = 0

-----------------------------------------------------------------------------
(* WalkieWorld.__init__: the store has loaded its files; seed the map. *)
Seed ==
  /\ stage[Main] = "seed"
  /\ \E embeds \in BOOLEAN :
       draft' = [draft EXCEPT ![Main] = Seeded(scene.nodes, worldMap, embeds)]
  /\ tally' = [tally EXCEPT ![Main] = 0]
  /\ IF DOMAIN worldMap = {}       \* `if not mos: return`
     THEN lock' = NoOne /\ Goto(Main, "idle")
     ELSE lock' = lock /\ Goto(Main, "swap")
  /\ UNCHANGED <<known, scene, disk, batch, nextId, ledger, ledgerDisk, bounds>>

(* observe_objects: take the lock, copy the node list. *)
(* Mutant: the node list is copied without _scene_lock. *)
BeginUnlocked(b) ==
  /\ stage[b] = "idle" /\ builds < MaxBuilds
  /\ \E obs \in Batches : batch' = [batch EXCEPT ![b] = obs]
  /\ draft' = [draft EXCEPT ![b] = scene.nodes]
  /\ tally' = [tally EXCEPT ![b] = 0]
  /\ lock' = b
  /\ builds' = builds + 1
  /\ Goto(b, "fold")
  /\ UNCHANGED <<known, scene, disk, nextId, ledger, ledgerDisk, crashes, faults>>

Begin(b) ==
  /\ stage[b] = "idle" /\ lock = NoOne /\ builds < MaxBuilds
  /\ \E obs \in Batches : batch' = [batch EXCEPT ![b] = obs]
  /\ draft' = [draft EXCEPT ![b] = scene.nodes]
  /\ tally' = [tally EXCEPT ![b] = 0]
  /\ lock' = b
  /\ builds' = builds + 1
  /\ Goto(b, "fold")
  /\ UNCHANGED <<known, scene, disk, nextId, ledger, ledgerDisk, crashes, faults>>

(* The surveyed objects whose node in `old` gained a sighting in `new`. *)
Gained(old, new) ==
  {old[i].id : i \in {k \in 1..Len(old) : new[k].n > old[k].n}} \cap MapNames

FoldOne(b) ==
  /\ stage[b] = "fold" /\ batch[b] # <<>>
  /\ LET obs == Head(batch[b]) IN
       /\ draft' \in {[draft EXCEPT ![b] = d] : d \in Fold(draft[b], obs, nextId)}
       /\ tally' = [tally EXCEPT ![b] = @ + obs.n]
       /\ sightedAt' = [m \in MapNames |->
            sightedAt[m] \cup IF m \in Gained(draft[b], draft'[b]) THEN {obs.at} ELSE {}]
  /\ batch' = [batch EXCEPT ![b] = Tail(@)]
  /\ nextId' = IF Len(draft'[b]) > Len(draft[b]) THEN nextId + 1 ELSE nextId
  /\ UNCHANGED <<worldMap, scene, disk, lock, stage, ledger, ledgerDisk, bounds>>

Prune(b) ==
  /\ stage[b] = "fold" /\ batch[b] = <<>>
  /\ draft' = [draft EXCEPT ![b] = Capped(@)]
  /\ tally' = [tally EXCEPT
       ![b] = @ - (Sightings(draft[b]) - Sightings(Capped(draft[b])))]
  /\ Goto(b, "swap")
  /\ UNCHANGED <<known, scene, disk, lock, batch, nextId, ledger, ledgerDisk, bounds>>

(* install(): stamp rooms, assemble the new scene, swap the pointer. *)
(* Mutant: the relations are derived before the merge. *)
SwapStale(t) ==
  /\ stage[t] = "swap"
  /\ scene' = [nodes |-> Stamped(draft[t]), edges |-> Relations(scene.nodes)]
  /\ ledger' = ledger + tally[t]
  /\ Goto(t, "nodes")
  /\ UNCHANGED <<known, disk, lock, batch, draft, tally, nextId, ledgerDisk, bounds>>

Swap(t) ==
  /\ stage[t] = "swap"
  /\ scene' = [nodes |-> Stamped(draft[t]), edges |-> Relations(draft[t])]
  /\ ledger' = ledger + tally[t]
  /\ Goto(t, "nodes")
  /\ UNCHANGED <<known, disk, lock, batch, draft, tally, nextId, ledgerDisk, bounds>>

(* _persist(): three files, each replaced whole, one after another. *)
WriteNodes(t) ==
  /\ stage[t] = "nodes"
  /\ disk' = [disk EXCEPT !.nodes = scene.nodes]
  /\ ledgerDisk' = ledger
  /\ Goto(t, "emb")
  /\ UNCHANGED <<known, scene, lock, batch, draft, tally, nextId, ledger, bounds>>

WriteEmb(t) ==
  /\ stage[t] = "emb"
  /\ disk' = [disk EXCEPT !.emb = [i \in 1..Len(scene.nodes) |-> scene.nodes[i].emb]]
  /\ Goto(t, "edges")
  /\ UNCHANGED <<known, scene, lock, batch, draft, tally, nextId, ledger, ledgerDisk, bounds>>

WriteEdges(t) ==
  /\ stage[t] = "edges"
  /\ disk' = [disk EXCEPT !.edges = scene.edges]
  /\ lock' = NoOne
  /\ Goto(t, "idle")
  /\ UNCHANGED <<known, scene, batch, draft, tally, nextId, ledger, ledgerDisk, bounds>>

(* A file cannot be written: the exception leaves install() and the build;
   the scene in memory stays ahead of the files.  In Main it ends the process
   (seeding) or is the last thing it does (persist): that is Restart. *)
WriteFails(b) ==
  /\ stage[b] \in {"nodes", "emb", "edges"} /\ faults < MaxFaults
  /\ faults' = faults + 1
  /\ lock' = NoOne
  /\ Goto(b, "idle")
  /\ UNCHANGED <<known, scene, disk, batch, draft, tally, nextId, ledger, ledgerDisk,
                 builds, crashes>>

(* WalkieWorld.persist() at shutdown, once the build worker is drained. *)
Persist ==
  /\ lock = NoOne /\ \A t \in Threads : stage[t] = "idle"
  /\ scene.nodes # disk.nodes
  /\ lock' = Main
  /\ Goto(Main, "nodes")
  /\ UNCHANGED <<known, scene, disk, batch, draft, tally, nextId, ledger, ledgerDisk, bounds>>

(* The process ends, at any step, and another one loads the files. *)
Restart ==
  /\ crashes < MaxCrashes
  /\ crashes' = crashes + 1
  /\ worldMap' \in Surveys
  /\ scene' = Loaded(disk)
  /\ ledger' = ledgerDisk
  /\ lock' = Main
  /\ stage' = [t \in Threads |-> IF t = Main THEN "seed" ELSE "idle"]
  /\ batch' = [t \in Threads |-> <<>>]
  /\ draft' = [t \in Threads |-> <<>>]
  /\ tally' = [t \in Threads |-> 0]
  /\ UNCHANGED <<sightedAt, disk, nextId, ledgerDisk, builds, faults>>

Install(t) == Swap(t) \/ WriteNodes(t) \/ WriteEmb(t) \/ WriteEdges(t)

Next ==
  \/ Seed \/ Persist \/ Restart
  \/ \E b \in Builders : Begin(b) \/ FoldOne(b) \/ Prune(b) \/ WriteFails(b)
  \/ \E t \in Threads : Install(t)

Spec == Init /\ [][Next]_vars
-----------------------------------------------------------------------------
(* Properties *)

Node == [id : Nat \cup MapNames, cls : Classes, at : Places, box : SUBSET Places,
         cloud : BOOLEAN, n : Nat, last : Nat, src : {"map", "perception"},
         emb : Nat \cup MapNames \cup {NoEmb}, room : Range(RoomOf) \cup {NoRoom}]

AllIds == Nat \cup MapNames

TypeOK ==
  /\ scene \in [nodes : Seq(Node), edges : SUBSET (AllIds \X AllIds)]
  /\ disk \in [nodes : Seq(Node), emb : Seq(AllIds \cup {NoEmb}),
               edges : SUBSET (AllIds \X AllIds)]
  /\ lock \in Threads \cup {NoOne}
  /\ stage \in [Threads -> {"idle", "seed", "fold", "swap", "nodes", "emb", "edges"}]
  /\ batch \in [Threads -> Seq(Observation)]
  /\ draft \in [Threads -> Seq(Node)] /\ tally \in [Threads -> Int]
  /\ worldMap \in Surveys /\ sightedAt \in [MapNames -> SUBSET Places]
  /\ nextId \in Nat /\ ledger \in Nat /\ ledgerDisk \in Nat

(* No sighting is lost or counted twice: what the nodes of the scene, and of
   nodes.json, have been seen adds up to what was observed into them less what
   the cap dropped, through concurrent builds, promotions, re-seedings of the
   map and restarts from any step of an install. *)
LedgerBalanced ==
  /\ Sightings(scene.nodes) = ledger
  /\ Sightings(disk.nodes) = ledgerDisk

(* The cap drops the stalest sightings: a perceived node that leaves the scene
   was last seen no later than any perceived node that stays. *)
StalestPruned ==
  [][\A b \in Builders : Prune(b) =>
       \A i, j \in 1..Len(draft[b]) :
         LET x == draft[b][i]
             y == draft[b][j]
         IN  /\ x.id \notin Ids(draft'[b])
             /\ y.id \in Ids(draft'[b]) /\ ~IsMap(y)
             => x.last <= y.last]_vars

Started == stage[Main] \notin {"seed", "swap"}

(* The edges a query reads are those of the node positions it reads, and name
   only nodes it can fetch; after a restart from torn files too, because the
   map seeding of the start derives them again. *)
EdgesFollowNodes ==
  /\ \A e \in scene.edges : {e[1], e[2]} \subseteq Ids(scene.nodes)
  /\ Started => scene.edges = Relations(scene.nodes)

(* What the file records of a surveyed object is never missing in memory: the
   object itself, how often it was seen, that it has a vector. *)
Retained(recorded, nodes) ==
  \A i \in 1..Len(recorded) : IsMap(recorded[i]) =>
    \E j \in 1..Len(nodes) :
      /\ nodes[j].id = recorded[i].id /\ nodes[j].n >= recorded[i].n
      /\ recorded[i].emb # NoEmb => nodes[j].emb # NoEmb

(* A surveyed object that was seen lies where it was seen, whatever a survey
   says of it. *)
Grounded(nodes) ==
  \A i \in 1..Len(nodes) : IsMap(nodes[i]) /\ nodes[i].n > 0 =>
    nodes[i].box \subseteq Hull(sightedAt[nodes[i].id])

(* One that was never seen lies where the process's own map has it. *)
AsSurveyed(nodes) ==
  \A i \in 1..Len(nodes) :
    IsMap(nodes[i]) /\ nodes[i].n = 0 /\ nodes[i].id \in DOMAIN worldMap =>
      nodes[i].box = worldMap[nodes[i].id]

(* The list holds every object of that map, once. *)
Complete(nodes) ==
  \A m \in DOMAIN worldMap :
    Cardinality({i \in 1..Len(nodes) : nodes[i].id = m}) = 1

(* The surveyed objects survive: through detections that turn placeholders
   real, builds of several threads, the cap, crashes between any two writes,
   and starts that find another survey and perhaps no embedding server, none is
   lost, doubled or unlearnt, and none lies where neither a detection nor the
   survey of this process puts it. *)
MapObjectsKept ==
  /\ Retained(disk.nodes, scene.nodes)
  /\ Grounded(scene.nodes) /\ Grounded(disk.nodes)
  /\ Started => AsSurveyed(scene.nodes) /\ Complete(scene.nodes)

(* store.py: a seeding without the embedding server may "keep the previously
   cached name embedding".  The code falsifies it: rows are paired with nodes by
   position on load, so after files torn between the nodes and the rows it may
   keep another node's (README, section 6), and no run checks it. *)
VectorIsOwn ==
  Started => \A i \in 1..Len(scene.nodes) :
    IsMap(scene.nodes[i]) => scene.nodes[i].emb \in {NoEmb, scene.nodes[i].id}

(* store.py: "Map nodes are authoritative -- never pruned -- so the cap applies
   only to perception nodes".  The code falsifies it (README, section 6), and no
   run checks it. *)
CapOnPerceptionOnly ==
  [][\A b \in Builders : Prune(b) =>
       \/ draft'[b] = draft[b]
       \/ Cardinality({i \in 1..Len(draft[b]) : ~IsMap(draft[b][i])}) > Cap]_vars
=============================================================================
