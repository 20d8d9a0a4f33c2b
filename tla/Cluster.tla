------------------------------ MODULE Cluster ------------------------------
(***************************************************************************)
(* The cluster metadata of cluster.cpp: the in-memory node list and the   *)
(* ClusterStore it is saved to.  Every public method takes the Cluster    *)
(* mutex for its whole run, so each one is one atomic step.  A save to    *)
(* the store may fail, and the process may restart, reloading the list    *)
(* from the store.  migrate_kv_data also talks to the two nodes' servers; *)
(* what they answer is a nondeterministic outcome.                        *)
(*                                                                         *)
(* A key range is (begin, end] over the key points 0 .. MaxKey, 0 being   *)
(* the empty key "", as the comment of ClusterMigrate::move_range and its *)
(* keys("", max_key) scan use it.                                          *)
(***************************************************************************)
EXTENDS Integers, Sequences, FiniteSets

CONSTANTS
    MaxKey,     \* the largest key point
    MaxId,      \* bound on next_id: the number of add_kv_node calls
    MaxRestarts \* bound on process restarts

VARIABLES
    kv_node_list,   \* the in-memory vector of nodes, in insertion order
    store,          \* ClusterStore: id -> the node as last saved
    next_id,        \* the id the next add_kv_node hands out
    ret,            \* the return value of the last call
    restarts        \* restarts so far (bounded)

vars == <<kv_node_list, store, next_id, ret, restarts>>

SE == INSTANCE SequencesExt

KeyPoints == 0 .. MaxKey
Ranges == {r \in [begin : KeyPoints, end : KeyPoints] : r.begin < r.end}
Statuses == {"INIT", "SERVING"}
\* Node's default range is KeyRange("", ""), which holds no key.
EmptyRange == [begin |-> 0, end |-> 0]

(***************************************************************************)
(* KeyRange and ClusterStore are declared in headers outside src/; these  *)
(* follow spec 3.3: a range is an interval of keys, and two ranges        *)
(* overlap when they share a key.  The store keeps one entry per id.      *)
(***************************************************************************)
Covers(r) == {k \in KeyPoints : r.begin < k /\ k <= r.end}
Overlapped(r1, r2) == Covers(r1) \cap Covers(r2) # {}

SaveKvNode(st, node) == [i \in DOMAIN st \cup {node.id} |-> IF i = node.id THEN node ELSE st[i]]
DelKvNodeStored(st, id) == [i \in DOMAIN st \ {id} |-> st[i]]

\* The positions of the nodes with a given id; get_kv_node_ref takes the first.
Positions(id) == {i \in 1 .. Len(kv_node_list) : kv_node_list[i].id = id}
GetKvNodeRef(id) == IF Positions(id) = {} THEN 0
                    ELSE CHOOSE i \in Positions(id) : \A j \in Positions(id) : i <= j

\* Cluster::Cluster, then Cluster::init on an empty store.
Init ==
    /\ kv_node_list = <<>>
    /\ store = <<>>
    /\ next_id = 1
    /\ ret = 0
    /\ restarts = 0

\* add_kv_node: the id is taken before the save, so a failed save uses it up.
AddKvNode ==
    /\ next_id <= MaxId
    /\ LET node == [id |-> next_id, status |-> "INIT", range |-> EmptyRange]
       IN \E saved \in BOOLEAN :
            /\ next_id' = next_id + 1
            /\ IF saved
               THEN /\ store' = SaveKvNode(store, node)
                    /\ kv_node_list' = Append(kv_node_list, node)
                    /\ ret' = node.id
               ELSE ret' = -1 /\ UNCHANGED <<store, kv_node_list>>
    /\ UNCHANGED restarts

\* del_kv_node: the store first, then the vector.
DelKvNode(id) ==
    /\ LET i == GetKvNodeRef(id)
       IN IF i = 0 THEN ret' = 0 /\ UNCHANGED <<kv_node_list, store>>
          ELSE \E deleted \in BOOLEAN :
                 IF deleted
                 THEN /\ store' = DelKvNodeStored(store, id)
                      /\ kv_node_list' = SubSeq(kv_node_list, 1, i - 1)
                                         \o SubSeq(kv_node_list, i + 1, Len(kv_node_list))
                      /\ ret' = 1
                 ELSE ret' = -1 /\ UNCHANGED <<kv_node_list, store>>
    /\ UNCHANGED <<next_id, restarts>>

\* Replace the node at position i in memory and save it; a failed save
\* returns -1 and leaves the change in memory.
UpdateAndSave(i, node) ==
    /\ kv_node_list' = [kv_node_list EXCEPT ![i] = node]
    /\ \E saved \in BOOLEAN :
         IF saved THEN store' = SaveKvNode(store, node) /\ ret' = 1
         ELSE ret' = -1 /\ UNCHANGED store

\* set_kv_range: refused when the range overlaps another SERVING node.
SetKvRange(id, range) ==
    /\ IF \E j \in 1 .. Len(kv_node_list) :
              /\ kv_node_list[j].id # id
              /\ kv_node_list[j].status = "SERVING"
              /\ Overlapped(kv_node_list[j].range, range)
       THEN ret' = -1 /\ UNCHANGED <<kv_node_list, store>>
       ELSE LET i == GetKvNodeRef(id)
            IN IF i = 0 THEN ret' = 0 /\ UNCHANGED <<kv_node_list, store>>
               ELSE UpdateAndSave(i, [kv_node_list[i] EXCEPT !.range = range])
    /\ UNCHANGED <<next_id, restarts>>

\* set_kv_status: no check against the other nodes.
SetKvStatus(id, status) ==
    /\ LET i == GetKvNodeRef(id)
       IN IF i = 0 THEN ret' = 0 /\ UNCHANGED <<kv_node_list, store>>
          ELSE UpdateAndSave(i, [kv_node_list[i] EXCEPT !.status = status])
    /\ UNCHANGED <<next_id, restarts>>

(***************************************************************************)
(* ClusterMigrate::migrate_kv_data.  Before any range changes it can fail *)
(* (init_client, check_version, a keys or set_kv_range call to the src    *)
(* server, a move_key), or find nothing to move; the cluster's memory is  *)
(* then untouched and it returns -1 or 0.  Otherwise move_range returns   *)
(* the largest moved key m: a key the src server holds in ("", src.end],  *)
(* which after an interrupted migration may lie below src.begin.  Then    *)
(* src becomes (m, src.end] and dst (dst.begin, m] in memory, and only    *)
(* then is dst's server told; its failure returns -1.                     *)
(***************************************************************************)
MovedKeys(s) == 1 .. kv_node_list[s].range.end

Migrated(s, d, m) ==
    [kv_node_list EXCEPT
        ![s].range = [begin |-> m, end |-> kv_node_list[s].range.end],
        ![d].range = [begin |-> kv_node_list[d].range.begin, end |-> m]]

\* Cluster::migrate_kv_data: on a size > 0 it saves src, then dst.
MigrateKvData(src_id, dst_id) ==
    /\ LET s == GetKvNodeRef(src_id)
           d == GetKvNodeRef(dst_id)
       IN IF s = 0 \/ d = 0 THEN ret' = -1 /\ UNCHANGED <<kv_node_list, store>>
          ELSE \/ /\ ret' \in {-1, 0}
                  /\ UNCHANGED <<kv_node_list, store>>
               \/ \E m \in MovedKeys(s), dstSet, srcSaved, dstSaved \in BOOLEAN :
                    LET l == Migrated(s, d, m)
                    IN /\ kv_node_list' = l
                       /\ store' = IF dstSet /\ srcSaved
                                   THEN IF dstSaved THEN SaveKvNode(SaveKvNode(store, l[s]), l[d])
                                        ELSE SaveKvNode(store, l[s])
                                   ELSE store
                       /\ ret' = IF dstSet /\ srcSaved /\ dstSaved THEN 1 ELSE -1
    /\ UNCHANGED <<next_id, restarts>>

\* A restart: Cluster::init loads the list from the store and sets next_id
\* one past the largest id it finds.
Restart ==
    /\ restarts < MaxRestarts
    /\ LET ids == DOMAIN store
       IN /\ kv_node_list' = [i \in 1 .. Cardinality(ids) |-> store[SE!SetToSortSeq(ids, <)[i]]]
          /\ next_id' = 1 + (IF ids = {} THEN 0 ELSE SE!Max(ids))
    /\ ret' = 0
    /\ restarts' = restarts + 1
    /\ UNCHANGED store

Next ==
    \/ AddKvNode
    \/ \E id \in 1 .. MaxId :
          \/ DelKvNode(id)
          \/ \E r \in Ranges : SetKvRange(id, r)
          \/ \E st \in Statuses : SetKvStatus(id, st)
          \/ \E id2 \in 1 .. MaxId : MigrateKvData(id, id2)
    \/ Restart

Spec == Init /\ [][Next]_vars

-----------------------------------------------------------------------------
(***************************************************************************)
(* Spec 3.3: two SERVING nodes never have overlapping ranges.             *)
(* set_kv_range refuses a range that overlaps a SERVING node; this asks   *)
(* whether set_kv_status and migrate_kv_data keep it too.                 *)
(***************************************************************************)
ServingDisjoint ==
    \A i, j \in 1 .. Len(kv_node_list) :
        /\ i # j
        /\ kv_node_list[i].status = "SERVING"
        /\ kv_node_list[j].status = "SERVING"
        => ~Overlapped(kv_node_list[i].range, kv_node_list[j].range)

=============================================================================
