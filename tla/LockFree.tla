------------------------------ MODULE LockFree -----------------------------
(***************************************************************************)
(* The containers of cyber/base that have compare-and-swap for a lock.     *)
(*                                                                         *)
(* atomic_hash_map.h: one bucket of the lock-free map (a key is only ever  *)
(* looked up in its own bucket), a list of entries sorted by key to which  *)
(* Set() adds with a compare-and-swap and from which nothing is removed.   *)
(* A call of Set() allocates two values, one inside its new entry and a    *)
(* spare one, and deletes what it does not link.  Entries and values are   *)
(* named by the number of the call that allocated them.  Find() walks the  *)
(* list in several loads.  Entries stay, so the walk returns what it would *)
(* return had it run at its last load, and is one step; the load of        *)
(* value_ptr after a hit is part of it for the same reason.  An address is *)
(* not used again after its delete.                                        *)
(*                                                                         *)
(* concurrent_object_pool.h: the nodes of an arena on a free list whose    *)
(* head carries a change count, so that a compare-and-swap of a head that  *)
(* went away and came back fails.  GetObject() and ConstructObject() take  *)
(* a node with FindFreeHead(), the deleter of the pointer they return      *)
(* gives it back with ReleaseObject().                                     *)
(***************************************************************************)
EXTENDS Integers, FiniteSets

CONSTANTS
  Keys,        \* keys of the bucket, naturals above 0
  Callers,     \* threads of the map
  MaxSets,     \* bound: calls of Set()
  Users,       \* threads of the pool
  PoolSize,    \* capacity_, at least 1: the constructor writes node size - 1
  MaxCount     \* bound: changes of the head

VARIABLES
  bucket,      \* key, value_ptr and next of each entry; entry 0 is head_
  deleted,     \* the values deleted so far
  call,        \* per thread: the operation under way and its locals
  sets,        \* history: each call of Set(), and those done before it began
  free_head_,  \* count, net, node
  nexts,       \* next of each node
  user         \* per thread: pc, old_head, the next it read, nodes it owns

-----------------------------------------------------------------------------
(* AtomicHashMap.                                                          *)

mapVars == <<bucket, deleted, call, sets>>

Entries == 0..MaxSets
Null == MaxSets + 1
InEntry(n) == <<"entry", n>>
Spare(n) == <<"spare", n>>
Done == {n \in 1..MaxSets : sets[n].state = "done"}

MapInit ==
  /\ bucket = [key |-> [e \in Entries |-> 0], val |-> [e \in Entries |-> InEntry(e)],
               next |-> [e \in Entries |-> Null]]
  /\ deleted = {}
  /\ call = [t \in Callers |-> [pc |-> "idle"]]
  /\ sets = [n \in 1..MaxSets |-> [state |-> "none", before |-> {}]]

\* The entries that head_ leads to: those in every set that has it and, with
\* an entry, the next one.
Linked ==
  {e \in Entries :
     \A S \in SUBSET Entries :
       0 \in S /\ (\A x \in S : bucket.next[x] = Null \/ bucket.next[x] \in S) => e \in S}

\* Where Find(key) stops: target is the first entry not below the key.
Prev(k) ==
  CHOOSE e \in Linked :
    /\ e = 0 \/ bucket.key[e] < k
    /\ bucket.next[e] = Null \/ ~(bucket.key[bucket.next[e]] < k)
Target(k) == bucket.next[Prev(k)]
Find(k) == Target(k) # Null /\ bucket.key[Target(k)] = k

\* Set(key) and Set(key, value): both values are allocated up front.
Set(t, k) ==
  /\ call[t].pc = "idle"
  /\ \E n \in 1..MaxSets :
       /\ sets[n].state = "none"
       /\ \A m \in 1..(n - 1) : sets[m].state # "none"
       /\ call' = [call EXCEPT ![t] = [pc |-> "find", n |-> n]]
       /\ bucket' = [bucket EXCEPT !.key[n] = k]
       /\ sets' = [sets EXCEPT ![n] = [state |-> "running", before |-> Done]]
       /\ UNCHANGED deleted

\* Bucket::Insert(), the top of the loop: a hit loads value_ptr, a miss
\* prepares new_entry->next.
Search(t) ==
  LET n == call[t].n  k == bucket.key[n] IN
  /\ call[t].pc = "find"
  /\ IF Find(k)
       THEN /\ call' = [call EXCEPT ![t] =
                 [pc |-> "update", n |-> n, at |-> Target(k), old |-> bucket.val[Target(k)]]]
            /\ UNCHANGED bucket
       ELSE /\ call' = [call EXCEPT ![t] = [pc |-> "link", n |-> n, at |-> Prev(k)]]
            /\ bucket' = [bucket EXCEPT !.next[n] = Target(k)]
  /\ UNCHANGED <<deleted, sets>>

Return(t) ==
  /\ call' = [call EXCEPT ![t] = [pc |-> "idle"]]
  /\ sets' = [sets EXCEPT ![call[t].n].state = "done"]
Retry(t) ==
  /\ call' = [call EXCEPT ![t] = [pc |-> "find", n |-> call[t].n]]
  /\ UNCHANGED <<bucket, deleted, sets>>

\* The key exists: swing value_ptr, delete the old value and new_entry.
UpdateCas(t) ==
  LET n == call[t].n  e == call[t].at IN
  /\ call[t].pc = "update"
  /\ IF bucket.val[e] = call[t].old
       THEN /\ bucket' = [bucket EXCEPT !.val[e] = Spare(n)]
            /\ deleted' = deleted \union {call[t].old, InEntry(n)}
            /\ Return(t)
       ELSE Retry(t)

\* Fault: a plain store in place of the compare-and-swap.
FaultyLinkCas(t) ==
  /\ call[t].pc = "link"
  /\ bucket' = [bucket EXCEPT !.next[call[t].at] = call[t].n]
  /\ deleted' = deleted \union {Spare(call[t].n)}
  /\ Return(t)

\* The key is new: link the entry if nothing came between, delete new_value.
LinkCas(t) ==
  LET n == call[t].n  e == call[t].at IN
  /\ call[t].pc = "link"
  /\ IF bucket.next[e] = bucket.next[n]
       THEN /\ bucket' = [bucket EXCEPT !.next[e] = n]
            /\ deleted' = deleted \union {Spare(n)}
            /\ Return(t)
       ELSE Retry(t)

\* Get(): the pointer it returns is used by the caller later, or by
\* Get(key, V*) itself when it copies the value.
Get(t, k) ==
  /\ call[t].pc = "idle" /\ Find(k)
  /\ call' = [call EXCEPT ![t] = [pc |-> "got", key |-> k, ptr |-> bucket.val[Target(k)]]]
  /\ UNCHANGED <<bucket, deleted, sets>>
Use(t) ==
  /\ call[t].pc = "got"
  /\ call' = [call EXCEPT ![t] = [pc |-> "idle"]]
  /\ UNCHANGED <<bucket, deleted, sets>>

MapNext ==
  \E t \in Callers :
    \/ Search(t) \/ UpdateCas(t) \/ LinkCas(t) \/ Use(t)
    \/ \E k \in Keys : Set(t, k) \/ Get(t, k)

(***************************************************************************)
(* What Set() and Get() promise under any interleaving of their callers:   *)
(* the list stays sorted with one entry per key; the key of every finished *)
(* Set() is found, with a value that is not older than that call; of the   *)
(* values of the finished calls exactly the linked ones are alive; and the *)
(* pointer of a Get() dangles only once its key has been given another     *)
(* value (the race that the comment in Bucket::Get() admits).              *)
(***************************************************************************)
MapIsExact ==
  /\ \A e \in Linked \ {0} :
       bucket.next[e] # Null => bucket.key[e] < bucket.key[bucket.next[e]]
  /\ \A n \in Done :
       /\ Find(bucket.key[n])
       /\ bucket.val[Target(bucket.key[n])] \notin
            {InEntry(m) : m \in sets[n].before} \union {Spare(m) : m \in sets[n].before}
       /\ {InEntry(n), Spare(n)} \ deleted =
            {InEntry(n), Spare(n)} \cap {bucket.val[e] : e \in Linked \ {0}}
  /\ \A e \in Linked : bucket.val[e] \notin deleted
  /\ \A t \in Callers :
       call[t].pc = "got" /\ call[t].ptr \in deleted
         => bucket.val[Target(call[t].key)] # call[t].ptr

-----------------------------------------------------------------------------
(* CCObjectPool.                                                           *)

poolVars == <<free_head_, nexts, user>>

Arena == 1..PoolSize
NoNode == 0

ObjectPoolInit ==
  /\ nexts = [n \in Arena |-> IF n = PoolSize THEN NoNode ELSE n + 1]
  /\ free_head_ = [count |-> 0, net |-> 0, node |-> 1]
  /\ user = [u \in Users |->
       [pc |-> "run", old |-> free_head_, next |-> NoNode, node |-> NoNode, owns |-> {}]]

\* FindFreeHead(): load the head; an empty list makes the call fail.
Load(u) ==
  /\ user[u].pc = "run" /\ free_head_.count < MaxCount /\ free_head_.node # NoNode
  /\ user' = [user EXCEPT ![u].pc = "next", ![u].old = free_head_]
  /\ UNCHANGED <<free_head_, nexts>>
\* The node may be somebody's by now: its next is whatever is there.
ReadNext(u) ==
  /\ user[u].pc = "next"
  /\ user' = [user EXCEPT ![u].pc = "take", ![u].next = nexts[user[u].old.node]]
  /\ UNCHANGED <<free_head_, nexts>>

\* Fault: only the node is compared.
FaultyTake(u) ==
  LET old == user[u].old IN
  /\ user[u].pc = "take" /\ free_head_.node = old.node
  /\ free_head_' = [count |-> old.count + 1, net |-> old.net + 1, node |-> user[u].next]
  /\ user' = [user EXCEPT ![u].pc = "run", ![u].owns = @ \union {old.node}]
  /\ UNCHANGED nexts

Take(u) ==
  LET old == user[u].old IN
  /\ user[u].pc = "take" /\ free_head_ = old
  /\ free_head_' = [count |-> old.count + 1, net |-> old.net + 1, node |-> user[u].next]
  /\ user' = [user EXCEPT ![u].pc = "run", ![u].owns = @ \union {old.node}]
  /\ UNCHANGED nexts
\* compare_exchange_weak fails, for a reason or without, and reloads.
TakeFails(u) ==
  /\ user[u].pc = "take"
  /\ user' = [user EXCEPT ![u].pc = IF free_head_.node = NoNode THEN "run" ELSE "next",
                          ![u].old = free_head_]
  /\ UNCHANGED <<free_head_, nexts>>

\* ReleaseObject()
Release(u, n) ==
  /\ user[u].pc = "run" /\ n \in user[u].owns /\ free_head_.count < MaxCount
  /\ user' = [user EXCEPT ![u].pc = "link", ![u].old = free_head_, ![u].node = n,
                          ![u].owns = @ \ {n}]
  /\ UNCHANGED <<free_head_, nexts>>
Link(u) ==
  /\ user[u].pc = "link"
  /\ nexts' = [nexts EXCEPT ![user[u].node] = user[u].old.node]
  /\ user' = [user EXCEPT ![u].pc = "put"]
  /\ UNCHANGED free_head_
Put(u) ==
  LET old == user[u].old IN
  /\ user[u].pc = "put" /\ free_head_ = old
  /\ free_head_' = [count |-> old.count + 1, net |-> old.net - 1, node |-> user[u].node]
  /\ user' = [user EXCEPT ![u].pc = "run", ![u].node = NoNode]
  /\ UNCHANGED nexts
PutFails(u) ==
  /\ user[u].pc = "put"
  /\ user' = [user EXCEPT ![u].pc = "link", ![u].old = free_head_]
  /\ UNCHANGED <<free_head_, nexts>>

ObjectPoolNext ==
  \E u \in Users :
    \/ Load(u) \/ ReadNext(u) \/ Take(u) \/ TakeFails(u)
    \/ Link(u) \/ Put(u) \/ PutFails(u)
    \/ \E n \in Arena : Release(u, n)

\* The nodes that the head leads to.
Free ==
  {n \in Arena :
     \A S \in SUBSET Arena :
       /\ free_head_.node \in S \union {NoNode}
       /\ \A x \in S : nexts[x] \in S \union {NoNode}
       => n \in S}
Returning == {user[u].node : u \in Users} \ {NoNode}
Owned == UNION {user[u].owns : u \in Users}

(***************************************************************************)
(* Whatever heads the users still hold, every node is in exactly one       *)
(* place: on the free list, owned by one user, or on its way back; the     *)
(* list ends; and net counts the nodes that are out.                       *)
(***************************************************************************)
PoolIsPartitioned ==
  /\ Free \union Owned \union Returning = Arena
  /\ Free \intersect (Owned \union Returning) = {} /\ Owned \intersect Returning = {}
  /\ \A u, w \in Users : u # w =>
       /\ user[u].owns \intersect user[w].owns = {}
       /\ user[u].node = NoNode \/ user[u].node # user[w].node
  /\ Free # {} => \E n \in Free : nexts[n] = NoNode
  /\ free_head_.net = Cardinality(Owned \union Returning)
=============================================================================
