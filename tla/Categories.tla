------------------------------ MODULE Categories ------------------------------
(***************************************************************************)
(* The category tree: moves and deletions check the tree they read and     *)
(* write later.  Its cached form is read and invalidated around that, in a *)
(* Redis that comes and goes.                                              *)
(***************************************************************************)
EXTENDS Integers, FiniteSets, Functions

CONSTANTS
    Root,              \* parentId null, no id
    MaxCategories,     \* bound: ids are 1 .. MaxCategories
    TreeHandlers,      \* requests in flight together
    MaxTreeChanges,    \* bound: writes to the table
    NoTree

ASSUME CategoryConstantsOK == MaxCategories \in Nat /\ Root \notin 1 .. MaxCategories

VARIABLES
    parent,            \* parentId of the rows, by id
    nextId,            \* the id the next row gets
    treeReq,           \* the handlers in flight
    treeCache,         \* what Redis holds under cache:category-tree:true
    redisUp,
    treeChanges,       \* bound
    movesCrossed,      \* history: a move was allowed by a tree from before another one
    cacheOutdated      \* history: why the cached tree may be an old one

treeVars == <<parent, nextId, treeReq, treeCache, redisUp, treeChanges, movesCrossed, cacheOutdated>>
-------------------------------------------------------------------------------
CategoryIds == 1 .. MaxCategories

IdleTree == [phase |-> "idle", category |-> Root, target |-> Root, tree |-> NoTree,
             overtaken |-> FALSE]

ChildrenOf(p, ids) == {c \in DOMAIN p : p[c] \in ids}

\* getDescendantCategoryIds: the frontier moves down; on a tree it is empty after as
\* many rounds as there are rows (on a cycle the loop does not end).
DescendantsOf(p, c) ==
    LET frontier[n \in 0 .. Cardinality(CategoryIds)] ==
            IF n = 0 THEN {c} ELSE ChildrenOf(p, frontier[n - 1])
    IN  UNION {frontier[n] : n \in 1 .. Cardinality(CategoryIds)}

\* buildTree from null downwards, as the set of the categories it shows.
ShownBy(p) == DescendantsOf(p, Root)

\* Faulty: children count, grandchildren do not.
ParentValidForChildren(p, target, c) ==
    target = Root \/ (target \in DOMAIN p /\ target # c /\ target \notin ChildrenOf(p, {c}))

\* assertParentValid; to the root a category may always move.
ParentValid(p, target, c) ==
    target = Root \/ (target \in DOMAIN p /\ target # c /\ target \notin DescendantsOf(p, c))

CategoriesInit ==
    /\ \E n \in 0 .. MaxCategories :
          /\ parent \in {p \in [1 .. n -> CategoryIds \cup {Root}] :
                            \A c \in 1 .. n : p[c] = Root \/ p[c] = c - 1}
          /\ nextId = n + 1
    /\ treeReq = [h \in TreeHandlers |-> IdleTree]
    /\ treeCache = NoTree
    /\ redisUp = TRUE
    /\ treeChanges = 0
    /\ movesCrossed = FALSE
    /\ cacheOutdated = FALSE
-------------------------------------------------------------------------------
\* createCategory and updateCategory: the tree is read, parent and slug are checked.
\* On a cycle the check of a move does not come back.  c = Root: a new category.
CheckParent(h, c, target) ==
    /\ treeReq[h].phase = "idle" /\ treeChanges < MaxTreeChanges
    /\ c \in DOMAIN parent \cup {Root}
    /\ ShownBy(parent) = DOMAIN parent
    /\ ParentValid(parent, target, c)
    /\ treeReq' = [treeReq EXCEPT ![h] =
            [IdleTree EXCEPT !.phase = IF c = Root THEN "create" ELSE "move",
                             !.category = c, !.target = target]]
    /\ UNCHANGED <<parent, nextId, treeCache, redisUp, treeChanges, movesCrossed, cacheOutdated>>

\* deleteCategory counts the children.
CheckChildless(h, c) ==
    /\ treeReq[h].phase = "idle" /\ treeChanges < MaxTreeChanges
    /\ c \in DOMAIN parent
    /\ ChildrenOf(parent, {c}) = {}
    /\ treeReq' = [treeReq EXCEPT ![h] = [IdleTree EXCEPT !.phase = "delete", !.category = c]]
    /\ UNCHANGED <<parent, nextId, treeCache, redisUp, treeChanges, movesCrossed, cacheOutdated>>

\* Faulty: the children of a deleted category keep its id.
TreeWithOrphans(r) ==
    LET written == IF r.phase = "create" THEN nextId ELSE r.category
    IN  IF r.phase = "delete" THEN Restrict(parent, DOMAIN parent \ {r.category})
        ELSE [c \in DOMAIN parent \cup {written} |-> IF c = written THEN r.target ELSE parent[c]]

\* A row is created, moved or deleted; a child that came meanwhile goes to the root
\* (the relation's SetNull).
TreeWritten(r) ==
    IF r.phase = "delete"
    THEN [c \in DOMAIN parent \ {r.category} |->
            IF parent[c] = r.category THEN Root ELSE parent[c]]
    ELSE LET written == IF r.phase = "create" THEN nextId ELSE r.category
         IN  [c \in DOMAIN parent \cup {written} |-> IF c = written THEN r.target ELSE parent[c]]

\* The row must be there, and its parent too, by the foreign key.
TreeWritable(r) ==
    /\ IF r.phase = "create" THEN nextId \in CategoryIds ELSE r.category \in DOMAIN parent
    /\ r.phase = "delete" \/ r.target \in DOMAIN parent \cup {Root}

WriteTree(h) ==
    LET r == treeReq[h]
    IN  /\ r.phase \in {"create", "move", "delete"}
        /\ TreeWritable(r)
        /\ parent' = TreeWritten(r)
        /\ treeChanges' = treeChanges + 1
        /\ movesCrossed' = (movesCrossed \/ (r.phase = "move" /\ r.overtaken))
        /\ treeReq' = [g \in TreeHandlers |->
                IF g = h THEN [IdleTree EXCEPT !.phase = "invalidate"]
                ELSE [treeReq[g] EXCEPT !.overtaken = @ \/ r.phase = "move"
                                                        \/ treeReq[g].phase = "set"]]
        /\ nextId' = IF r.phase = "create" THEN nextId + 1 ELSE nextId
        /\ UNCHANGED <<treeCache, redisUp, cacheOutdated>>

TreeRefused(h) ==
    /\ treeReq[h].phase \in {"create", "move", "delete"}
    /\ ~TreeWritable(treeReq[h])
    /\ treeReq' = [treeReq EXCEPT ![h] = IdleTree]
    /\ UNCHANGED <<parent, nextId, treeCache, redisUp, treeChanges, movesCrossed, cacheOutdated>>

\* Faulty: the key is deleted by its bare prefix, which no entry has.
InvalidatedByName == treeCache

\* SCAN and DEL of every key with the prefix.
InvalidatedByPrefix == NoTree

\* invalidateCache("category-tree"): not at all without Redis.
InvalidateTree(h) ==
    /\ treeReq[h].phase = "invalidate"
    /\ treeCache' = IF redisUp THEN InvalidatedByPrefix ELSE treeCache
    /\ cacheOutdated' = (~redisUp /\ treeCache # NoTree)
    /\ treeReq' = [treeReq EXCEPT ![h] = IdleTree]
    /\ UNCHANGED <<parent, nextId, redisUp, treeChanges, movesCrossed>>

\* getCategoryTree: a hit ends here, a miss reads the table ...
FetchTree(h) ==
    /\ treeReq[h].phase = "idle"
    /\ redisUp /\ treeCache = NoTree
    /\ ShownBy(parent) = DOMAIN parent
    /\ treeReq' = [treeReq EXCEPT ![h] = [IdleTree EXCEPT !.phase = "set", !.tree = parent]]
    /\ UNCHANGED <<parent, nextId, treeCache, redisUp, treeChanges, movesCrossed, cacheOutdated>>

\* ... and sets the key, whatever was invalidated in between.
SetTree(h) ==
    LET r == treeReq[h]
    IN  /\ r.phase = "set"
        /\ treeCache' = IF redisUp THEN r.tree ELSE treeCache
        /\ cacheOutdated' = IF redisUp THEN r.overtaken ELSE cacheOutdated
        /\ treeReq' = [treeReq EXCEPT ![h] = IdleTree]
        /\ UNCHANGED <<parent, nextId, redisUp, treeChanges, movesCrossed>>

\* 300 seconds.
TreeExpires ==
    /\ treeCache # NoTree
    /\ treeCache' = NoTree /\ cacheOutdated' = FALSE
    /\ UNCHANGED <<parent, nextId, treeReq, redisUp, treeChanges, movesCrossed>>

RedisComesAndGoes ==
    /\ redisUp' = ~redisUp
    /\ UNCHANGED <<parent, nextId, treeReq, treeCache, treeChanges, movesCrossed, cacheOutdated>>

CategoriesNext ==
    \/ \E h \in TreeHandlers, c, target \in CategoryIds \cup {Root} :
          CheckParent(h, c, target)
    \/ \E h \in TreeHandlers, c \in CategoryIds : CheckChildless(h, c)
    \/ \E h \in TreeHandlers : \/ WriteTree(h) \/ TreeRefused(h) \/ InvalidateTree(h)
                               \/ FetchTree(h) \/ SetTree(h)
    \/ TreeExpires \/ RedisComesAndGoes
-------------------------------------------------------------------------------
CategoriesTypeOK ==
    /\ DOMAIN parent \subseteq 1 .. nextId - 1 /\ nextId - 1 \in 0 .. MaxCategories
    /\ \A c \in DOMAIN parent : parent[c] \in DOMAIN parent \cup {Root}
    /\ treeCache = NoTree \/ DOMAIN treeCache \subseteq CategoryIds

\* Every category is somewhere in the tree the shop shows; on a cycle it would be
\* nowhere, and getDescendantCategoryIds would not end.  Only two moves in flight together
\* may close one, whatever is created or deleted meanwhile (category.service.ts 24-38).
EveryCategoryShown == movesCrossed \/ ShownBy(parent) = DOMAIN parent

\* With no writer between its write and its invalidation, the cached tree is the
\* table's, but for an entry that a reader set after reading an older table or that
\* outlived an invalidation without Redis (lib/cache.ts 17-67).
CachedTreeIsCurrent ==
    (\A h \in TreeHandlers : treeReq[h].phase # "invalidate")
        => treeCache \in {NoTree, parent} \/ cacheOutdated
===============================================================================
