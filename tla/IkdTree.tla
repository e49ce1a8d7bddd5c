------------------------------- MODULE IkdTree -------------------------------
(***************************************************************************)
(* ikd_Tree.cpp: a large subtree of the map's k-d tree is rebuilt by a     *)
(* thread of its own while the mapping thread goes on adding and deleting  *)
(* points and the search threads go on reading.                            *)
(*                                                                         *)
(* One subtree below one father is kept, or the whole tree (`whole': then  *)
(* Rebuild_Ptr is &Root_Node, and the only father is STATIC_ROOT_NODE).    *)
(* Its nodes are abstracted to the number of live points of each kind,     *)
(* `tree'; nodes marked deleted count for nothing, as flatten drops them.  *)
(* `gen' numbers the subtrees that have hung below the father, so that a   *)
(* reader of a discarded one shows.  The balance criterion is a free       *)
(* choice.                                                                 *)
(*                                                                         *)
(* Whether the subtree is the one that is rebuilt is tested without a      *)
(* lock, and by several reads: Rebuild_Ptr, what it points to, and the     *)
(* father's own pointer, which are the same memory.  A first step keeps    *)
(* the number of the subtree that the earliest read sees, a second one     *)
(* decides.  When the subtree was replaced in between, the comparison may  *)
(* come out either way, and the caller may go on with either pointer.      *)
(***************************************************************************)
EXTENDS Integers, Sequences, FiniteSets

CONSTANTS
    Points,      \* kinds of points
    Boxes,       \* boxes that Delete_Point_Boxes is called with
    FatherBoxes, \* those that cover the father's whole range
    Searchers,   \* threads of the parallel search loop
    MaxOps       \* bound: operations of the mapping thread

ASSUME BoxesAssumption == FatherBoxes \subseteq Boxes /\ Boxes \subseteq SUBSET Points
ASSUME SearchersAssumption == IsFiniteSet(Searchers)

VARIABLES
    whole,          \* the subtree is the whole tree (never changes)
    tree, gen,      \* the subtree below the father, and its number
    pend,           \* the father is deleted and has not pushed it down yet
    Rebuild_Ptr,    \* the subtree is chosen for a rebuild
    rebuild_flag, Rebuild_Logger,
    working_flag_mutex, rebuild_ptr_mutex, search_flag_mutex,   \* their owners
    search_mutex_counter,
    rebuild, new_root, replayed,   \* rebuild thread: place, copy, operation in hand
    clean,          \* it started with an empty logger and between two operations
    map, todo, ops, map_gen, termination_flag,          \* mapping thread
    search, search_gen             \* search threads

locks    == <<working_flag_mutex, rebuild_ptr_mutex, search_flag_mutex>>
rebuilder == <<rebuild, new_root, replayed, clean>>
mapper   == <<map, todo, ops, map_gen, termination_flag>>
searchers == <<search, search_gen>>
vars == <<whole, tree, gen, pend, Rebuild_Ptr, rebuild_flag, Rebuild_Logger, locks,
          search_mutex_counter, rebuilder, mapper, searchers>>
-----------------------------------------------------------------------------
NoPoint == [p \in Points |-> 0]

AddPoint(p)         == [op |-> "ADD_POINT", points |-> {p}]
DeleteBox(b)        == [op |-> "DELETE_BOX", points |-> b]
DownsampleDelete(p) == [op |-> "DOWNSAMPLE_DELETE", points |-> {p}]
PushDown            == [op |-> "PUSH_DOWN", points |-> Points]

\* What an operation leaves alive: Add_by_point, Delete_by_range, Push_Down.
Apply(o, t) == [p \in Points |-> IF p \notin o.points THEN t[p]
                                 ELSE IF o.op = "ADD_POINT" THEN t[p] + 1 ELSE 0]

Init ==
    /\ whole \in BOOLEAN
    /\ tree = [p \in Points |-> 1] /\ gen = 0 /\ pend = FALSE
    /\ Rebuild_Ptr = FALSE /\ rebuild_flag = FALSE /\ Rebuild_Logger = <<>>
    /\ working_flag_mutex = "free" /\ rebuild_ptr_mutex = "free" /\ search_flag_mutex = "free"
    /\ search_mutex_counter = 0
    /\ rebuild = "loop" /\ new_root = NoPoint /\ replayed = PushDown /\ clean = TRUE
    /\ map = "idle" /\ todo = <<>> /\ ops = 0 /\ map_gen = 0
    /\ termination_flag = FALSE
    /\ search = [s \in Searchers |-> "joined"] /\ search_gen = [s \in Searchers |-> 0]
-----------------------------------------------------------------------------
(* multi_thread_rebuild                                                    *)

RebuildStep(from, to) == rebuild = from /\ rebuild' = to /\ UNCHANGED whole

Terminated ==
    /\ RebuildStep("loop", IF termination_flag THEN "ended" ELSE "take")
    /\ UNCHANGED <<tree, gen, pend, Rebuild_Ptr, rebuild_flag, Rebuild_Logger, locks,
                   search_mutex_counter, new_root, replayed, clean, mapper, searchers>>

LockRebuildPtr ==
    /\ RebuildStep("take", "work") /\ rebuild_ptr_mutex = "free"
    /\ rebuild_ptr_mutex' = "rebuild"
    /\ UNCHANGED <<tree, gen, pend, Rebuild_Ptr, rebuild_flag, Rebuild_Logger,
                   working_flag_mutex, search_flag_mutex, search_mutex_counter, new_root,
                   replayed, clean, mapper, searchers>>

\* Variant: the termination flag is read again only after a rebuild.
LoopWithoutCheck ==
    /\ RebuildStep("work", "take") /\ working_flag_mutex = "free" /\ ~Rebuild_Ptr
    /\ rebuild_ptr_mutex' = "free"
    /\ UNCHANGED <<tree, gen, pend, Rebuild_Ptr, rebuild_flag, Rebuild_Logger,
                   working_flag_mutex, search_flag_mutex, search_mutex_counter, new_root,
                   replayed, clean, mapper, searchers>>

NothingToRebuild ==
    /\ RebuildStep("work", "loop") /\ working_flag_mutex = "free" /\ ~Rebuild_Ptr
    /\ rebuild_ptr_mutex' = "free"
    /\ UNCHANGED <<tree, gen, pend, Rebuild_Ptr, rebuild_flag, Rebuild_Logger,
                   working_flag_mutex, search_flag_mutex, search_mutex_counter, new_root,
                   replayed, clean, mapper, searchers>>

StartRebuild ==
    /\ RebuildStep("work", "quiesce") /\ working_flag_mutex = "free" /\ Rebuild_Ptr
    /\ working_flag_mutex' = "rebuild" /\ rebuild_flag' = TRUE
    /\ clean' = (Rebuild_Logger = <<>> /\ map # "apply")
    /\ UNCHANGED <<tree, gen, pend, Rebuild_Ptr, Rebuild_Logger, rebuild_ptr_mutex,
                   search_flag_mutex, search_mutex_counter, new_root, replayed, mapper,
                   searchers>>

\* "Lock Search": wait until no counted search is left.
LockSearch(from, to) ==
    /\ RebuildStep(from, to) /\ search_flag_mutex = "free" /\ search_mutex_counter = 0
    /\ search_mutex_counter' = -1
    /\ UNCHANGED <<tree, gen, pend, Rebuild_Ptr, rebuild_flag, Rebuild_Logger, locks,
                   new_root, replayed, clean, mapper, searchers>>

QuiesceToCopy == LockSearch("quiesce", "copy")

\* flatten and, with the locks given back, BuildTree: both keep the live points.
Flatten ==
    /\ RebuildStep("copy", "reopen")
    /\ new_root' = tree
    /\ UNCHANGED <<tree, gen, pend, Rebuild_Ptr, rebuild_flag, Rebuild_Logger, locks,
                   search_mutex_counter, replayed, clean, mapper, searchers>>

\* Variant: the counter is not set back after the copy.
KeepLockedOut ==
    /\ RebuildStep("reopen", IF new_root = NoPoint THEN "replace" ELSE "replay")
    /\ search_flag_mutex = "free" /\ working_flag_mutex' = "free"
    /\ UNCHANGED <<tree, gen, pend, Rebuild_Ptr, rebuild_flag, Rebuild_Logger,
                   rebuild_ptr_mutex, search_flag_mutex, search_mutex_counter, new_root,
                   replayed, clean, mapper, searchers>>

\* Without a live point the operations made meanwhile are not waited for, nor the lock.
UnlockAndBuild ==
    /\ RebuildStep("reopen", IF new_root = NoPoint THEN "replace" ELSE "replay")
    /\ search_flag_mutex = "free"
    /\ search_mutex_counter' = 0 /\ working_flag_mutex' = "free"
    /\ UNCHANGED <<tree, gen, pend, Rebuild_Ptr, rebuild_flag, Rebuild_Logger,
                   rebuild_ptr_mutex, search_flag_mutex, new_root, replayed, clean, mapper,
                   searchers>>

\* Variant: the logger is read as a stack.
PopLast ==
    /\ RebuildStep("replay", "run") /\ working_flag_mutex = "free" /\ Rebuild_Logger # <<>>
    /\ replayed' = Rebuild_Logger[Len(Rebuild_Logger)]
    /\ Rebuild_Logger' = SubSeq(Rebuild_Logger, 1, Len(Rebuild_Logger) - 1)
    /\ UNCHANGED <<tree, gen, pend, Rebuild_Ptr, rebuild_flag, locks, search_mutex_counter,
                   new_root, clean, mapper, searchers>>

PopOperation ==
    /\ RebuildStep("replay", "run") /\ working_flag_mutex = "free" /\ Rebuild_Logger # <<>>
    /\ replayed' = Head(Rebuild_Logger) /\ Rebuild_Logger' = Tail(Rebuild_Logger)
    /\ UNCHANGED <<tree, gen, pend, Rebuild_Ptr, rebuild_flag, locks, search_mutex_counter,
                   new_root, clean, mapper, searchers>>

run_operation ==
    /\ RebuildStep("run", "replay")
    /\ new_root' = Apply(replayed, new_root)
    /\ UNCHANGED <<tree, gen, pend, Rebuild_Ptr, rebuild_flag, Rebuild_Logger, locks,
                   search_mutex_counter, replayed, clean, mapper, searchers>>

\* The logger is empty: keep working_flag_mutex for the replacement.
LoggerDrained ==
    /\ RebuildStep("replay", "replace") /\ working_flag_mutex = "free" /\ Rebuild_Logger = <<>>
    /\ working_flag_mutex' = "rebuild"
    /\ UNCHANGED <<tree, gen, pend, Rebuild_Ptr, rebuild_flag, Rebuild_Logger,
                   rebuild_ptr_mutex, search_flag_mutex, search_mutex_counter, new_root,
                   replayed, clean, mapper, searchers>>

QuiesceToReplace == LockSearch("replace", "swap")

\* Update computes the father's tree_deleted again from its sons: a deletion that the
\* father has not pushed down is forgotten, unless the loop stops before it.
Replace ==
    /\ RebuildStep("swap", "open")
    /\ tree' = new_root /\ gen' = gen + 1 /\ pend' \in {pend, FALSE}
    /\ UNCHANGED <<Rebuild_Ptr, rebuild_flag, Rebuild_Logger, locks,
                   search_mutex_counter, new_root, replayed, clean, mapper, searchers>>

\* Variant: the counter is set back without the mutex.
UnlockSearchAtOnce ==
    /\ RebuildStep("open", "clear")
    /\ search_mutex_counter' = 0
    /\ UNCHANGED <<tree, gen, pend, Rebuild_Ptr, rebuild_flag, Rebuild_Logger, locks,
                   new_root, replayed, clean, mapper, searchers>>

UnlockSearch ==
    /\ RebuildStep("open", "clear") /\ search_flag_mutex = "free"
    /\ search_mutex_counter' = 0
    /\ UNCHANGED <<tree, gen, pend, Rebuild_Ptr, rebuild_flag, Rebuild_Logger, locks,
                   new_root, replayed, clean, mapper, searchers>>

\* After an empty copy the mutex that is unlocked here is not the thread's own.
ClearRebuildPtr ==
    /\ RebuildStep("clear", "flag")
    /\ Rebuild_Ptr' = FALSE /\ working_flag_mutex' = "free"
    /\ UNCHANGED <<tree, gen, pend, rebuild_flag, Rebuild_Logger, rebuild_ptr_mutex,
                   search_flag_mutex, search_mutex_counter, new_root, replayed, clean,
                   mapper, searchers>>

ClearRebuildFlag ==
    /\ RebuildStep("flag", "discard")
    /\ rebuild_flag' = FALSE
    /\ UNCHANGED <<tree, gen, pend, Rebuild_Ptr, Rebuild_Logger, locks,
                   search_mutex_counter, new_root, replayed, clean, mapper, searchers>>

\* delete_tree_nodes of the old subtree is over, and so is the scope of the copy.
DeleteTreeNodes ==
    /\ RebuildStep("discard", "loop")
    /\ rebuild_ptr_mutex' = "free"
    /\ new_root' = NoPoint /\ replayed' = PushDown /\ clean' = TRUE
    /\ UNCHANGED <<tree, gen, pend, Rebuild_Ptr, rebuild_flag, Rebuild_Logger,
                   working_flag_mutex, search_flag_mutex, search_mutex_counter, mapper, searchers>>

RebuildThread ==
    \/ Terminated \/ LockRebuildPtr \/ NothingToRebuild \/ StartRebuild \/ QuiesceToCopy
    \/ Flatten \/ UnlockAndBuild \/ PopOperation \/ run_operation \/ LoggerDrained
    \/ QuiesceToReplace \/ Replace \/ UnlockSearch \/ ClearRebuildPtr \/ ClearRebuildFlag
    \/ DeleteTreeNodes
-----------------------------------------------------------------------------
(* The mapping thread: lasermap_fov_segment, map_incremental.              *)

MapStep(from, to) == map = from /\ map' = to /\ UNCHANGED whole

\* The test of Rebuild_Ptr by a thread that saw subtree `seen' first.
MayFindChosen == Rebuild_Ptr
MayFindOther(seen) == ~Rebuild_Ptr \/ seen # gen

\* Add_Points: the search of the point's voxel comes first.  Search_by_range(Root_Node)
\* itself takes no lock, also when the whole tree is rebuilt ...
AddPoints ==
    /\ MapStep("idle", IF whole THEN "range" ELSE "test_range")
    /\ ops < MaxOps /\ ~pend
    /\ ops' = ops + 1 /\ map_gen' = gen
    /\ UNCHANGED <<tree, gen, pend, Rebuild_Ptr, rebuild_flag, Rebuild_Logger, locks,
                   search_mutex_counter, rebuilder, todo, termination_flag, searchers>>

\* ... only a son that is found to be the one rebuilt is searched under a lock.
TestRange ==
    /\ \/ MayFindChosen /\ MapStep("test_range", "lock_search") /\ map_gen' = 0
       \/ /\ MayFindOther(map_gen) /\ MapStep("test_range", "range")
          /\ map_gen' \in {map_gen, gen}
    /\ UNCHANGED <<tree, gen, pend, Rebuild_Ptr, rebuild_flag, Rebuild_Logger, locks,
                   search_mutex_counter, rebuilder, todo, ops, termination_flag, searchers>>

\* It holds search_flag_mutex as long as it reads, and does not look at the counter.
LockRangeSearch ==
    /\ MapStep("lock_search", "range") /\ search_flag_mutex = "free"
    /\ search_flag_mutex' = "map" /\ map_gen' = gen
    /\ UNCHANGED <<tree, gen, pend, Rebuild_Ptr, rebuild_flag, Rebuild_Logger,
                   working_flag_mutex, rebuild_ptr_mutex, search_mutex_counter, rebuilder,
                   todo, ops, termination_flag, searchers>>

\* Search_by_range is over: what it found is deleted before the point is added, or
\* the voxel was empty, or no down-sampling was asked for.
SearchByRange ==
    /\ MapStep("range", "pass")
    /\ \E p \in Points : todo' \in {<<DownsampleDelete(p), AddPoint(p)>>, <<AddPoint(p)>>}
    /\ map_gen' = 0 /\ search_flag_mutex' = IF search_flag_mutex = "map" THEN "free" ELSE search_flag_mutex
    /\ UNCHANGED <<tree, gen, pend, Rebuild_Ptr, rebuild_flag, Rebuild_Logger,
                   working_flag_mutex, rebuild_ptr_mutex, search_mutex_counter, rebuilder,
                   ops, termination_flag, searchers>>

\* Delete_Point_Boxes: a box over the father only marks it; nothing below a deleted
\* father is visited.
DeletePointBoxes ==
    /\ map = "idle" /\ ops < MaxOps /\ ~pend
    /\ ops' = ops + 1
    /\ \E b \in Boxes :
         IF b \in FatherBoxes /\ ~whole THEN pend' = TRUE /\ UNCHANGED <<map, todo>>
         ELSE map' = "pass" /\ todo' = <<DeleteBox(b)>> /\ UNCHANGED pend
    /\ UNCHANGED <<whole, tree, gen, Rebuild_Ptr, rebuild_flag, Rebuild_Logger, locks,
                   search_mutex_counter, rebuilder, map_gen, termination_flag, searchers>>

\* Push_Down: whatever walks past a deleted father to add points deletes the subtree
\* before it looks at it.
Push_Down ==
    /\ MapStep("idle", "pass") /\ pend
    /\ todo' = <<PushDown>>
    /\ UNCHANGED <<tree, gen, pend, Rebuild_Ptr, rebuild_flag, Rebuild_Logger, locks,
                   search_mutex_counter, rebuilder, ops, map_gen, termination_flag,
                   searchers>>

\* At the father, or above the root: Rebuild_Ptr is looked at without a lock.
PassFather ==
    /\ MapStep("pass", "test") /\ map_gen' = gen
    /\ UNCHANGED <<tree, gen, pend, Rebuild_Ptr, rebuild_flag, Rebuild_Logger, locks,
                   search_mutex_counter, rebuilder, todo, ops, termination_flag, searchers>>

TestFather ==
    /\ \/ MayFindChosen /\ MapStep("test", "lock")
       \/ MayFindOther(map_gen) /\ MapStep("test", "apply")
    /\ map_gen' = 0
    /\ UNCHANGED <<tree, gen, pend, Rebuild_Ptr, rebuild_flag, Rebuild_Logger, locks,
                   search_mutex_counter, rebuilder, todo, ops, termination_flag, searchers>>

LockWorking ==
    /\ MapStep("lock", "apply_logged") /\ working_flag_mutex = "free"
    /\ working_flag_mutex' = "map"
    /\ UNCHANGED <<tree, gen, pend, Rebuild_Ptr, rebuild_flag, Rebuild_Logger,
                   rebuild_ptr_mutex, search_flag_mutex, search_mutex_counter, rebuilder,
                   todo, ops, map_gen, termination_flag, searchers>>

\* One change.  A deletion that was forgotten meanwhile is not pushed down.
Visit ==
    /\ tree' = IF Head(todo) = PushDown /\ ~pend THEN tree ELSE Apply(Head(todo), tree)
    /\ todo' = Tail(todo)
    /\ pend' = (pend /\ Head(todo) # PushDown)
    /\ UNCHANGED whole

\* The next change starts from the root again; in a whole tree that was found not to be
\* rebuilt it follows without another test.
AfterVisit ==
    map' = IF Len(todo) = 1 THEN "idle" ELSE IF whole THEN "apply" ELSE "pass"

ApplyLogged ==
    /\ map = "apply_logged" /\ (whole => Len(todo) = 1) /\ Visit /\ AfterVisit
    /\ Rebuild_Logger' = IF rebuild_flag THEN Append(Rebuild_Logger, Head(todo))
                         ELSE Rebuild_Logger
    /\ working_flag_mutex' = "free"
    /\ UNCHANGED <<gen, Rebuild_Ptr, rebuild_flag, rebuild_ptr_mutex, search_flag_mutex,
                   search_mutex_counter, rebuilder, ops, map_gen, termination_flag,
                   searchers>>

\* In a whole tree that is rebuilt, deleting and adding are one locked section.
ApplyBothLogged ==
    /\ MapStep("apply_logged", "idle") /\ whole /\ Len(todo) = 2
    /\ tree' = Apply(todo[2], Apply(todo[1], tree)) /\ todo' = <<>>
    /\ Rebuild_Logger' = IF rebuild_flag
                         THEN Append(Append(Rebuild_Logger, todo[1]), todo[2])
                         ELSE Rebuild_Logger
    /\ working_flag_mutex' = "free"
    /\ UNCHANGED <<gen, pend, Rebuild_Ptr, rebuild_flag, rebuild_ptr_mutex,
                   search_flag_mutex, search_mutex_counter, rebuilder, ops, map_gen,
                   termination_flag, searchers>>

\* Without the lock.  On the way back Rebuild may choose the subtree, when the mutex
\* can be had at once; a box over the whole subtree returns before that.
ApplyUnlocked ==
    /\ map = "apply" /\ Visit /\ AfterVisit
    /\ \/ UNCHANGED Rebuild_Ptr
       \/ Rebuild_Ptr' = TRUE /\ rebuild_ptr_mutex = "free" /\ tree' # NoPoint
    /\ UNCHANGED <<gen, rebuild_flag, Rebuild_Logger, locks, search_mutex_counter,
                   rebuilder, ops, map_gen, termination_flag, searchers>>

\* The parallel loop of h_share_model.
StartSearches ==
    /\ MapStep("idle", "parallel")
    /\ search' = [s \in Searchers |-> "father"]
    /\ UNCHANGED <<tree, gen, pend, Rebuild_Ptr, rebuild_flag, Rebuild_Logger, locks,
                   search_mutex_counter, rebuilder, todo, ops, map_gen, termination_flag,
                   search_gen>>

JoinSearches ==
    /\ MapStep("parallel", "idle") /\ \A s \in Searchers : search[s] = "joined"
    /\ UNCHANGED <<tree, gen, pend, Rebuild_Ptr, rebuild_flag, Rebuild_Logger, locks,
                   search_mutex_counter, rebuilder, todo, ops, map_gen,
                   termination_flag, searchers>>

\* ~KD_TREE: stop_thread waits for the rebuild thread.
StopThread ==
    /\ MapStep("idle", "join") /\ termination_flag' = TRUE
    /\ UNCHANGED <<tree, gen, pend, Rebuild_Ptr, rebuild_flag, Rebuild_Logger, locks,
                   search_mutex_counter, rebuilder, todo, ops, map_gen, searchers>>

JoinThread ==
    /\ MapStep("join", "destroyed") /\ rebuild = "ended"
    /\ UNCHANGED <<tree, gen, pend, Rebuild_Ptr, rebuild_flag, Rebuild_Logger, locks,
                   search_mutex_counter, rebuilder, todo, ops, map_gen,
                   termination_flag, searchers>>

Finished == map = "destroyed" /\ UNCHANGED vars

MappingStep ==
    \/ TestRange \/ LockRangeSearch \/ SearchByRange \/ PassFather \/ TestFather
    \/ LockWorking \/ ApplyLogged \/ ApplyBothLogged \/ ApplyUnlocked \/ JoinSearches
    \/ JoinThread

MappingThread ==
    MappingStep \/ AddPoints \/ DeletePointBoxes \/ Push_Down \/ StartSearches \/ StopThread
-----------------------------------------------------------------------------
(* Nearest_Search and Search, on one of the parallel threads.              *)

SearchStep(s, from, to) ==
    search[s] = from /\ search' = [search EXCEPT ![s] = to] /\ UNCHANGED whole

\* At the father: a deleted one is left at once.
SearchFather(s) ==
    /\ SearchStep(s, "father", IF pend THEN "joined" ELSE "test")
    /\ search_gen' = [search_gen EXCEPT ![s] = IF pend THEN 0 ELSE gen]
    /\ UNCHANGED <<tree, gen, pend, Rebuild_Ptr, rebuild_flag, Rebuild_Logger, locks,
                   search_mutex_counter, rebuilder, mapper>>

\* Rebuild_Ptr is looked at without a lock: a search that is not counted may read the
\* subtree just replaced.
TestRebuildPtr(s) ==
    /\ \/ MayFindChosen /\ SearchStep(s, "test", "wait")
          /\ search_gen' = [search_gen EXCEPT ![s] = 0]
       \/ /\ MayFindOther(search_gen[s]) /\ SearchStep(s, "test", "free")
          /\ \E seen \in {search_gen[s], gen} : search_gen' = [search_gen EXCEPT ![s] = seen]
    /\ UNCHANGED <<tree, gen, pend, Rebuild_Ptr, rebuild_flag, Rebuild_Logger, locks,
                   search_mutex_counter, rebuilder, mapper>>

\* Variant: a search does not wait for the end of the replacement.
EnterAtOnce(s) ==
    /\ SearchStep(s, "wait", "counted") /\ search_flag_mutex = "free"
    /\ search_mutex_counter' = search_mutex_counter + 1
    /\ search_gen' = [search_gen EXCEPT ![s] = gen]
    /\ UNCHANGED <<tree, gen, pend, Rebuild_Ptr, rebuild_flag, Rebuild_Logger, locks,
                   rebuilder, mapper>>

EnterCounted(s) ==
    /\ SearchStep(s, "wait", "counted") /\ search_flag_mutex = "free"
    /\ search_mutex_counter # -1
    /\ search_mutex_counter' = search_mutex_counter + 1
    /\ search_gen' = [search_gen EXCEPT ![s] = gen]
    /\ UNCHANGED <<tree, gen, pend, Rebuild_Ptr, rebuild_flag, Rebuild_Logger, locks,
                   rebuilder, mapper>>

LeaveCounted(s) ==
    /\ SearchStep(s, "counted", "joined") /\ search_flag_mutex = "free"
    /\ search_mutex_counter' = search_mutex_counter - 1
    /\ search_gen' = [search_gen EXCEPT ![s] = 0]
    /\ UNCHANGED <<tree, gen, pend, Rebuild_Ptr, rebuild_flag, Rebuild_Logger, locks,
                   rebuilder, mapper>>

LeaveFree(s) ==
    /\ SearchStep(s, "free", "joined")
    /\ search_gen' = [search_gen EXCEPT ![s] = 0]
    /\ UNCHANGED <<tree, gen, pend, Rebuild_Ptr, rebuild_flag, Rebuild_Logger, locks,
                   search_mutex_counter, rebuilder, mapper>>

SearchThread(s) ==
    SearchFather(s) \/ TestRebuildPtr(s) \/ EnterCounted(s) \/ LeaveCounted(s) \/ LeaveFree(s)
-----------------------------------------------------------------------------
Next == RebuildThread \/ MappingThread \/ (\E s \in Searchers : SearchThread(s)) \/ Finished

\* Each thread that can go on is scheduled; what the mapping thread starts is its choice,
\* and it may start parallel loops for ever.  "Lock Search" polls every microsecond, far
\* more often than parallel loops follow each other, and no search is counted between
\* two of them: it does not miss every such moment.
Fairness ==
    /\ WF_vars(RebuildThread) /\ WF_vars(MappingStep)
    /\ \A s \in Searchers : WF_vars(SearchThread(s))
    /\ SF_vars(QuiesceToCopy) /\ SF_vars(QuiesceToReplace)

Spec == Init /\ [][Next]_vars /\ Fairness
-----------------------------------------------------------------------------
(* Properties                                                              *)

Inside(s) == search[s] \in {"counted", "free"}

TypeOK ==
    /\ tree \in [Points -> Nat] /\ new_root \in [Points -> Nat] /\ gen \in Nat
    /\ pend \in BOOLEAN /\ Rebuild_Ptr \in BOOLEAN /\ rebuild_flag \in BOOLEAN
    /\ working_flag_mutex \in {"free", "map", "rebuild"}
    /\ rebuild_ptr_mutex \in {"free", "rebuild"} /\ search_flag_mutex \in {"free", "map"}
    /\ search_mutex_counter \in -1..Cardinality(Searchers)

\* "Lock Search" works up to the replacement: although the searches decide by unlocked
\* reads whether to be counted, none of the parallel loop, counted or not, is in the
\* subtree while the rebuild thread flattens it (which writes the pushed-down flags) or is
\* about to replace it; and none is counted before the search is unlocked again.  The
\* range search of the mapping thread is not locked out: see the README on
\* ikd_Tree.cpp:1274.
SearchLockedOut ==
    /\ rebuild \in {"copy", "reopen", "swap"} => \A s \in Searchers : ~Inside(s)
    /\ rebuild = "open" => \A s \in Searchers : search[s] # "counted"

\* When the nodes of the old subtree are deleted, whoever announced itself is not in
\* them: no search that is counted, and no range search that holds search_flag_mutex,
\* though it may have taken it before the replacement.  A reader that did neither may
\* be: see the README on ikd_Tree.cpp:501 and ikd_Tree.cpp:1103.
DiscardedUnread ==
    rebuild \in {"flag", "discard"} =>
        /\ \A s \in Searchers : search[s] = "counted" => search_gen[s] = gen
        /\ search_flag_mutex = "map" => map_gen = gen

\* Operations made during a rebuild are not lost (multi_thread_rebuild): the subtree put
\* in place under working_flag_mutex, by a rebuild that started with an empty logger and
\* between two operations, has the points of the subtree it replaces.  Without any of
\* these conditions this fails: see the README on ikd_Tree.cpp:282, 352 and 519.
RebuildKeepsPoints ==
    [][gen' # gen /\ clean /\ working_flag_mutex = "rebuild" => tree' = tree]_vars

\* A chosen subtree is rebuilt, unless the tree is destroyed first: parallel loops that
\* follow each other without end do not hold the rebuild thread off, and when the
\* operations pause (they are MaxOps in all) it has replayed them and goes on.
RebuildCompletes == Rebuild_Ptr ~> (~Rebuild_Ptr \/ termination_flag)

\* stop_thread returns.
StopCompletes == map = "join" ~> map = "destroyed"
=============================================================================
