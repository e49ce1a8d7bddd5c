---------------------------- MODULE IkdTree_proofs ----------------------------
(***************************************************************************)
(* However many threads search, none of the parallel loop is in the        *)
(* subtree while it is flattened, none that announced itself is left in    *)
(* the one that is deleted, and no operation is lost.                      *)
(***************************************************************************)
EXTENDS IkdTree, TLAPS, FiniteSetTheorems

Locked == rebuild \in {"copy", "reopen", "swap", "open"}
Replaced == rebuild \in {"open", "clear"}
Counted == {s \in Searchers : search[s] = "counted"}

Typed ==
    /\ search \in [Searchers -> {"joined", "father", "test", "wait", "free", "counted"}]
    /\ DOMAIN search_gen = Searchers
    /\ search_flag_mutex \in {"free", "map"} /\ Rebuild_Ptr \in BOOLEAN

\* The counter is -1 as long as the searches are locked out, and else counts them.
CounterCounts ==
    /\ search_mutex_counter = IF Locked THEN -1 ELSE Cardinality(Counted)
    /\ SearchLockedOut

\* Only the mapping thread chooses a subtree, and not while the searches run.
Chosen ==
    /\ rebuild \in {"quiesce", "copy", "reopen", "replay", "run", "replace", "swap", "open",
                    "clear"} => Rebuild_Ptr
    /\ \A s \in Searchers : search[s] # "joined" => map = "parallel"

\* Until a chosen subtree is replaced, whoever is about to test Rebuild_Ptr has seen that
\* subtree first, and so no search is in it uncounted.
Fresh ==
    Rebuild_Ptr /\ ~Replaced =>
        /\ \A s \in Searchers : search[s] # "free" /\ (search[s] = "test" => search_gen[s] = gen)
        /\ map \in {"test", "test_range"} => map_gen = gen

\* A range search that holds search_flag_mutex reads the subtree in place, or holds the
\* rebuild thread up.
RangeSearch ==
    /\ search_flag_mutex = "map" => map = "range"
    /\ search_flag_mutex = "map" => map_gen = gen \/ rebuild = "open"

\* A counted search reads the subtree that is in place.
Current == \A s \in Searchers : search[s] = "counted" => search_gen[s] = gen

Protocol == Typed /\ CounterCounts /\ Chosen /\ Fresh /\ RangeSearch /\ Current

\* No counted search is left when the counter is 0.
LEMMA CountZero ==
  ASSUME Typed, Cardinality(Counted) = 0
  PROVE  \A s \in Searchers : search[s] # "counted"
<1>1. IsFiniteSet(Counted)
  BY FS_Subset, SearchersAssumption DEF Counted
<1>2. Counted = {}
  BY <1>1, FS_EmptySet
<1> QED BY <1>2 DEF Counted

\* The count is a natural number.
LEMMA CountNat == Cardinality(Counted) \in Nat
<1>1. IsFiniteSet(Counted)
  BY FS_Subset, SearchersAssumption DEF Counted
<1> QED BY <1>1, FS_CardinalityType

LEMMA InitProtocol == Init => Protocol
<1> SUFFICES ASSUME Init PROVE Protocol
  OBVIOUS
<1>1. Counted = {}
  BY DEF Init, Counted
<1>2. Cardinality(Counted) = 0
  BY <1>1, FS_EmptySet
<1> QED
  BY <1>2 DEF Init, Protocol, Typed, CounterCounts, SearchLockedOut, Chosen, Fresh,
     RangeSearch, Current, Inside, Locked

\* The steps of the rebuild thread.
LEMMA RebuildProtocol ==
  ASSUME Protocol, RebuildThread
  PROVE  Protocol'
<1>0. UNCHANGED <<search, search_gen, map, map_gen, search_flag_mutex>>
  BY DEF RebuildThread, Terminated, LockRebuildPtr, NothingToRebuild, StartRebuild,
     QuiesceToCopy, LockSearch, Flatten, UnlockAndBuild, PopOperation, run_operation,
     LoggerDrained, QuiesceToReplace, Replace, UnlockSearch, ClearRebuildPtr,
     ClearRebuildFlag, DeleteTreeNodes, RebuildStep, locks, mapper, searchers
<1>c. Counted' = Counted
  BY <1>0 DEF Counted
<1>n. Cardinality(Counted) \in Nat
  BY CountNat
<1> USE <1>0, <1>c, <1>n DEF Protocol
\* Steps that leave both the counter and the lock-out alone.
<1>1. CASE Terminated \/ LockRebuildPtr \/ NothingToRebuild \/ StartRebuild \/ PopOperation
             \/ run_operation \/ LoggerDrained \/ ClearRebuildFlag \/ DeleteTreeNodes
  <2>1. UNCHANGED <<gen, Rebuild_Ptr, search_mutex_counter>>
    BY <1>1 DEF Terminated, LockRebuildPtr, NothingToRebuild, StartRebuild, PopOperation,
       run_operation, LoggerDrained, ClearRebuildFlag, DeleteTreeNodes
  <2>2. ~Locked /\ ~Locked' /\ ~Replaced /\ ~Replaced' /\ rebuild # "open" /\ rebuild' # "open"
    BY <1>1 DEF Terminated, LockRebuildPtr, NothingToRebuild, StartRebuild, PopOperation,
       run_operation, LoggerDrained, ClearRebuildFlag, DeleteTreeNodes, RebuildStep, Locked,
       Replaced
  <2>3. rebuild' \in {"quiesce", "replay", "run", "replace", "clear"} => Rebuild_Ptr
    BY <1>1 DEF Terminated, LockRebuildPtr, NothingToRebuild, StartRebuild, PopOperation,
       run_operation, LoggerDrained, ClearRebuildFlag, DeleteTreeNodes, RebuildStep, Chosen
  <2>4. SearchLockedOut'
    BY <2>2 DEF SearchLockedOut, Locked
  <2> QED
    BY <2>1, <2>2, <2>3, <2>4 DEF Typed, CounterCounts, Chosen, Fresh, RangeSearch,
       Current, Locked
<1>2. CASE QuiesceToCopy \/ QuiesceToReplace
  <2>1. /\ UNCHANGED <<gen, Rebuild_Ptr>> /\ search_mutex_counter' = -1
        /\ search_mutex_counter = 0 /\ rebuild \in {"quiesce", "replace"}
        /\ rebuild' \in {"copy", "swap"}
    BY <1>2 DEF QuiesceToCopy, QuiesceToReplace, LockSearch, RebuildStep
  <2>2. \A s \in Searchers : search[s] # "counted"
    BY <2>1, CountZero DEF CounterCounts, Locked
  <2>3. Rebuild_Ptr /\ ~Replaced
    BY <2>1 DEF Chosen, Replaced
  <2>4. \A s \in Searchers : ~Inside(s)
    BY <2>2, <2>3 DEF Fresh, Inside
  <2>5. CounterCounts'
    BY <2>1, <2>2, <2>4 DEF CounterCounts, SearchLockedOut, Inside, Locked
  <2> QED
    BY <2>1, <2>3, <2>5 DEF Typed, Chosen, Fresh, RangeSearch, Current, Replaced
<1>3. CASE Flatten
  <2>1. /\ UNCHANGED <<gen, Rebuild_Ptr, search_mutex_counter>>
        /\ rebuild = "copy" /\ rebuild' = "reopen"
    BY <1>3 DEF Flatten, RebuildStep
  <2>2. CounterCounts'
    BY <2>1 DEF CounterCounts, SearchLockedOut, Inside, Locked
  <2> QED
    BY <2>1, <2>2 DEF Typed, Chosen, Fresh, RangeSearch, Current, Replaced
<1>4. CASE UnlockAndBuild \/ UnlockSearch
  <2>1. /\ UNCHANGED <<gen, Rebuild_Ptr>> /\ search_mutex_counter' = 0
        /\ search_flag_mutex = "free"
        /\ \/ rebuild = "reopen" /\ rebuild' \in {"replace", "replay"}
           \/ rebuild = "open" /\ rebuild' = "clear"
    BY <1>4 DEF UnlockAndBuild, UnlockSearch, RebuildStep
  <2>2. \A s \in Searchers : search[s] # "counted"
    BY <2>1 DEF CounterCounts, SearchLockedOut, Inside
  <2>3. Counted = {}
    BY <2>2 DEF Counted
  <2>4. Cardinality(Counted) = 0
    BY <2>3, FS_EmptySet
  <2>5. CounterCounts'
    BY <2>1, <2>4 DEF CounterCounts, SearchLockedOut, Locked
  <2> QED
    BY <2>1, <2>5 DEF Typed, Chosen, Fresh, RangeSearch, Current, Replaced
<1>5. CASE Replace
  <2>1. /\ UNCHANGED <<Rebuild_Ptr, search_mutex_counter>>
        /\ rebuild = "swap" /\ rebuild' = "open"
    BY <1>5 DEF Replace, RebuildStep
  <2>2. \A s \in Searchers : ~Inside(s)
    BY <2>1 DEF CounterCounts, SearchLockedOut
  <2>3. \A s \in Searchers : search[s] # "counted"
    BY <2>2 DEF Inside
  <2>4. CounterCounts'
    BY <2>1, <2>3 DEF CounterCounts, SearchLockedOut, Locked
  <2> QED
    BY <2>1, <2>3, <2>4 DEF Typed, Chosen, Fresh, RangeSearch, Current, Replaced
<1>6. CASE ClearRebuildPtr
  <2>1. /\ UNCHANGED <<gen, search_mutex_counter>> /\ Rebuild_Ptr' = FALSE
        /\ rebuild = "clear" /\ rebuild' = "flag"
    BY <1>6 DEF ClearRebuildPtr, RebuildStep
  <2>2. CounterCounts'
    BY <2>1 DEF CounterCounts, SearchLockedOut, Locked
  <2> QED
    BY <2>1, <2>2 DEF Typed, Chosen, Fresh, RangeSearch, Current
<1> QED
  BY <1>1, <1>2, <1>3, <1>4, <1>5, <1>6 DEF RebuildThread

\* The steps of the mapping thread.
LEMMA MappingProtocol ==
  ASSUME Protocol, MappingThread
  PROVE  Protocol'
<1>0. UNCHANGED <<rebuild, gen, search_mutex_counter, search_gen>>
  BY DEF MappingThread, MappingStep, TestRange, LockRangeSearch, SearchByRange, PassFather,
     TestFather, LockWorking, ApplyLogged, ApplyBothLogged, ApplyUnlocked, JoinSearches,
     JoinThread, AddPoints, DeletePointBoxes, Push_Down, StartSearches, StopThread,
     rebuilder, searchers
<1> USE <1>0 DEF Protocol
<1>1. CASE StartSearches
  <2>1. \A s \in Searchers : search[s] = "joined" /\ search'[s] = "father"
    BY <1>1 DEF StartSearches, MapStep, Chosen
  <2>2. Counted' = Counted
    BY <2>1 DEF Counted
  <2>3. CounterCounts'
    BY <2>1, <2>2 DEF CounterCounts, SearchLockedOut, Inside, Locked
  <2>4. /\ search' \in [Searchers -> {"joined", "father", "test", "wait", "free", "counted"}]
        /\ map' = "parallel" /\ map = "idle" /\ UNCHANGED <<Rebuild_Ptr, search_flag_mutex>>
    BY <1>1 DEF StartSearches, MapStep, locks
  <2> QED
    BY <2>1, <2>3, <2>4 DEF Typed, Chosen, Fresh, RangeSearch, Current, Replaced
<1>2. CASE MappingThread /\ ~StartSearches
  <2>0. UNCHANGED search
    BY <1>2 DEF MappingThread, MappingStep, TestRange, LockRangeSearch, SearchByRange,
       PassFather, TestFather, LockWorking, ApplyLogged, ApplyBothLogged, ApplyUnlocked,
       JoinSearches, JoinThread, AddPoints, DeletePointBoxes, Push_Down, StopThread,
       searchers
  <2>c. Counted' = Counted
    BY <2>0 DEF Counted
  <2>1. CounterCounts' /\ Current'
    BY <2>0, <2>c DEF CounterCounts, SearchLockedOut, Current, Inside, Locked
  <2>j. \A s \in Searchers : search[s] = "joined"
    <3>1. map # "parallel" \/ JoinSearches
      BY <1>2 DEF MappingThread, MappingStep, TestRange, LockRangeSearch, SearchByRange,
         PassFather, TestFather, LockWorking, ApplyLogged, ApplyBothLogged, ApplyUnlocked,
         JoinThread, AddPoints, DeletePointBoxes, Push_Down, StopThread, MapStep
    <3> QED
      BY <3>1 DEF JoinSearches, Chosen
  <2>2. CASE ApplyUnlocked
    <3>1. /\ map = "apply" /\ map' \in {"idle", "pass", "apply"}
          /\ Rebuild_Ptr' = Rebuild_Ptr \/ Rebuild_Ptr' = TRUE
          /\ UNCHANGED search_flag_mutex
      BY <2>2 DEF ApplyUnlocked, AfterVisit, locks
    <3>2. Typed'
      BY <2>0, <3>1 DEF Typed
    <3>3. search_flag_mutex # "map"
      BY <3>1 DEF RangeSearch
    <3>4. RangeSearch'
      BY <3>1, <3>3 DEF RangeSearch
    <3>5. Fresh'
      BY <2>0, <2>j, <3>1 DEF Fresh
    <3>6. Chosen'
      BY <2>0, <2>j, <3>1 DEF Chosen
    <3> QED
      BY <2>1, <3>2, <3>4, <3>5, <3>6
  <2>3. CASE LockRangeSearch \/ SearchByRange
    BY <2>0, <2>1, <2>j, <2>3 DEF LockRangeSearch, SearchByRange, MapStep, Typed, Chosen,
       Fresh, RangeSearch, Replaced
  <2>4. CASE TestRange \/ AddPoints \/ PassFather \/ TestFather \/ LockWorking \/ ApplyLogged
               \/ ApplyBothLogged \/ JoinSearches \/ JoinThread \/ DeletePointBoxes
               \/ Push_Down \/ StopThread
    <3>1. map # "range" /\ UNCHANGED <<search_flag_mutex, Rebuild_Ptr>>
      BY <2>4 DEF TestRange, AddPoints, PassFather, TestFather, LockWorking, ApplyLogged,
         ApplyBothLogged, JoinSearches, JoinThread, DeletePointBoxes, Push_Down,
         StopThread, MapStep, locks
    <3>2. map' \in {"test", "test_range"} => map_gen' = gen
      BY <2>4 DEF TestRange, AddPoints, PassFather, TestFather, LockWorking, ApplyLogged,
         AfterVisit, ApplyBothLogged, JoinSearches, JoinThread, DeletePointBoxes,
         Push_Down, StopThread, MapStep
    <3>3. search_flag_mutex # "map"
      BY <3>1 DEF RangeSearch
    <3> QED
      BY <2>0, <2>1, <2>j, <3>1, <3>2, <3>3 DEF Typed, Chosen, Fresh, RangeSearch, Replaced
  <2> QED
    BY <1>2, <2>2, <2>3, <2>4 DEF MappingThread, MappingStep
<1> QED
  BY <1>1, <1>2

\* The steps of a search thread.
LEMMA SearchProtocol ==
  ASSUME Protocol, NEW t \in Searchers, SearchThread(t)
  PROVE  Protocol'
<1>0. UNCHANGED <<rebuild, gen, Rebuild_Ptr, map, map_gen, search_flag_mutex>>
  BY DEF SearchThread, SearchFather, TestRebuildPtr, EnterCounted, LeaveCounted, LeaveFree,
     rebuilder, mapper, locks
<1>f. IsFiniteSet(Counted)
  BY FS_Subset, SearchersAssumption DEF Counted
<1>n. Cardinality(Counted) \in Nat
  BY CountNat
<1> USE <1>0 DEF Protocol
<1>r. RangeSearch'
  BY DEF RangeSearch
<1>p. map = "parallel"
  BY DEF SearchThread, SearchFather, TestRebuildPtr, EnterCounted, LeaveCounted, LeaveFree,
     SearchStep, Chosen
<1>1. CASE SearchFather(t) \/ TestRebuildPtr(t) \/ LeaveFree(t)
  <2> DEFINE Moves(to, seen) ==
          /\ to \in {"joined", "test", "wait", "free"}
          /\ search[t] \in {"father", "test", "free"}
          /\ search_mutex_counter' = search_mutex_counter
          /\ search' = [search EXCEPT ![t] = to]
          /\ search_gen' = [search_gen EXCEPT ![t] = seen]
          /\ to = "test" => seen = gen
          /\ to = "free" => search[t] = "test" /\ (~Rebuild_Ptr \/ search_gen[t] # gen)
  <2>a. SearchFather(t) => Moves("joined", 0) \/ Moves("test", gen)
    <3>1. CASE pend
      BY <3>1 DEF SearchFather, SearchStep
    <3>2. CASE ~pend
      BY <3>2 DEF SearchFather, SearchStep
    <3> HIDE DEF Moves
    <3> QED
      BY <3>1, <3>2
  <2>b. ASSUME TestRebuildPtr(t), SearchStep(t, "test", "wait"),
               search_gen' = [search_gen EXCEPT ![t] = 0]
        PROVE  Moves("wait", 0)
    BY <2>b DEF TestRebuildPtr, SearchStep
  <2>c. ASSUME TestRebuildPtr(t), SearchStep(t, "test", "free"), MayFindOther(search_gen[t]),
               NEW seen, search_gen' = [search_gen EXCEPT ![t] = seen]
        PROVE  Moves("free", seen)
    BY <2>c DEF TestRebuildPtr, SearchStep, MayFindOther
  <2>d. LeaveFree(t) => Moves("joined", 0)
    BY DEF LeaveFree, SearchStep
  <2>0. \E to, seen : Moves(to, seen)
    <3>1. CASE TestRebuildPtr(t)
      <4>1. \/ /\ SearchStep(t, "test", "wait")
               /\ search_gen' = [search_gen EXCEPT ![t] = 0]
            \/ /\ MayFindOther(search_gen[t]) /\ SearchStep(t, "test", "free")
               /\ \E seen \in {search_gen[t], gen} :
                    search_gen' = [search_gen EXCEPT ![t] = seen]
        BY ONLY <3>1 DEF TestRebuildPtr
      <4> HIDE DEF Moves
      <4> QED
        BY <3>1, <4>1, <2>b, <2>c, Zenon
    <3> HIDE DEF Moves
    <3> QED
      BY <1>1, <3>1, <2>a, <2>d, Zenon
  <2>1. PICK to, seen : Moves(to, seen)
    BY <2>0
  <2>2. Counted' = Counted
    BY <2>1 DEF Counted, Typed
  <2>3. Rebuild_Ptr /\ ~Replaced => to # "free"
    BY <2>1 DEF Fresh
  <2>4. rebuild \in {"copy", "reopen", "swap"} => Rebuild_Ptr /\ ~Replaced
    BY DEF Chosen, Replaced
  <2>5. Typed' /\ Chosen' /\ Current'
    BY <1>p, <2>1 DEF Typed, Chosen, Current
  <2>6. Fresh'
    BY <2>1, <2>3 DEF Fresh, Typed, Replaced
  <2>7. CounterCounts'
    BY <2>1, <2>2, <2>3, <2>4 DEF CounterCounts, SearchLockedOut, Inside, Locked, Typed
  <2> QED
    BY <1>r, <2>5, <2>6, <2>7
<1>2. CASE EnterCounted(t)
  <2>1. /\ search[t] = "wait" /\ search' = [search EXCEPT ![t] = "counted"]
        /\ search_mutex_counter # -1 /\ search_mutex_counter' = search_mutex_counter + 1
        /\ search_gen' = [search_gen EXCEPT ![t] = gen]
    BY <1>2 DEF EnterCounted, SearchStep
  <2>2. ~Locked
    BY <2>1 DEF CounterCounts
  <2>3. Counted' = Counted \cup {t} /\ t \notin Counted
    BY <2>1 DEF Counted, Typed
  <2>4. Cardinality(Counted') = Cardinality(Counted) + 1
    BY <1>f, <2>3, FS_AddElement
  <2>5. Typed' /\ Chosen' /\ Fresh' /\ Current'
    BY <1>p, <2>1 DEF Typed, Chosen, Fresh, Current, Replaced
  <2>6. CounterCounts'
    BY <1>n, <2>1, <2>2, <2>4 DEF CounterCounts, SearchLockedOut, Locked
  <2> QED
    BY <1>r, <2>5, <2>6
<1>3. CASE LeaveCounted(t)
  <2>1. /\ search[t] = "counted" /\ search' = [search EXCEPT ![t] = "joined"]
        /\ search_mutex_counter' = search_mutex_counter - 1
        /\ search_gen' = [search_gen EXCEPT ![t] = 0]
    BY <1>3 DEF LeaveCounted, SearchStep
  <2>2. ~Locked
    BY <2>1 DEF CounterCounts, SearchLockedOut, Inside, Locked
  <2>3. Counted' = Counted \ {t} /\ t \in Counted
    BY <2>1 DEF Counted, Typed
  <2>4. Cardinality(Counted') = Cardinality(Counted) - 1
    BY <1>f, <2>3, FS_RemoveElement
  <2>5. Typed' /\ Chosen' /\ Fresh' /\ Current'
    BY <1>p, <2>1 DEF Typed, Chosen, Fresh, Current, Replaced
  <2>6. CounterCounts'
    BY <1>n, <2>1, <2>2, <2>4 DEF CounterCounts, SearchLockedOut, Locked
  <2> QED
    BY <1>r, <2>5, <2>6
<1> QED
  BY <1>1, <1>2, <1>3 DEF SearchThread

\* The protocol of search_mutex_counter, search_flag_mutex and Rebuild_Ptr is kept by
\* every interleaving of the three kinds of thread.
THEOREM ProtocolInvariant == Spec => []Protocol
<1>1. Protocol /\ [Next]_vars => Protocol'
  <2> SUFFICES ASSUME Protocol, [Next]_vars PROVE Protocol'
    OBVIOUS
  <2>1. CASE Finished \/ UNCHANGED vars
    BY <2>1 DEF Finished, vars, locks, rebuilder, mapper, searchers, Protocol, Typed,
       CounterCounts, SearchLockedOut, Chosen, Fresh, RangeSearch, Current, Inside, Locked,
       Counted, Replaced
  <2> QED
    BY <2>1, RebuildProtocol, MappingProtocol, SearchProtocol DEF Next
<1> QED
  BY InitProtocol, <1>1, PTL DEF Spec

\* No search of the parallel loop is in the subtree from the moment at which
\* multi_thread_rebuild starts to flatten it until it is replaced, and none is counted
\* before the search is unlocked.
THEOREM LockOutSafety == Spec => []SearchLockedOut
<1>1. Protocol => SearchLockedOut
  BY DEF Protocol, CounterCounts
<1> QED
  BY ProtocolInvariant, <1>1, PTL

\* Neither a counted search nor a range search that holds search_flag_mutex is left in
\* the nodes that delete_tree_nodes frees.
THEOREM DiscardSafety == Spec => []DiscardedUnread
<1>1. Protocol => DiscardedUnread
  BY DEF Protocol, Current, RangeSearch, DiscardedUnread
<1> QED
  BY ProtocolInvariant, <1>1, PTL
-----------------------------------------------------------------------------
(* No operation is lost: what is left of the logger leads from the copy to *)
(* the subtree that is still in place.                                     *)

Operation == [op : {"ADD_POINT", "DELETE_BOX", "DOWNSAMPLE_DELETE", "PUSH_DOWN"},
              points : SUBSET Points]

\* f goes from base to t by the operations of log.
Leads(f, base, log, t) ==
    /\ f[0] = base /\ f[Len(log)] = t
    /\ \A i \in 1 .. Len(log) : f[i] = Apply(log[i], f[i - 1])

CatchesUp(base, log, t) == \E f : Leads(f, base, log, t)

InHand == IF rebuild = "run" THEN Apply(replayed, new_root) ELSE new_root

TypedOps ==
    /\ Rebuild_Logger \in Seq(Operation) /\ todo \in Seq(Operation)
    /\ map \in {"pass", "test", "lock", "apply", "apply_logged"} => todo # <<>>
    /\ \A i \in 1 .. Len(todo) : todo[i] = PushDown => Len(todo) = 1
    /\ clean \in BOOLEAN

\* While the subtree is chosen, working_flag_mutex does its work.
Working ==
    /\ map = "apply_logged" /\ Rebuild_Ptr => working_flag_mutex = "map"
    /\ rebuild \in {"quiesce", "copy", "reopen"} => working_flag_mutex = "rebuild"
    /\ rebuild \in {"replay", "run"} => working_flag_mutex # "rebuild"
    /\ rebuild \in {"quiesce", "copy", "reopen", "replay", "run", "replace", "swap", "open",
                    "clear", "flag"} => rebuild_flag = TRUE

\* A rebuild that counts as clean meets no change made without the lock, and a deletion
\* on its way down is forgotten only by the replacement.
Announced ==
    /\ clean /\ rebuild \in {"quiesce", "copy", "reopen", "replay", "run", "replace", "swap"}
         => map # "apply"
    /\ map \in {"pass", "test", "lock", "apply", "apply_logged"} /\ todo[1] = PushDown
         => pend \/ ~Rebuild_Ptr \/ Replaced

NothingLost ==
    /\ clean /\ rebuild \in {"quiesce", "copy", "reopen"} => Rebuild_Logger = <<>>
    /\ clean /\ rebuild = "reopen" => new_root = tree
    /\ clean /\ rebuild \in {"replay", "run"} => CatchesUp(InHand, Rebuild_Logger, tree)
    /\ clean /\ rebuild \in {"replace", "swap"} /\ working_flag_mutex = "rebuild"
         => new_root = tree

Replay == Protocol /\ TypedOps /\ Working /\ Announced /\ NothingLost

\* Appending an operation to the logger as it is applied to the subtree.
LEMMA CatchesUpAppend ==
  ASSUME NEW base, NEW t, NEW log \in Seq(Operation), NEW o \in Operation,
         CatchesUp(base, log, t)
  PROVE  CatchesUp(base, Append(log, o), Apply(o, t))
<1>1. PICK f : Leads(f, base, log, t)
  BY DEF CatchesUp
<1> DEFINE n == Len(log)
           g == [i \in 0 .. n + 1 |-> IF i = n + 1 THEN Apply(o, t) ELSE f[i]]
<1>2. n \in Nat /\ Len(Append(log, o)) = n + 1 /\ Append(log, o)[n + 1] = o
  OBVIOUS
<1>3. \A i \in 1 .. n : Append(log, o)[i] = log[i]
  OBVIOUS
<1>4. g[0] = base /\ g[n + 1] = Apply(o, t) /\ g[n] = t
  BY <1>1, <1>2 DEF Leads
<1>5. \A i \in 1 .. n + 1 : g[i] = Apply(Append(log, o)[i], g[i - 1])
  <2> TAKE i \in 1 .. n + 1
  <2>1. CASE i = n + 1
    BY <1>2, <1>4, <2>1
  <2>2. CASE i \in 1 .. n
    <3>1. g[i] = f[i] /\ g[i - 1] = f[i - 1]
      BY <1>2, <2>2
    <3>2. f[i] = Apply(log[i], f[i - 1])
      BY <1>1, <2>2 DEF Leads
    <3> QED
      BY <1>3, <2>2, <3>1, <3>2
  <2> QED
    BY <1>2, <2>1, <2>2
<1>6. Leads(g, base, Append(log, o), Apply(o, t))
  BY <1>2, <1>4, <1>5 DEF Leads
<1> QED
  BY <1>6 DEF CatchesUp

\* Taking the oldest operation off the logger to run it on the copy.
LEMMA CatchesUpTail ==
  ASSUME NEW base, NEW t, NEW log \in Seq(Operation), log # <<>>, CatchesUp(base, log, t)
  PROVE  CatchesUp(Apply(Head(log), base), Tail(log), t)
<1>1. PICK f : Leads(f, base, log, t)
  BY DEF CatchesUp
<1> DEFINE n == Len(log)
           g == [i \in 0 .. n - 1 |-> f[i + 1]]
<1>2. n \in Nat \ {0} /\ Len(Tail(log)) = n - 1 /\ Head(log) = log[1]
  OBVIOUS
<1>3. \A i \in 1 .. n - 1 : Tail(log)[i] = log[i + 1]
  OBVIOUS
<1>4. g[0] = Apply(Head(log), base) /\ g[n - 1] = t
  <2>1. f[1] = Apply(log[1], f[1 - 1])
    BY <1>1, <1>2 DEF Leads
  <2> QED
    BY <1>1, <1>2, <2>1 DEF Leads
<1>5. \A i \in 1 .. n - 1 : g[i] = Apply(Tail(log)[i], g[i - 1])
  <2> TAKE i \in 1 .. n - 1
  <2>1. f[i + 1] = Apply(log[i + 1], f[(i + 1) - 1])
    BY <1>1, <1>2 DEF Leads
  <2>2. g[i] = f[i + 1] /\ g[i - 1] = f[i]
    BY <1>2
  <2> QED
    BY <1>2, <1>3, <2>1, <2>2
<1>6. Leads(g, Apply(Head(log), base), Tail(log), t)
  BY <1>2, <1>4, <1>5 DEF Leads
<1> QED
  BY <1>6 DEF CatchesUp

\* An empty logger leads nowhere, and from the copy to itself.
LEMMA CatchesUpEmpty ==
  ASSUME NEW base, NEW t
  PROVE  CatchesUp(base, <<>>, t) <=> base = t
<1>1. Len(<<>>) = 0
  OBVIOUS
<1>2. ASSUME base = t PROVE CatchesUp(base, <<>>, t)
  <2>1. Leads([i \in {0} |-> base], base, <<>>, t)
    BY <1>1, <1>2 DEF Leads
  <2> QED
    BY <2>1 DEF CatchesUp
<1>3. ASSUME CatchesUp(base, <<>>, t) PROVE base = t
  BY <1>1, <1>3 DEF CatchesUp, Leads
<1> QED
  BY <1>2, <1>3

\* Sequences of operations: what is left of one, and short ones.
LEMMA OperationsLeft ==
  ASSUME NEW list \in Seq(Operation), list # <<>>
  PROVE  /\ Head(list) \in Operation /\ Tail(list) \in Seq(Operation)
         /\ Len(list) # 1 => Tail(list) # <<>>
         /\ Head(list) = list[1]
         /\ \A i \in 1 .. Len(Tail(list)) :
              Tail(list)[i] = list[i + 1] /\ i + 1 \in 1 .. Len(list) /\ Len(list) # 1
<1>1. Len(list) \in Nat
  OBVIOUS
<1>2. Head(list) \in Operation /\ Tail(list) \in Seq(Operation)
  OBVIOUS
<1>3. Len(Tail(list)) = Len(list) - 1
  OBVIOUS
<1>4. ASSUME Tail(list) = <<>> PROVE Len(list) = 1
  <2>1. Len(Tail(list)) = Len(<<>>)
    BY <1>4, Zenon
  <2>2. Len(<<>>) = 0
    OBVIOUS
  <2>3. Len(list) - 1 = 0
    BY <1>3, <2>1, <2>2, Zenon
  <2> QED
    BY <1>1, <2>3
<1>5. Head(list) = list[1]
  OBVIOUS
<1>6. \A i \in 1 .. Len(Tail(list)) :
        Tail(list)[i] = list[i + 1] /\ i + 1 \in 1 .. Len(list) /\ Len(list) # 1
  BY <1>1, <1>3
<1> QED
  BY <1>2, <1>4, <1>5, <1>6

LEMMA OneOrTwoOperations ==
  ASSUME NEW o \in Operation, NEW q \in Operation
  PROVE  /\ <<o>> \in Seq(Operation) /\ <<o>> # <<>>
         /\ <<o, q>> \in Seq(Operation) /\ <<o, q>> # <<>>
<1>1. <<o>> \in Seq(Operation) /\ Len(<<o>>) = 1
  OBVIOUS
<1>2. <<o, q>> \in Seq(Operation) /\ Len(<<o, q>>) = 2
  OBVIOUS
<1>3. Len(<<>>) = 0
  OBVIOUS
<1> QED
  BY <1>1, <1>2, <1>3

LEMMA InitReplay == Init => Replay
<1> SUFFICES ASSUME Init PROVE TypedOps /\ Working /\ Announced /\ NothingLost
  BY InitProtocol DEF Replay
<1>1. Len(<<>>) = 0 /\ <<>> \in Seq(Operation)
  OBVIOUS
<1>2. TypedOps
  BY <1>1 DEF Init, TypedOps
<1> QED
  BY <1>2 DEF Init, Working, Announced, NothingLost

\* The rebuild thread: every step but the two that handle an operation leaves the
\* logger, the copy and the subtree alone, or needs the logger empty.
LEMMA RebuildReplay ==
  ASSUME Replay, RebuildThread
  PROVE  (TypedOps /\ Working /\ Announced /\ NothingLost)'
<1> USE DEF Replay, RebuildStep
<1>0. UNCHANGED <<map, todo>>
  BY DEF RebuildThread, Terminated, LockRebuildPtr, NothingToRebuild, StartRebuild,
     QuiesceToCopy, LockSearch, Flatten, UnlockAndBuild, PopOperation, run_operation,
     LoggerDrained, QuiesceToReplace, Replace, UnlockSearch, ClearRebuildPtr,
     ClearRebuildFlag, DeleteTreeNodes, mapper
<1>a. TypedOps'
  <2>1. Rebuild_Logger' \in {Rebuild_Logger, Tail(Rebuild_Logger)}
        /\ (Rebuild_Logger' # Rebuild_Logger => Rebuild_Logger # <<>>)
    BY DEF RebuildThread, Terminated, LockRebuildPtr, NothingToRebuild, StartRebuild,
       QuiesceToCopy, LockSearch, Flatten, UnlockAndBuild, PopOperation, run_operation,
       LoggerDrained, QuiesceToReplace, Replace, UnlockSearch, ClearRebuildPtr,
       ClearRebuildFlag, DeleteTreeNodes
  <2>2. clean' \in {clean, TRUE, FALSE}
    BY DEF RebuildThread, Terminated, LockRebuildPtr, NothingToRebuild, StartRebuild,
       QuiesceToCopy, LockSearch, Flatten, UnlockAndBuild, PopOperation, run_operation,
       LoggerDrained, QuiesceToReplace, Replace, UnlockSearch, ClearRebuildPtr,
       ClearRebuildFlag, DeleteTreeNodes
  <2>3. Rebuild_Logger' \in Seq(Operation)
    BY <2>1 DEF TypedOps
  <2> QED
    BY <1>0, <2>2, <2>3 DEF TypedOps
<1>b. Announced'
  <2>1. CASE StartRebuild
    BY <1>0, <2>1 DEF StartRebuild, Announced, Replaced
  <2>2. CASE Replace \/ UnlockSearch
    BY <1>0, <2>2 DEF Replace, UnlockSearch, Announced, Replaced
  <2>3. CASE ClearRebuildPtr
    BY <1>0, <2>3 DEF ClearRebuildPtr, Announced
  <2>4. CASE RebuildThread /\ ~StartRebuild /\ ~Replace /\ ~UnlockSearch /\ ~ClearRebuildPtr
    <3>1. /\ UNCHANGED <<Rebuild_Ptr, pend>> /\ ~Replaced
          /\ \/ UNCHANGED clean
             \/ rebuild' = "loop"
          /\ rebuild' \in {"quiesce", "copy", "reopen", "replay", "run", "replace", "swap"}
               => rebuild \in {"quiesce", "copy", "reopen", "replay", "run", "replace", "swap"}
      BY <2>4 DEF RebuildThread, Terminated, LockRebuildPtr, NothingToRebuild,
         QuiesceToCopy, LockSearch, Flatten, UnlockAndBuild, PopOperation, run_operation,
         LoggerDrained, QuiesceToReplace, ClearRebuildFlag, DeleteTreeNodes, Replaced
    <3> QED
      BY <1>0, <3>1 DEF Announced
  <2> QED
    BY <2>1, <2>2, <2>3, <2>4
<1>1. CASE Terminated \/ LockRebuildPtr \/ NothingToRebuild \/ DeleteTreeNodes \/ UnlockSearch
             \/ ClearRebuildFlag
  <2>1. /\ UNCHANGED <<working_flag_mutex, Rebuild_Ptr>>
        /\ rebuild' \in {"ended", "take", "work", "loop", "clear", "discard"}
        /\ rebuild' = "clear" => rebuild = "open" /\ UNCHANGED rebuild_flag
    BY <1>1 DEF Terminated, LockRebuildPtr, NothingToRebuild, DeleteTreeNodes, UnlockSearch,
       ClearRebuildFlag, locks
  <2> QED
    BY <1>0, <1>a, <1>b, <2>1 DEF Working, NothingLost
<1>2. CASE StartRebuild
  BY <1>0, <1>a, <1>b, <1>2 DEF StartRebuild, Working, NothingLost
<1>3. CASE QuiesceToCopy \/ QuiesceToReplace
  BY <1>0, <1>a, <1>b, <1>3 DEF QuiesceToCopy, QuiesceToReplace, LockSearch, Working,
     NothingLost, locks
<1>4. CASE Flatten
  BY <1>0, <1>a, <1>b, <1>4 DEF Flatten, Working, NothingLost, locks
<1>5. CASE UnlockAndBuild
  <2>1. /\ rebuild = "reopen" /\ rebuild' \in {"replace", "replay"}
        /\ working_flag_mutex' = "free"
        /\ UNCHANGED <<tree, Rebuild_Ptr, rebuild_flag, Rebuild_Logger, new_root, clean>>
    BY <1>5 DEF UnlockAndBuild
  <2>2. clean => CatchesUp(new_root, Rebuild_Logger, tree)
    BY <2>1, CatchesUpEmpty DEF NothingLost
  <2>3. map # "apply_logged"
    BY <2>1 DEF Protocol, Chosen, Working
  <2>4. NothingLost'
    BY <2>1, <2>2 DEF NothingLost, InHand
  <2> QED
    BY <1>0, <1>a, <1>b, <2>1, <2>3, <2>4 DEF Working
<1>6. CASE PopOperation
  <2>1. /\ rebuild = "replay" /\ rebuild' = "run" /\ Rebuild_Logger # <<>>
        /\ replayed' = Head(Rebuild_Logger) /\ Rebuild_Logger' = Tail(Rebuild_Logger)
        /\ UNCHANGED <<tree, Rebuild_Ptr, rebuild_flag, working_flag_mutex, new_root, clean>>
    BY <1>6 DEF PopOperation, locks
  <2>2. clean => CatchesUp(new_root, Rebuild_Logger, tree)
    BY <2>1 DEF NothingLost, InHand
  <2>3. clean => CatchesUp(Apply(Head(Rebuild_Logger), new_root), Tail(Rebuild_Logger), tree)
    BY <2>1, <2>2, CatchesUpTail DEF TypedOps
  <2>4. InHand' = Apply(Head(Rebuild_Logger), new_root)
    BY <2>1 DEF InHand, Apply
  <2>5. NothingLost'
    BY <2>1, <2>3, <2>4 DEF NothingLost
  <2> QED
    BY <1>0, <1>a, <1>b, <2>1, <2>5 DEF Working
<1>7. CASE run_operation
  <2>1. /\ rebuild = "run" /\ rebuild' = "replay" /\ new_root' = Apply(replayed, new_root)
        /\ UNCHANGED <<tree, Rebuild_Ptr, rebuild_flag, Rebuild_Logger, working_flag_mutex,
                       clean>>
    BY <1>7 DEF run_operation, locks
  <2>2. InHand' = InHand
    BY <2>1 DEF InHand
  <2>3. NothingLost'
    BY <2>1, <2>2 DEF NothingLost
  <2> QED
    BY <1>0, <1>a, <1>b, <2>1, <2>3 DEF Working
<1>8. CASE LoggerDrained
  <2>1. /\ rebuild = "replay" /\ rebuild' = "replace" /\ Rebuild_Logger = <<>>
        /\ working_flag_mutex = "free"
        /\ UNCHANGED <<tree, Rebuild_Ptr, rebuild_flag, Rebuild_Logger, new_root, clean>>
    BY <1>8 DEF LoggerDrained
  <2>2. clean => new_root = tree
    BY <2>1, CatchesUpEmpty DEF NothingLost, InHand
  <2>3. map # "apply_logged"
    BY <2>1 DEF Protocol, Chosen, Working
  <2> QED
    BY <1>0, <1>a, <1>b, <2>1, <2>2, <2>3 DEF Working, NothingLost
<1>9. CASE Replace \/ ClearRebuildPtr
  <2>1. CASE Replace
    <3>1. /\ rebuild = "swap" /\ rebuild' = "open"
          /\ UNCHANGED <<Rebuild_Ptr, rebuild_flag, working_flag_mutex>>
      BY <2>1 DEF Replace, locks
    <3> QED
      BY <1>0, <1>a, <1>b, <3>1 DEF Working, NothingLost
  <2>2. CASE ClearRebuildPtr
    <3>1. /\ rebuild = "clear" /\ rebuild' = "flag"
          /\ Rebuild_Ptr' = FALSE /\ UNCHANGED rebuild_flag
      BY <2>2 DEF ClearRebuildPtr
    <3> QED
      BY <1>0, <1>a, <1>b, <3>1 DEF Working, NothingLost
  <2> QED
    BY <1>9, <2>1, <2>2
<1> QED
  BY <1>1, <1>2, <1>3, <1>4, <1>5, <1>6, <1>7, <1>8, <1>9 DEF RebuildThread

\* The mapping thread: an operation on a subtree that is rebuilt is logged as it is
\* applied, and any other one finds no rebuild.
LEMMA MappingReplay ==
  ASSUME Replay, MappingThread
  PROVE  (TypedOps /\ Working /\ Announced /\ NothingLost)'
<1> USE DEF Replay, MapStep
<1>0. UNCHANGED <<rebuild, new_root, replayed, clean, rebuild_flag>>
  BY DEF MappingThread, MappingStep, TestRange, LockRangeSearch, SearchByRange, PassFather,
     TestFather, LockWorking, ApplyLogged, ApplyBothLogged, ApplyUnlocked, JoinSearches,
     JoinThread, AddPoints, DeletePointBoxes, Push_Down, StartSearches, StopThread, rebuilder
<1>h. InHand' = InHand
  BY <1>0 DEF InHand, Apply
<1>1. CASE ApplyLogged
  <2>1. /\ map = "apply_logged" /\ map' \in {"idle", "pass", "apply"} /\ todo # <<>>
        /\ tree' = IF Head(todo) = PushDown /\ ~pend THEN tree ELSE Apply(Head(todo), tree)
        /\ todo' = Tail(todo) /\ pend' = (pend /\ Head(todo) # PushDown)
        /\ map' = "pass" => Len(todo) # 1
        /\ map' # "apply"
        /\ Rebuild_Logger' = IF rebuild_flag THEN Append(Rebuild_Logger, Head(todo))
                             ELSE Rebuild_Logger
        /\ working_flag_mutex' = "free" /\ UNCHANGED Rebuild_Ptr
    BY <1>1 DEF ApplyLogged, Visit, AfterVisit, TypedOps
  <2>2. Head(todo) \in Operation
    BY <2>1 DEF TypedOps
  <2>3. rebuild \notin {"quiesce", "copy", "reopen"}
    BY <2>1 DEF Working, Protocol, Chosen
  <2>4. rebuild \in {"replace", "swap"} => working_flag_mutex # "rebuild"
    BY <2>1 DEF Working, Protocol, Chosen
  <2>5. ASSUME clean, rebuild \in {"replay", "run"}
        PROVE  CatchesUp(InHand, Rebuild_Logger', tree')
    <3>1. rebuild_flag = TRUE
      BY <2>5 DEF Working
    <3>2. Head(todo) = PushDown => pend
      <4>1. Rebuild_Ptr /\ ~Replaced
        BY <2>5 DEF Protocol, Chosen, Replaced
      <4>2. Head(todo) = todo[1]
        BY <2>1, OperationsLeft DEF TypedOps
      <4> QED
        BY <2>1, <4>1, <4>2 DEF Announced
    <3>3. tree' = Apply(Head(todo), tree)
      BY <2>1, <3>2
    <3> QED
      BY <2>1, <2>2, <2>5, <3>1, <3>3, CatchesUpAppend DEF TypedOps, NothingLost
  <2>7. NothingLost'
    BY <1>0, <1>h, <2>1, <2>3, <2>5 DEF NothingLost
  <2>8. TypedOps' /\ Announced'
    <3>1. Rebuild_Logger' \in Seq(Operation)
      BY <2>1, <2>2 DEF TypedOps
    <3>2. /\ todo' \in Seq(Operation) /\ (map' = "pass" => todo' # <<>>)
          /\ \A i \in 1 .. Len(todo') : todo'[i] # PushDown
      BY <2>1, OperationsLeft DEF TypedOps
    <3>3. map' = "pass" => todo'[1] # PushDown
      BY <3>2
    <3>4. TypedOps'
      BY <1>0, <2>1, <3>1, <3>2 DEF TypedOps
    <3>5. Announced'
      <4>1. map' # "apply" /\ map' \notin {"test", "lock", "apply", "apply_logged"}
        BY <2>1
      <4> QED
        BY <3>3, <4>1 DEF Announced
    <3> QED
      BY <3>4, <3>5
  <2> QED
    BY <1>0, <2>1, <2>3, <2>7, <2>8 DEF Working
<1>2. CASE ApplyBothLogged
  <2>1. /\ map = "apply_logged" /\ map' = "idle" /\ Len(todo) = 2
        /\ tree' = Apply(todo[2], Apply(todo[1], tree)) /\ todo' = <<>>
        /\ Rebuild_Logger' = IF rebuild_flag
                             THEN Append(Append(Rebuild_Logger, todo[1]), todo[2])
                             ELSE Rebuild_Logger
        /\ working_flag_mutex' = "free" /\ UNCHANGED <<Rebuild_Ptr, pend>>
    BY <1>2 DEF ApplyBothLogged
  <2>2. todo[1] \in Operation /\ todo[2] \in Operation
    <3>1. todo \in Seq(Operation)
      BY DEF TypedOps
    <3>2. Len(todo) = 2
      BY <2>1
    <3>3. \A i \in 1 .. Len(todo) : todo[i] \in Operation
      BY ONLY <3>1
    <3> QED
      BY ONLY <3>2, <3>3
  <2>3. rebuild \notin {"quiesce", "copy", "reopen"}
    BY <2>1 DEF Working, Protocol, Chosen
  <2>4. rebuild \in {"replace", "swap"} => working_flag_mutex # "rebuild"
    BY <2>1 DEF Working, Protocol, Chosen
  <2>5. ASSUME clean, rebuild \in {"replay", "run"}
        PROVE  CatchesUp(InHand, Rebuild_Logger', tree')
    <3>1. rebuild_flag = TRUE
      BY <2>5 DEF Working
    <3>2. Rebuild_Logger \in Seq(Operation) /\ CatchesUp(InHand, Rebuild_Logger, tree)
      BY <2>5 DEF TypedOps, NothingLost
    <3>3. CatchesUp(InHand, Append(Rebuild_Logger, todo[1]), Apply(todo[1], tree))
      BY <2>2, <3>2, CatchesUpAppend
    <3>4. Append(Rebuild_Logger, todo[1]) \in Seq(Operation)
      BY <2>2, <3>2
    <3> QED
      BY <2>1, <2>2, <3>1, <3>3, <3>4, CatchesUpAppend
  <2>6. Rebuild_Logger' \in Seq(Operation) /\ todo' \in Seq(Operation) /\ Len(todo') = 0
    BY <2>1, <2>2 DEF TypedOps
  <2>7. TypedOps'
    BY <1>0, <2>1, <2>6 DEF TypedOps
  <2>8. NothingLost'
    BY <1>0, <1>h, <2>1, <2>3, <2>5 DEF NothingLost
  <2> QED
    <3>1. Announced'
      BY <2>1 DEF Announced
    <3>2. Working'
      BY <1>0, <2>1, <2>3 DEF Working
    <3> QED
      BY <2>7, <2>8, <3>1, <3>2
<1>3. CASE ApplyUnlocked
  <2>1. /\ map = "apply" /\ map' \in {"idle", "pass", "apply"} /\ todo # <<>>
        /\ todo' = Tail(todo) /\ pend' = (pend /\ Head(todo) # PushDown)
        /\ map' # "idle" => Len(todo) # 1
        /\ UNCHANGED <<Rebuild_Logger, working_flag_mutex>>
    BY <1>3 DEF ApplyUnlocked, Visit, AfterVisit, TypedOps, locks
  <2>2. rebuild \in {"quiesce", "copy", "reopen", "replay", "run", "replace", "swap"} => ~clean
    BY <2>1 DEF Announced
  <2>3. /\ todo' \in Seq(Operation) /\ (map' # "idle" => todo' # <<>>)
        /\ \A i \in 1 .. Len(todo') : todo'[i] # PushDown
    BY <2>1, OperationsLeft DEF TypedOps
  <2>4. map' # "idle" => todo'[1] # PushDown
    BY <2>3
  <2>5. TypedOps'
    BY <1>0, <2>1, <2>3 DEF TypedOps
  <2>6. Announced'
    <3>1. clean' = clean /\ rebuild' = rebuild
      BY <1>0
    <3>2. map' \in {"pass", "test", "lock", "apply", "apply_logged"} => todo'[1] # PushDown
      BY <2>1, <2>4
    <3> QED
      BY <2>2, <3>1, <3>2 DEF Announced
  <2>7. NothingLost'
    BY <1>0, <2>2 DEF NothingLost
  <2>8. Working'
    BY <1>0, <2>1 DEF Working
  <2> QED
    BY <2>5, <2>6, <2>7, <2>8
<1>4. CASE MappingThread /\ ~ApplyLogged /\ ~ApplyBothLogged /\ ~ApplyUnlocked
  <2>1. UNCHANGED <<tree, Rebuild_Logger, Rebuild_Ptr>>
    BY <1>4 DEF MappingThread, MappingStep, TestRange, LockRangeSearch, SearchByRange,
       PassFather, TestFather, LockWorking, JoinSearches, JoinThread, AddPoints,
       DeletePointBoxes, Push_Down, StartSearches, StopThread
  <2>2. \/ UNCHANGED working_flag_mutex /\ (map' = "apply_logged" => map = "apply_logged")
        \/ working_flag_mutex = "free" /\ working_flag_mutex' = "map"
    BY <1>4 DEF MappingThread, MappingStep, TestRange, LockRangeSearch, SearchByRange,
       PassFather, TestFather, LockWorking, JoinSearches, JoinThread, AddPoints,
       DeletePointBoxes, Push_Down, StartSearches, StopThread, locks
  <2>4. TypedOps' /\ Announced'
    <3>1. CASE SearchByRange
      <4>1. PICK p \in Points :
              todo' \in {<<DownsampleDelete(p), AddPoint(p)>>, <<AddPoint(p)>>}
        BY <3>1 DEF SearchByRange
      <4>2. DownsampleDelete(p) \in Operation /\ AddPoint(p) \in Operation
        BY DEF Operation, DownsampleDelete, AddPoint
      <4>3. todo' \in Seq(Operation) /\ todo' # <<>>
        BY <4>1, <4>2, OneOrTwoOperations
      <4>4. DownsampleDelete(p) # PushDown /\ AddPoint(p) # PushDown
        BY DEF PushDown, DownsampleDelete, AddPoint
      <4>5. (\A i \in 1 .. Len(todo') : todo'[i] # PushDown) /\ todo'[1] # PushDown
        BY <4>1, <4>4
      <4>6. map' = "pass"
        BY <3>1 DEF SearchByRange
      <4>7. TypedOps'
        BY <1>0, <2>1, <4>3, <4>5 DEF TypedOps
      <4>8. Announced'
        BY <1>0, <4>5, <4>6 DEF Announced
      <4> QED
        BY <4>7, <4>8
    <3>2. CASE DeletePointBoxes
      <4>1. PICK b \in Boxes :
              IF b \in FatherBoxes /\ ~whole THEN pend' = TRUE /\ UNCHANGED <<map, todo>>
              ELSE map' = "pass" /\ todo' = <<DeleteBox(b)>> /\ UNCHANGED pend
        BY <3>2 DEF DeletePointBoxes
      <4>2. DeleteBox(b) \in Operation /\ DeleteBox(b) # PushDown
        BY BoxesAssumption DEF Operation, DeleteBox, PushDown
      <4>3. CASE pend' = TRUE /\ UNCHANGED <<map, todo>>
        BY <1>0, <2>1, <4>3 DEF TypedOps, Announced, Replaced
      <4>4. CASE map' = "pass" /\ todo' = <<DeleteBox(b)>>
        <5>1. /\ todo' \in Seq(Operation) /\ todo' # <<>> /\ todo'[1] # PushDown
              /\ \A i \in 1 .. Len(todo') : todo'[i] # PushDown
          BY <4>2, <4>4, OneOrTwoOperations
        <5>2. TypedOps'
          BY <1>0, <2>1, <5>1 DEF TypedOps
        <5>3. Announced'
          BY <1>0, <4>4, <5>1 DEF Announced
        <5> QED
          BY <5>2, <5>3
      <4> QED
        BY <4>1, <4>3, <4>4
    <3>3. CASE Push_Down
      <4>1. PushDown \in Operation
        BY DEF Operation, PushDown
      <4>2. todo' \in Seq(Operation) /\ todo' # <<>> /\ Len(todo') = 1
        BY <3>3, <4>1 DEF Push_Down
      <4>3. pend' = pend /\ pend /\ map' = "pass"
        BY <3>3 DEF Push_Down
      <4>4. TypedOps'
        BY <1>0, <2>1, <4>2 DEF TypedOps
      <4>5. Announced'
        BY <1>0, <4>3 DEF Announced
      <4> QED
        BY <4>4, <4>5
    <3>4. CASE TestRange \/ LockRangeSearch \/ PassFather \/ TestFather \/ LockWorking
                 \/ JoinSearches \/ JoinThread \/ AddPoints \/ StartSearches \/ StopThread
      <4>1. UNCHANGED <<todo, pend>>
        BY <3>4 DEF TestRange, LockRangeSearch, PassFather, TestFather, LockWorking,
           JoinSearches, JoinThread, AddPoints, StartSearches, StopThread
      <4>2. map' \in {"pass", "test", "lock", "apply", "apply_logged"}
              => map \in {"pass", "test", "lock", "apply", "apply_logged"}
        BY <3>4 DEF TestRange, LockRangeSearch, PassFather, TestFather, LockWorking,
           JoinSearches, JoinThread, AddPoints, StartSearches, StopThread
      <4>3. map' = "apply" => ~Rebuild_Ptr \/ Replaced
        <5>1. map' = "apply" => map = "test" /\ MayFindOther(map_gen)
          BY <3>4 DEF TestRange, LockRangeSearch, PassFather, TestFather, LockWorking,
             JoinSearches, JoinThread, AddPoints, StartSearches, StopThread
        <5> QED
          BY <5>1 DEF Protocol, Fresh, MayFindOther
      <4>4. rebuild \in {"quiesce", "copy", "reopen", "replay", "run", "replace", "swap"}
              => Rebuild_Ptr /\ ~Replaced
        BY DEF Protocol, Chosen, Replaced
      <4>5. TypedOps'
        BY <1>0, <2>1, <4>1, <4>2 DEF TypedOps
      <4>6. Announced'
        <5>1. UNCHANGED <<clean, rebuild, Rebuild_Ptr, todo, pend>> /\ Replaced' = Replaced
          BY <1>0, <2>1, <4>1 DEF Replaced
        <5>2. clean' /\ rebuild' \in {"quiesce", "copy", "reopen", "replay", "run", "replace",
                                    "swap"} => map' # "apply"
          BY <4>3, <4>4, <5>1
        <5>3. map' \in {"pass", "test", "lock", "apply", "apply_logged"} /\ todo'[1] = PushDown
                => pend' \/ ~Rebuild_Ptr' \/ Replaced'
          BY <4>2, <5>1 DEF Announced
        <5> QED
          BY <5>2, <5>3 DEF Announced
      <4> QED
        BY <4>5, <4>6
    <3> QED
      BY <1>4, <3>1, <3>2, <3>3, <3>4 DEF MappingThread, MappingStep
  <2>5. NothingLost'
    BY <1>0, <1>h, <2>1, <2>2 DEF NothingLost
  <2>6. Working'
    BY <1>0, <2>1, <2>2 DEF Working
  <2> QED
    BY <2>4, <2>5, <2>6
<1> QED
  BY <1>1, <1>2, <1>3, <1>4

\* What is left of the logger always leads from the copy to the subtree in place.
THEOREM ReplayInvariant == Spec => []Replay
<1>1. Replay /\ [Next]_vars => (TypedOps /\ Working /\ Announced /\ NothingLost)'
  <2> SUFFICES ASSUME Replay, [Next]_vars PROVE (TypedOps /\ Working /\ Announced /\ NothingLost)'
    OBVIOUS
  <2>1. CASE UNCHANGED <<tree, Rebuild_Ptr, rebuild_flag, Rebuild_Logger,
                         working_flag_mutex, pend, rebuilder, map, todo>>
    <3>1. InHand' = InHand
      BY <2>1 DEF InHand, Apply, rebuilder
    <3>2. NothingLost'
      BY <2>1, <3>1 DEF Replay, NothingLost, rebuilder
    <3> QED
      BY <2>1, <3>2 DEF Replay, TypedOps, Working, Announced, Replaced, rebuilder
  <2>2. CASE Finished \/ UNCHANGED vars \/ \E s \in Searchers : SearchThread(s)
    BY <2>1, <2>2 DEF Finished, vars, SearchThread, SearchFather, TestRebuildPtr, EnterCounted,
       LeaveCounted, LeaveFree, locks, mapper
  <2> QED
    BY <2>2, RebuildReplay, MappingReplay DEF Next
<1>2. Replay <=> Protocol /\ (TypedOps /\ Working /\ Announced /\ NothingLost)
  BY DEF Replay
<1> QED
  BY InitReplay, ProtocolInvariant, <1>1, <1>2, PTL DEF Spec

\* No operation made during a rebuild is lost or applied twice, in any number of
\* rebuilds: the subtree put in place has the points of the one it replaces.
THEOREM RebuildSafety == Spec => RebuildKeepsPoints
<1>1. Replay /\ [Next]_vars
        => [gen' # gen /\ clean /\ working_flag_mutex = "rebuild" => tree' = tree]_vars
  <2> SUFFICES ASSUME Replay, [Next]_vars, gen' # gen, clean,
                      working_flag_mutex = "rebuild"
               PROVE  tree' = tree
    OBVIOUS
  <2>1. Replace
    BY DEF Next, RebuildThread, Terminated, LockRebuildPtr, NothingToRebuild, StartRebuild,
       QuiesceToCopy, LockSearch, Flatten, UnlockAndBuild, PopOperation, run_operation,
       LoggerDrained, QuiesceToReplace, UnlockSearch, ClearRebuildPtr, ClearRebuildFlag,
       DeleteTreeNodes, MappingThread, MappingStep, TestRange, LockRangeSearch,
       SearchByRange, PassFather, TestFather, LockWorking, ApplyLogged, ApplyBothLogged,
       ApplyUnlocked, JoinSearches, JoinThread, AddPoints, DeletePointBoxes, Push_Down,
       StartSearches, StopThread, SearchThread, SearchFather, TestRebuildPtr, EnterCounted, LeaveCounted, LeaveFree, Finished, vars
  <2> QED
    BY <2>1 DEF Replace, RebuildStep, Replay, NothingLost
<1> QED
  BY ReplayInvariant, <1>1, PTL DEF Spec, RebuildKeepsPoints
===============================================================================
