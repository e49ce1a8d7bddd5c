----------------------------- MODULE LidarConfig -----------------------------
(***************************************************************************)
(* How the driver takes lidars into use: the table of handles (CacheIndex) *)
(* and the asynchronous configuration (LivoxLidarCallback).                *)
(*                                                                         *)
(* The SDK reports that a lidar is there; the driver then asks for each    *)
(* configured setting, and the lidar's points are published once all of    *)
(* them are confirmed (see PointQueue).  Each report and each answer is a  *)
(* callback on a thread of its own.  The settings are abstracted to their  *)
(* names; the installation attitude, the work mode and the switching on of *)
(* the IMU, which change nothing in the driver, are left out.              *)
(***************************************************************************)
EXTENDS Integers, FiniteSets, Functions

CONSTANTS
    Handle,            \* lidars on the network
    none,
    UserConfig,        \* lidar of the configuration file -> the settings given there
    kMaxSourceLidar,   \* entries of lidars_
    MaxInfo            \* bound: reports of each lidar

Option == {"DataType", "ScanPattern", "BlindSpot", "DualEmit"}
Rank   == [DataType |-> 1, ScanPattern |-> 2, BlindSpot |-> 3, DualEmit |-> 4]
Index  == 0 .. kMaxSourceLidar - 1
Defined == DOMAIN UserConfig

\* The lidars of the file have an entry each; the code skips, with a message, those
\* it has no entry for (lds_lidar.cpp:151-154).
ASSUME ConfigAssumption ==
    /\ IsFiniteSet(Handle) /\ none \notin Handle
    /\ Defined \subseteq Handle /\ UserConfig \in [Defined -> SUBSET Option]
    /\ MaxInfo \in [Handle -> Nat]
    /\ kMaxSourceLidar \in Nat \ {0} /\ Cardinality(Defined) <= kMaxSourceLidar

VARIABLES
    map_index,      \* handle -> index of lidars_
    index_cache,    \* indices taken
    inserting,      \* who holds index_mutex_ and inserts into map_index_
    set_bits,       \* index -> settings not yet confirmed
    sampling,       \* indices with connect_state kConnectStateSampling
    config_mutex,   \* its owner
    info, lidar, left,  \* LidarInfoChangeCallback: its place, index in hand, settings to come
    reports,        \* reports of each lidar so far
    requests,       \* lidar -> setting -> requests without an answer
    applied,        \* history: settings a lidar has confirmed
    given_up        \* history: lidars with a refused setting or a failed look-up, which
                    \* also befalls each that is not in the file at its first report

table    == <<map_index, index_cache, inserting>>
device   == <<set_bits, sampling, config_mutex>>
callback == <<info, lidar, left, reports>>
history  == <<applied, given_up>>
vars == <<table, device, callback, requests, history>>

\* After InitLivoxLidar, which takes an index for each lidar, in the order of the file.
Init ==
    /\ map_index \in Bijection(Defined, 0 .. Cardinality(Defined) - 1)
    /\ index_cache = 0 .. Cardinality(Defined) - 1 /\ inserting = none
    /\ set_bits = [i \in Index |-> {}] /\ sampling = {} /\ config_mutex = none
    /\ info = [h \in Handle |-> "none"] /\ lidar = [h \in Handle |-> 0]
    /\ left = [h \in Handle |-> {}] /\ reports = [h \in Handle |-> 0]
    /\ requests = [h \in Handle |-> [o \in Option |-> 0]]
    /\ applied = [h \in Handle |-> {}] /\ given_up = {}
-----------------------------------------------------------------------------
(* The table.  GetIndex searches map_index_ without the mutex, and may     *)
(* miss a handle while another one is inserted.                            *)

Finds(h)  == h \in DOMAIN map_index
Misses(h) == h \notin DOMAIN map_index \/ inserting # none

\* livox_config of an entry: the settings that are not -1.  An entry that InitLivoxLidar
\* did not fill in is zero-initialised, and has none of -1.
Config(i) == {o \in Option : \A h \in Defined : map_index[h] = i => o \in UserConfig[h]}

Send(h, o) == requests' = [requests EXCEPT ![h][o] = @ + 1]

At(h, from, to) == info[h] = from /\ info' = [info EXCEPT ![h] = to]

(* LidarInfoChangeCallback; the SDK reports one lidar once at a time.      *)

LidarInfoChange(h) ==
    /\ reports[h] < MaxInfo[h]
    /\ reports' = [reports EXCEPT ![h] = @ + 1]
    /\ \/ /\ Finds(h) /\ At(h, "none", "lock")
          /\ lidar' = [lidar EXCEPT ![h] = map_index[h]]
          /\ UNCHANGED given_up
       \/ /\ Misses(h) /\ At(h, "none", "find")
          /\ given_up' = given_up \cup {h}
          /\ UNCHANGED lidar
    /\ UNCHANGED <<table, device, left, requests, applied>>

\* GetFreeIndex: the first block looks the handle up ...
FindIndex(h) ==
    /\ inserting = none /\ At(h, "find", IF Finds(h) THEN "none" ELSE "free")
    /\ UNCHANGED <<table, device, lidar, left, reports, requests, history>>

\* Variant: the index is not marked as taken.
TakeIndexUnmarked(h) ==
    /\ inserting = none
    /\ \/ /\ index_cache = Index /\ At(h, "free", "none")
          /\ UNCHANGED <<inserting, lidar>>
       \/ /\ At(h, "free", "insert") /\ inserting' = h
          /\ \E i \in Index \ index_cache :
                /\ \A j \in 0 .. i - 1 : j \in index_cache
                /\ lidar' = [lidar EXCEPT ![h] = i]
    /\ UNCHANGED <<map_index, index_cache, device, left, reports, requests, history>>

\* ... and the second one takes the first free index, if there is any.
TakeIndex(h) ==
    /\ inserting = none
    /\ \/ /\ index_cache = Index /\ At(h, "free", "none")
          /\ UNCHANGED <<index_cache, inserting, lidar>>
       \/ /\ At(h, "free", "insert") /\ inserting' = h
          /\ \E i \in Index \ index_cache :
                /\ \A j \in 0 .. i - 1 : j \in index_cache
                /\ index_cache' = index_cache \cup {i} /\ lidar' = [lidar EXCEPT ![h] = i]
    /\ UNCHANGED <<map_index, device, left, reports, requests, history>>

InsertIndex(h) ==
    /\ At(h, "insert", "none")
    /\ map_index' = [g \in DOMAIN map_index \cup {h} |-> IF g = h THEN lidar[h] ELSE map_index[g]]
    /\ inserting' = none
    /\ UNCHANGED <<index_cache, device, lidar, left, reports, requests, history>>

\* Variant: the settings are asked for without config_mutex_.
LockConfigNever(h) ==
    /\ At(h, "lock", "set")
    /\ left' = [left EXCEPT ![h] = Config(lidar[h])]
    /\ UNCHANGED <<table, device, lidar, reports, requests, history>>

LockConfig(h) ==
    /\ config_mutex = none /\ At(h, "lock", "set")
    /\ config_mutex' = h
    /\ left' = [left EXCEPT ![h] = Config(lidar[h])]
    /\ UNCHANGED <<table, set_bits, sampling, lidar, reports, requests, history>>

\* One setting: its bit is set, then it is sent.
SetOption(h) ==
    /\ info[h] = "set"
    /\ \E o \in left[h] :
          /\ \A p \in left[h] : Rank[o] <= Rank[p]
          /\ left' = [left EXCEPT ![h] = @ \ {o}]
          /\ set_bits' = [set_bits EXCEPT ![lidar[h]] = @ \cup {o}]
          /\ Send(h, o)
    /\ UNCHANGED <<table, sampling, config_mutex, info, lidar, reports, history>>

UnlockConfig(h) ==
    /\ left[h] = {} /\ At(h, "set", "none")
    /\ config_mutex' = none
    /\ UNCHANGED <<table, set_bits, sampling, lidar, left, reports, requests, history>>

InfoChangeStep(h) ==
    \/ FindIndex(h) \/ TakeIndex(h) \/ InsertIndex(h) \/ LockConfig(h) \/ SetOption(h) \/ UnlockConfig(h)
-----------------------------------------------------------------------------
(* SetDataTypeCallback, SetPatternModeCallback, SetBlindSpotCallback and   *)
(* SetDualEmitCallback, which differ in their setting only.                *)

Answered(h, o) == requests[h][o] > 0 /\ requests' = [requests EXCEPT ![h][o] = @ - 1]

\* Variant: the lidar samples when the last of its settings is confirmed last.
SucceedsInOrder(h, o) ==
    /\ Finds(h) /\ config_mutex = none /\ Answered(h, o)
    /\ LET i == map_index[h] IN
         /\ set_bits' = [set_bits EXCEPT ![i] = @ \ {o}]
         /\ sampling' = IF set_bits[i] = {o} /\ \A p \in Config(i) : Rank[p] <= Rank[o]
                        THEN sampling \cup {i} ELSE sampling
    /\ applied' = [applied EXCEPT ![h] = @ \cup {o}]
    /\ UNCHANGED <<table, config_mutex, callback, given_up>>

Succeeds(h, o) ==
    /\ Finds(h) /\ config_mutex = none /\ Answered(h, o)
    /\ LET i == map_index[h] IN
         /\ set_bits' = [set_bits EXCEPT ![i] = @ \ {o}]
         /\ sampling' = IF set_bits[i] \ {o} = {} THEN sampling \cup {i} ELSE sampling
    /\ applied' = [applied EXCEPT ![h] = @ \cup {o}]
    /\ UNCHANGED <<table, config_mutex, callback, given_up>>

\* Variant: no second try.
TimesOutForgets(h, o) ==
    /\ Finds(h) /\ Answered(h, o)
    /\ UNCHANGED <<table, device, callback, history>>

\* A time-out sends the request again.
TimesOut(h, o) ==
    /\ Finds(h) /\ requests[h][o] > 0
    /\ UNCHANGED vars

\* Another failure is only reported, and the bit stays.  So it does after any answer
\* whose callback does not find the lidar in the table.
Fails(h, o) ==
    /\ Answered(h, o)
    /\ given_up' = given_up \cup {h}
    /\ UNCHANGED <<table, device, callback, applied>>

Answer(h) ==
    \E o \in Option : Succeeds(h, o) \/ TimesOut(h, o) \/ Fails(h, o)

Next == \E h \in Handle : LidarInfoChange(h) \/ InfoChangeStep(h) \/ Answer(h)

\* Callbacks run; a lidar that is asked again and again confirms or refuses at last.
Fairness ==
    \A h \in Handle :
        /\ WF_vars(InfoChangeStep(h))
        /\ \A o \in Option : WF_vars(Succeeds(h, o))

Spec == Init /\ [][Next]_vars /\ Fairness
-----------------------------------------------------------------------------
(* Properties                                                              *)

\* Points are published of a lidar only after it has confirmed every setting asked of
\* it: no answer comes between the setting of two bits (livox_lidar_callback.cpp:60),
\* also when the lidar is reported again.
SamplingMeansConfigured ==
    \A h \in DOMAIN map_index :
        map_index[h] \in sampling => Config(map_index[h]) \subseteq applied[h]

\* A bit that keeps a lidar from sampling stands for a request that will be answered,
\* unless a setting was refused: time-outs, second reports and answers to earlier
\* requests leave no bit behind (livox_lidar_callback.cpp:144).
NoForgottenBit ==
    \A h \in DOMAIN map_index \ given_up :
        \A o \in set_bits[map_index[h]] : requests[h][o] > 0

\* GetFreeIndex: no two lidars share an entry and no entry is lost, although a handle is
\* looked up and entered under two different locks (cache_index.cpp:42-62).
EntriesDistinct ==
    /\ \A g, h \in DOMAIN map_index : map_index[g] = map_index[h] => g = h
    /\ index_cache = {map_index[h] : h \in DOMAIN map_index}
                       \cup {lidar[h] : h \in {inserting} \ {none}}

\* A lidar of the configuration file with a setting to make is sampling after it was
\* reported, unless a setting was refused or a callback lost.
ConfigCompletes ==
    \A h \in {g \in Defined : UserConfig[g] # {}} :
        reports[h] > 0 ~> map_index[h] \in sampling \/ h \in given_up
=============================================================================
