-------------------------- MODULE LidarConfig_proofs --------------------------
(***************************************************************************)
(* Proofs about LidarConfig, for every set of lidars, configuration file   *)
(* and size of the table.                                                  *)
(***************************************************************************)
EXTENDS LidarConfig, FiniteSetTheorems, TLAPS

Place == {"none", "find", "free", "insert", "lock", "set"}

TypeInv ==
    /\ DOMAIN map_index \subseteq Handle /\ Defined \subseteq DOMAIN map_index
    /\ map_index \in [DOMAIN map_index -> Index]
    /\ index_cache \subseteq Index /\ inserting \in Handle \cup {none}
    /\ set_bits \in [Index -> SUBSET Option] /\ sampling \subseteq Index
    /\ config_mutex \in Handle \cup {none}
    /\ info \in [Handle -> Place] /\ lidar \in [Handle -> Index]
    /\ left \in [Handle -> SUBSET Option]
    /\ requests \in [Handle -> [Option -> Nat]]
    /\ applied \in [Handle -> SUBSET Option] /\ given_up \subseteq Handle

\* The table: an index is used once, the one being entered included, and it is entered by
\* a callback that did not find its lidar.
FreshEntry ==
    /\ \A h \in Handle : info[h] = "insert" <=> inserting = h
    /\ \A h \in Handle : info[h] \in {"free", "insert"} => h \notin DOMAIN map_index
    /\ inserting # none => \A h \in DOMAIN map_index : map_index[h] # lidar[inserting]

TableInv == EntriesDistinct /\ FreshEntry

\* The lock: the callback that is setting bits has the mutex, and the index of its lidar.
LockInv ==
    /\ \A h \in Handle : info[h] = "set" <=> config_mutex = h
    /\ \A h \in Handle : info[h] \in {"lock", "set"} =>
          h \in DOMAIN map_index /\ lidar[h] = map_index[h]

\* A lidar that was asked for a setting was asked for each: what is not yet confirmed has
\* its bit set, or is to be asked for before the mutex is released.
Asked(h) ==
    \A o \in Config(map_index[h]) :
        o \in applied[h] \/ o \in set_bits[map_index[h]] \/ (info[h] = "set" /\ o \in left[h])

AllAsked ==
    \A h \in DOMAIN map_index :
        info[h] = "set" \/ (\E o \in Option : requests[h][o] > 0) => Asked(h)

\* Only an index in the table has bits set or is sampling, and only a lidar in the table
\* was asked for anything.
OnlyEntries ==
    /\ \A h \in Handle \ DOMAIN map_index : \A o \in Option : requests[h][o] = 0
    /\ sampling \subseteq {map_index[h] : h \in DOMAIN map_index}
    /\ \A i \in Index : set_bits[i] # {} => \E h \in DOMAIN map_index : map_index[h] = i

SettingInv == AllAsked /\ OnlyEntries /\ SamplingMeansConfigured /\ NoForgottenBit

ConfigInv == TypeInv /\ TableInv /\ LockInv /\ SettingInv
-----------------------------------------------------------------------------
\* The steps keep the types of the variables.
LEMMA TypeStep ==
    ASSUME TypeInv, TableInv, LockInv, [Next]_vars
    PROVE  TypeInv'
<1>1. ASSUME NEW h \in Handle, LidarInfoChange(h) PROVE TypeInv'
  <2>1. UNCHANGED <<table, device, left, requests, applied>>
    BY <1>1 DEF LidarInfoChange
  <2>2. info' \in [Handle -> Place]
    BY <1>1 DEF LidarInfoChange, At, TypeInv, Place
  <2>3. lidar' \in [Handle -> Index]
    BY <1>1 DEF LidarInfoChange, Finds, TypeInv
  <2>4. given_up' \subseteq Handle
    BY <1>1 DEF LidarInfoChange, TypeInv
  <2> QED
    BY <2>1, <2>2, <2>3, <2>4 DEF TypeInv, table, device
<1>2. ASSUME NEW h \in Handle, FindIndex(h) PROVE TypeInv'
  BY <1>2, ConfigAssumption DEF FindIndex, At, Finds, TypeInv, LockInv, Place, Config, table,
    device, callback, history
<1>3. ASSUME NEW h \in Handle, TakeIndex(h) PROVE TypeInv'
  <2>1. CASE lidar' = lidar /\ index_cache' = index_cache /\ inserting' = inserting
    BY <1>3, <2>1 DEF TakeIndex, At, TypeInv, Place, table, device, callback, history
  <2>2. CASE \E i \in Index \ index_cache :
                /\ index_cache' = index_cache \cup {i} /\ lidar' = [lidar EXCEPT ![h] = i]
                /\ inserting' = h
    BY <1>3, <2>2 DEF TakeIndex, At, TypeInv, Place, table, device, callback, history
  <2> QED
    BY <1>3, <2>1, <2>2 DEF TakeIndex
<1>4. ASSUME NEW h \in Handle, InsertIndex(h) PROVE TypeInv'
  BY <1>4, ConfigAssumption DEF InsertIndex, At, TypeInv, LockInv, Place, Config, table,
    device, callback, history
<1>5. ASSUME NEW h \in Handle, LockConfig(h) PROVE TypeInv'
  BY <1>5, ConfigAssumption DEF LockConfig, At, TypeInv, LockInv, Place, Config, table,
    device, callback, history
<1>6. ASSUME NEW h \in Handle, SetOption(h) PROVE TypeInv'
  BY <1>6, ConfigAssumption DEF SetOption, Send, TypeInv, LockInv, Place, Config, table,
    device, callback, history
<1>7. ASSUME NEW h \in Handle, UnlockConfig(h) PROVE TypeInv'
  BY <1>7, ConfigAssumption DEF UnlockConfig, At, TypeInv, LockInv, Place, Config, table,
    device, callback, history
<1>8. ASSUME NEW h \in Handle, NEW o \in Option, Succeeds(h, o) PROVE TypeInv'
  BY <1>8, ConfigAssumption DEF Succeeds, Finds, Answered, TypeInv, LockInv, Place, Config,
    table, device, callback, history
<1>9. ASSUME NEW h \in Handle, NEW o \in Option, TimesOut(h, o) PROVE TypeInv'
  BY <1>9, ConfigAssumption DEF TimesOut, vars, TypeInv, LockInv, Place, Config, table,
    device, callback, history
<1>10. ASSUME NEW h \in Handle, NEW o \in Option, Fails(h, o) PROVE TypeInv'
  BY <1>10, ConfigAssumption DEF Fails, Answered, TypeInv, LockInv, Place, Config, table,
    device, callback, history
<1>11. CASE UNCHANGED vars
  BY <1>11 DEF vars, TypeInv, LockInv, Place, Config, table, device, callback, history
<1> QED
  BY <1>1, <1>2, <1>3, <1>4, <1>5, <1>6, <1>7, <1>8, <1>9, <1>10, <1>11 DEF Next,
    InfoChangeStep, Answer

\* The steps keep the table in order (cache_index.cpp:35-90).
LEMMA TableStep ==
    ASSUME TypeInv, TableInv, LockInv, [Next]_vars
    PROVE  TableInv'
<1>1. ASSUME NEW h \in Handle, LidarInfoChange(h) PROVE TableInv'
  BY <1>1, ConfigAssumption DEF LidarInfoChange, At, Finds, Misses, TypeInv, TableInv,
    EntriesDistinct, FreshEntry, LockInv, Place, table, device, callback, history
<1>2. ASSUME NEW h \in Handle, FindIndex(h) PROVE TableInv'
  BY <1>2, ConfigAssumption DEF FindIndex, At, Finds, TypeInv, TableInv, EntriesDistinct,
    FreshEntry, LockInv, Place, table, device, callback, history
<1>3. ASSUME NEW h \in Handle, TakeIndex(h) PROVE TableInv'
  <2>1. CASE index_cache = Index /\ At(h, "free", "none") /\ UNCHANGED <<index_cache, inserting, lidar>>
    BY <1>3, <2>1, ConfigAssumption
       DEF TakeIndex, At, TypeInv, TableInv, EntriesDistinct, FreshEntry, Place, table
  <2>2. CASE index_cache # Index
    <3>1. PICK i \in Index \ index_cache :
             index_cache' = index_cache \cup {i} /\ lidar' = [lidar EXCEPT ![h] = i]
      BY <1>3, <2>2 DEF TakeIndex
    <3>2. /\ inserting = none /\ inserting' = h /\ h # none /\ map_index' = map_index
          /\ info[h] = "free" /\ info' = [info EXCEPT ![h] = "insert"]
      BY <1>3, <2>2, ConfigAssumption DEF TakeIndex, At, table
    <3>3. lidar'[h] = i /\ info \in [Handle -> Place] /\ lidar \in [Handle -> Index]
      BY <3>1 DEF TypeInv
    <3>a. {lidar[g] : g \in {inserting} \ {none}} = {}
      BY <3>2
    <3>b. {lidar'[g] : g \in {inserting'} \ {none}} = {i}
      BY <3>2, <3>3
    <3>4. EntriesDistinct'
      BY <3>1, <3>2, <3>a, <3>b DEF TableInv, EntriesDistinct
    <3>c. \A g \in DOMAIN map_index : map_index[g] # i
      BY <3>1 DEF TableInv, EntriesDistinct
    <3>5. FreshEntry'
      BY <3>2, <3>3, <3>c, ConfigAssumption DEF TableInv, FreshEntry, Place
    <3> QED
      BY <3>4, <3>5 DEF TableInv
  <2> QED
    BY <1>3, <2>1, <2>2 DEF TakeIndex
<1>4. ASSUME NEW h \in Handle, InsertIndex(h) PROVE TableInv'
  <2>1. /\ inserting = h /\ inserting' = none /\ h # none /\ h \notin DOMAIN map_index
        /\ info' = [info EXCEPT ![h] = "none"] /\ lidar' = lidar /\ index_cache' = index_cache
    BY <1>4, ConfigAssumption DEF InsertIndex, At, TableInv, FreshEntry
  <2>2. /\ DOMAIN map_index' = DOMAIN map_index \cup {h} /\ map_index'[h] = lidar[h]
        /\ \A g \in DOMAIN map_index : map_index'[g] = map_index[g]
    BY <1>4, <2>1 DEF InsertIndex
  <2>3. EntriesDistinct'
    BY <2>1, <2>2 DEF TableInv, EntriesDistinct, FreshEntry
  <2>4. FreshEntry'
    BY <2>1, <2>2, ConfigAssumption DEF TypeInv, TableInv, FreshEntry, Place
  <2> QED
    BY <2>3, <2>4 DEF TableInv
<1>5. ASSUME NEW h \in Handle, LockConfig(h) PROVE TableInv'
  BY <1>5, ConfigAssumption DEF LockConfig, At, TypeInv, TableInv, EntriesDistinct,
    FreshEntry, LockInv, Place, table, device, callback, history
<1>6. ASSUME NEW h \in Handle, SetOption(h) PROVE TableInv'
  BY <1>6, ConfigAssumption DEF SetOption, Send, TypeInv, TableInv, EntriesDistinct,
    FreshEntry, LockInv, Place, table, device, callback, history
<1>7. ASSUME NEW h \in Handle, UnlockConfig(h) PROVE TableInv'
  BY <1>7, ConfigAssumption DEF UnlockConfig, At, TypeInv, TableInv, EntriesDistinct,
    FreshEntry, LockInv, Place, table, device, callback, history
<1>8. ASSUME NEW h \in Handle, NEW o \in Option, Succeeds(h, o) PROVE TableInv'
  BY <1>8, ConfigAssumption DEF Succeeds, Finds, Answered, TypeInv, TableInv, EntriesDistinct,
    FreshEntry, LockInv, Place, table, device, callback, history
<1>9. ASSUME NEW h \in Handle, NEW o \in Option, TimesOut(h, o) PROVE TableInv'
  BY <1>9, ConfigAssumption DEF TimesOut, vars, TypeInv, TableInv, EntriesDistinct,
    FreshEntry, LockInv, Place, table, device, callback, history
<1>10. ASSUME NEW h \in Handle, NEW o \in Option, Fails(h, o) PROVE TableInv'
  BY <1>10, ConfigAssumption DEF Fails, Answered, TypeInv, TableInv, EntriesDistinct,
    FreshEntry, LockInv, Place, table, device, callback, history
<1>11. CASE UNCHANGED vars
  BY <1>11 DEF vars, TypeInv, TableInv, EntriesDistinct, FreshEntry, LockInv, Place, table,
    device, callback, history
<1> QED
  BY <1>1, <1>2, <1>3, <1>4, <1>5, <1>6, <1>7, <1>8, <1>9, <1>10, <1>11 DEF Next,
    InfoChangeStep, Answer

\* The steps keep the discipline of config_mutex_ (livox_lidar_callback.cpp:59).
LEMMA LockStep ==
    ASSUME TypeInv, TableInv, LockInv, [Next]_vars
    PROVE  LockInv'
<1>1. ASSUME NEW h \in Handle, LidarInfoChange(h) PROVE LockInv'
  BY <1>1, ConfigAssumption DEF LidarInfoChange, At, Finds, Misses, TypeInv, TableInv,
    FreshEntry, LockInv, Place, table, device, callback, history
<1>2. ASSUME NEW h \in Handle, FindIndex(h) PROVE LockInv'
  BY <1>2, ConfigAssumption DEF FindIndex, At, Finds, TypeInv, TableInv, FreshEntry, LockInv,
    Place, table, device, callback, history
<1>3. ASSUME NEW h \in Handle, TakeIndex(h) PROVE LockInv'
  BY <1>3, ConfigAssumption DEF TakeIndex, At, TypeInv, TableInv, FreshEntry, LockInv, Place,
    table, device, callback, history
<1>4. ASSUME NEW h \in Handle, InsertIndex(h) PROVE LockInv'
  BY <1>4, ConfigAssumption DEF InsertIndex, At, TypeInv, TableInv, FreshEntry, LockInv,
    Place, table, device, callback, history
<1>5. ASSUME NEW h \in Handle, LockConfig(h) PROVE LockInv'
  BY <1>5, ConfigAssumption DEF LockConfig, At, TypeInv, TableInv, FreshEntry, LockInv, Place,
    table, device, callback, history
<1>6. ASSUME NEW h \in Handle, SetOption(h) PROVE LockInv'
  BY <1>6, ConfigAssumption DEF SetOption, Send, TypeInv, TableInv, FreshEntry, LockInv,
    Place, table, device, callback, history
<1>7. ASSUME NEW h \in Handle, UnlockConfig(h) PROVE LockInv'
  BY <1>7, ConfigAssumption DEF UnlockConfig, At, TypeInv, TableInv, FreshEntry, LockInv,
    Place, table, device, callback, history
<1>8. ASSUME NEW h \in Handle, NEW o \in Option, Succeeds(h, o) PROVE LockInv'
  BY <1>8, ConfigAssumption DEF Succeeds, Finds, Answered, TypeInv, TableInv, FreshEntry,
    LockInv, Place, table, device, callback, history
<1>9. ASSUME NEW h \in Handle, NEW o \in Option, TimesOut(h, o) PROVE LockInv'
  BY <1>9, ConfigAssumption DEF TimesOut, vars, TypeInv, TableInv, FreshEntry, LockInv, Place,
    table, device, callback, history
<1>10. ASSUME NEW h \in Handle, NEW o \in Option, Fails(h, o) PROVE LockInv'
  BY <1>10, ConfigAssumption DEF Fails, Answered, TypeInv, TableInv, FreshEntry, LockInv,
    Place, table, device, callback, history
<1>11. CASE UNCHANGED vars
  BY <1>11 DEF vars, TypeInv, TableInv, FreshEntry, LockInv, Place, table, device, callback,
    history
<1> QED
  BY <1>1, <1>2, <1>3, <1>4, <1>5, <1>6, <1>7, <1>8, <1>9, <1>10, <1>11 DEF Next,
    InfoChangeStep, Answer

\* Entering a lidar changes nothing for the others.
LEMMA InsertFacts ==
    ASSUME ConfigInv, NEW h \in Handle, InsertIndex(h)
    PROVE  /\ h \notin DOMAIN map_index /\ h \notin Defined /\ lidar[h] \in Index
           /\ DOMAIN map_index' = DOMAIN map_index \cup {h} /\ map_index'[h] = lidar[h]
           /\ \A g \in DOMAIN map_index : map_index'[g] = map_index[g] /\ map_index[g] # lidar[h]
           /\ info[h] = "insert" /\ info' = [info EXCEPT ![h] = "none"]
           /\ UNCHANGED <<set_bits, sampling, requests, applied, left>>
  BY ConfigAssumption
     DEF InsertIndex, At, ConfigInv, TypeInv, TableInv, FreshEntry, device, history

\* What is not in the table is untouched (livox_lidar_callback.cpp:43-56).
LEMMA OnlyEntriesStep ==
    ASSUME ConfigInv, [Next]_vars
    PROVE  OnlyEntries'
<1>1. ASSUME NEW h \in Handle, LidarInfoChange(h) PROVE OnlyEntries'
  <2>1. UNCHANGED <<map_index, requests, set_bits, sampling>>
    BY <1>1 DEF LidarInfoChange, table, device
  <2> QED
    BY <2>1 DEF ConfigInv, SettingInv, OnlyEntries
<1>2. ASSUME NEW h \in Handle, FindIndex(h) PROVE OnlyEntries'
  BY <1>2, ConfigAssumption DEF FindIndex, At, Finds, ConfigInv, SettingInv, TypeInv,
    TableInv, EntriesDistinct, FreshEntry, LockInv, OnlyEntries, Place, table, device,
    callback, history
<1>3. ASSUME NEW h \in Handle, TakeIndex(h) PROVE OnlyEntries'
  BY <1>3, ConfigAssumption DEF TakeIndex, At, ConfigInv, SettingInv, TypeInv, TableInv,
    EntriesDistinct, FreshEntry, LockInv, OnlyEntries, Place, table, device, callback,
    history
<1>4. ASSUME NEW h \in Handle, InsertIndex(h) PROVE OnlyEntries'
  <2>1. \A g \in Handle \ DOMAIN map_index' : g \in Handle \ DOMAIN map_index
    BY <1>4, InsertFacts
  <2>2. {map_index[g] : g \in DOMAIN map_index} \subseteq {map_index'[g] : g \in DOMAIN map_index'}
    BY <1>4, InsertFacts
  <2>3. \A i \in Index : (\E g \in DOMAIN map_index : map_index[g] = i)
                            => \E g \in DOMAIN map_index' : map_index'[g] = i
    BY <1>4, InsertFacts
  <2>4. UNCHANGED <<requests, sampling, set_bits>>
    BY <1>4, InsertFacts
  <2>5. OnlyEntries
    BY DEF ConfigInv, SettingInv
  <2>6. sampling' \subseteq {map_index'[g] : g \in DOMAIN map_index'}
    BY <2>2, <2>4, <2>5 DEF OnlyEntries
  <2> QED
    BY <2>1, <2>3, <2>4, <2>5, <2>6 DEF OnlyEntries
<1>5. ASSUME NEW h \in Handle, LockConfig(h) PROVE OnlyEntries'
  BY <1>5, ConfigAssumption DEF LockConfig, At, ConfigInv, SettingInv, TypeInv, TableInv,
    EntriesDistinct, FreshEntry, LockInv, OnlyEntries, Place, table, device, callback,
    history
<1>6. ASSUME NEW h \in Handle, SetOption(h) PROVE OnlyEntries'
  BY <1>6, ConfigAssumption DEF SetOption, Send, ConfigInv, SettingInv, TypeInv, TableInv,
    EntriesDistinct, FreshEntry, LockInv, OnlyEntries, Place, table, device, callback,
    history
<1>7. ASSUME NEW h \in Handle, UnlockConfig(h) PROVE OnlyEntries'
  BY <1>7, ConfigAssumption DEF UnlockConfig, At, ConfigInv, SettingInv, TypeInv, TableInv,
    EntriesDistinct, FreshEntry, LockInv, OnlyEntries, Place, table, device, callback,
    history
<1>8. ASSUME NEW h \in Handle, NEW o \in Option, Succeeds(h, o) PROVE OnlyEntries'
  <2>1. /\ h \in DOMAIN map_index /\ map_index[h] \in Index /\ map_index' = map_index
        /\ set_bits' = [set_bits EXCEPT ![map_index[h]] = @ \ {o}]
        /\ sampling' \subseteq sampling \cup {map_index[h]}
        /\ requests[h][o] > 0 /\ requests' = [requests EXCEPT ![h][o] = @ - 1]
    BY <1>8 DEF Succeeds, Finds, Answered, ConfigInv, TypeInv, table
  <2>2. OnlyEntries /\ set_bits \in [Index -> SUBSET Option] /\ requests \in [Handle -> [Option -> Nat]]
    BY DEF ConfigInv, SettingInv, TypeInv
  <2>3. \A g \in Handle \ DOMAIN map_index : requests'[g] = requests[g]
    BY <2>1, <2>2
  <2>4. \A i \in Index : set_bits'[i] \subseteq set_bits[i]
    BY <2>1, <2>2
  <2> QED
    BY <2>1, <2>2, <2>3, <2>4 DEF OnlyEntries
<1>9. ASSUME NEW h \in Handle, NEW o \in Option, TimesOut(h, o) PROVE OnlyEntries'
  BY <1>9, ConfigAssumption DEF TimesOut, vars, ConfigInv, SettingInv, TypeInv, TableInv,
    EntriesDistinct, FreshEntry, LockInv, OnlyEntries, Place, table, device, callback,
    history
<1>10. ASSUME NEW h \in Handle, NEW o \in Option, Fails(h, o) PROVE OnlyEntries'
  BY <1>10, ConfigAssumption DEF Fails, Answered, ConfigInv, SettingInv, TypeInv, TableInv,
    EntriesDistinct, FreshEntry, LockInv, OnlyEntries, Place, table, device, callback,
    history
<1>11. CASE UNCHANGED vars
  BY <1>11 DEF vars, ConfigInv, SettingInv, TypeInv, TableInv, EntriesDistinct, FreshEntry,
    LockInv, OnlyEntries, Place, table, device, callback, history
<1> QED
  BY <1>1, <1>2, <1>3, <1>4, <1>5, <1>6, <1>7, <1>8, <1>9, <1>10, <1>11 DEF Next,
    InfoChangeStep, Answer

\* The settings are asked for as one (livox_lidar_callback.cpp:59-88).
LEMMA AllAskedStep ==
    ASSUME ConfigInv, [Next]_vars
    PROVE  AllAsked'
<1>1. ASSUME NEW h \in Handle, LidarInfoChange(h) PROVE AllAsked'
  BY <1>1, ConfigAssumption DEF LidarInfoChange, At, Finds, Misses, ConfigInv, SettingInv,
    TypeInv, TableInv, EntriesDistinct, FreshEntry, LockInv, AllAsked, Asked, Config,
    OnlyEntries, Place, table, device, callback, history
<1>2. ASSUME NEW h \in Handle, FindIndex(h) PROVE AllAsked'
  BY <1>2, ConfigAssumption DEF FindIndex, At, Finds, ConfigInv, SettingInv, TypeInv,
    TableInv, EntriesDistinct, FreshEntry, LockInv, AllAsked, Asked, Config, OnlyEntries,
    Place, table, device, callback, history
<1>3. ASSUME NEW h \in Handle, TakeIndex(h) PROVE AllAsked'
  <2>1. /\ h \notin DOMAIN map_index /\ UNCHANGED <<map_index, set_bits, left, applied, requests>>
        /\ \A g \in Handle \ {h} : info'[g] = info[g]
    BY <1>3 DEF TakeIndex, At, ConfigInv, TypeInv, TableInv, FreshEntry, device, history
  <2>2. \A g \in DOMAIN map_index : (Config(map_index[g]))' = Config(map_index[g])
    BY <2>1 DEF Config
  <2> QED
    BY <2>1, <2>2 DEF ConfigInv, TypeInv, SettingInv, AllAsked, Asked
<1>4. ASSUME NEW h \in Handle, InsertIndex(h) PROVE AllAsked'
  <2>1. \A g \in DOMAIN map_index : (Config(map_index[g]))' = Config(map_index[g])
    BY <1>4, InsertFacts DEF Config, ConfigInv, TypeInv
  <2>2. ASSUME NEW g \in DOMAIN map_index,
               (info[g] = "set" \/ \E o \in Option : requests[g][o] > 0)'
        PROVE  Asked(g)'
    <3>1. g # h /\ Asked(g)
      BY <1>4, <2>2, InsertFacts DEF ConfigInv, SettingInv, AllAsked, TypeInv
    <3> QED
      BY <1>4, <2>1, <3>1, InsertFacts DEF Asked, ConfigInv, TypeInv
  <2>3. ~(info[h] = "set" \/ \E o \in Option : requests[h][o] > 0)'
    <3>1. requests' = requests /\ info' = [info EXCEPT ![h] = "none"] /\ h \notin DOMAIN map_index
      BY <1>4, InsertFacts
    <3> QED
      BY <3>1 DEF ConfigInv, SettingInv, OnlyEntries, TypeInv
  <2>4. DOMAIN map_index' = DOMAIN map_index \cup {h}
    BY <1>4, InsertFacts
  <2> QED
    BY <2>2, <2>3, <2>4 DEF AllAsked
<1>5. ASSUME NEW h \in Handle, LockConfig(h) PROVE AllAsked'
  <2>1. /\ h \in DOMAIN map_index /\ lidar[h] = map_index[h]
        /\ info' = [info EXCEPT ![h] = "set"] /\ left' = [left EXCEPT ![h] = Config(lidar[h])]
        /\ UNCHANGED <<map_index, set_bits, applied, requests>>
    BY <1>5 DEF LockConfig, At, ConfigInv, LockInv, table, history
  <2>2. \A g \in DOMAIN map_index : (Config(map_index[g]))' = Config(map_index[g])
    BY <2>1 DEF Config
  <2>3. AllAsked /\ DOMAIN map_index \subseteq Handle /\ info \in [Handle -> Place] /\ left \in [Handle -> SUBSET Option]
    BY DEF ConfigInv, SettingInv, TypeInv
  <2>4. Asked(h)'
    BY <2>1, <2>2, <2>3 DEF Asked
  <2>5. \A g \in DOMAIN map_index \ {h} : Asked(g) => Asked(g)'
    BY <2>1, <2>2, <2>3 DEF Asked
  <2> QED
    BY <2>1, <2>3, <2>4, <2>5 DEF AllAsked
<1>6. ASSUME NEW h \in Handle, SetOption(h) PROVE AllAsked'
  BY <1>6, ConfigAssumption DEF SetOption, Send, ConfigInv, SettingInv, TypeInv, TableInv,
    EntriesDistinct, FreshEntry, LockInv, AllAsked, Asked, Config, OnlyEntries, Place,
    table, device, callback, history
<1>7. ASSUME NEW h \in Handle, UnlockConfig(h) PROVE AllAsked'
  BY <1>7, ConfigAssumption DEF UnlockConfig, At, ConfigInv, SettingInv, TypeInv, TableInv,
    EntriesDistinct, FreshEntry, LockInv, AllAsked, Asked, Config, OnlyEntries, Place,
    table, device, callback, history
<1>8. ASSUME NEW h \in Handle, NEW o \in Option, Succeeds(h, o) PROVE AllAsked'
  BY <1>8, ConfigAssumption DEF Succeeds, Finds, Answered, ConfigInv, SettingInv, TypeInv,
    TableInv, EntriesDistinct, FreshEntry, LockInv, AllAsked, Asked, Config, OnlyEntries,
    Place, table, device, callback, history
<1>9. ASSUME NEW h \in Handle, NEW o \in Option, TimesOut(h, o) PROVE AllAsked'
  BY <1>9, ConfigAssumption DEF TimesOut, vars, ConfigInv, SettingInv, TypeInv, TableInv,
    EntriesDistinct, FreshEntry, LockInv, AllAsked, Asked, Config, OnlyEntries, Place,
    table, device, callback, history
<1>10. ASSUME NEW h \in Handle, NEW o \in Option, Fails(h, o) PROVE AllAsked'
  BY <1>10, ConfigAssumption DEF Fails, Answered, ConfigInv, SettingInv, TypeInv, TableInv,
    EntriesDistinct, FreshEntry, LockInv, AllAsked, Asked, Config, OnlyEntries, Place,
    table, device, callback, history
<1>11. CASE UNCHANGED vars
  BY <1>11 DEF vars, ConfigInv, SettingInv, TypeInv, TableInv, EntriesDistinct, FreshEntry,
    LockInv, AllAsked, Asked, Config, OnlyEntries, Place, table, device, callback, history
<1> QED
  BY <1>1, <1>2, <1>3, <1>4, <1>5, <1>6, <1>7, <1>8, <1>9, <1>10, <1>11 DEF Next,
    InfoChangeStep, Answer

\* A lidar samples when its last bit is cleared (livox_lidar_callback.cpp:136-140).
LEMMA SamplingStep ==
    ASSUME ConfigInv, [Next]_vars
    PROVE  SamplingMeansConfigured'
<1>1. ASSUME NEW h \in Handle, LidarInfoChange(h) PROVE SamplingMeansConfigured'
  BY <1>1, ConfigAssumption DEF LidarInfoChange, At, Finds, Misses, ConfigInv, SettingInv,
    TypeInv, TableInv, EntriesDistinct, FreshEntry, LockInv, AllAsked, Asked,
    SamplingMeansConfigured, Config, OnlyEntries, Place, table, device, callback, history
<1>2. ASSUME NEW h \in Handle, FindIndex(h) PROVE SamplingMeansConfigured'
  BY <1>2, ConfigAssumption DEF FindIndex, At, Finds, ConfigInv, SettingInv, TypeInv,
    TableInv, EntriesDistinct, FreshEntry, LockInv, AllAsked, Asked,
    SamplingMeansConfigured, Config, OnlyEntries, Place, table, device, callback, history
<1>3. ASSUME NEW h \in Handle, TakeIndex(h) PROVE SamplingMeansConfigured'
  BY <1>3, ConfigAssumption DEF TakeIndex, At, ConfigInv, SettingInv, TypeInv, TableInv,
    EntriesDistinct, FreshEntry, LockInv, AllAsked, Asked, SamplingMeansConfigured, Config,
    OnlyEntries, Place, table, device, callback, history
<1>4. ASSUME NEW h \in Handle, InsertIndex(h) PROVE SamplingMeansConfigured'
  <2>1. \A g \in DOMAIN map_index : (Config(map_index[g]))' = Config(map_index[g])
    BY <1>4, InsertFacts DEF Config, ConfigInv, TypeInv
  <2>2. lidar[h] \notin sampling
    BY <1>4, InsertFacts DEF ConfigInv, SettingInv, OnlyEntries
  <2>3. /\ DOMAIN map_index' = DOMAIN map_index \cup {h} /\ map_index'[h] = lidar[h]
        /\ \A g \in DOMAIN map_index : map_index'[g] = map_index[g]
        /\ sampling' = sampling /\ applied' = applied
    BY <1>4, InsertFacts
  <2>4. SamplingMeansConfigured
    BY DEF ConfigInv, SettingInv
  <2>5. ASSUME NEW g \in DOMAIN map_index', map_index'[g] \in sampling'
        PROVE  (Config(map_index[g]))' \subseteq applied'[g]
    <3>1. g \in DOMAIN map_index /\ map_index[g] \in sampling
      BY <2>2, <2>3, <2>5
    <3> QED
      BY <2>1, <2>3, <2>4, <3>1 DEF SamplingMeansConfigured
  <2> QED
    BY <2>5 DEF SamplingMeansConfigured
<1>5. ASSUME NEW h \in Handle, LockConfig(h) PROVE SamplingMeansConfigured'
  BY <1>5, ConfigAssumption DEF LockConfig, At, ConfigInv, SettingInv, TypeInv, TableInv,
    EntriesDistinct, FreshEntry, LockInv, AllAsked, Asked, SamplingMeansConfigured, Config,
    OnlyEntries, Place, table, device, callback, history
<1>6. ASSUME NEW h \in Handle, SetOption(h) PROVE SamplingMeansConfigured'
  BY <1>6, ConfigAssumption DEF SetOption, Send, ConfigInv, SettingInv, TypeInv, TableInv,
    EntriesDistinct, FreshEntry, LockInv, AllAsked, Asked, SamplingMeansConfigured, Config,
    OnlyEntries, Place, table, device, callback, history
<1>7. ASSUME NEW h \in Handle, UnlockConfig(h) PROVE SamplingMeansConfigured'
  BY <1>7, ConfigAssumption DEF UnlockConfig, At, ConfigInv, SettingInv, TypeInv, TableInv,
    EntriesDistinct, FreshEntry, LockInv, AllAsked, Asked, SamplingMeansConfigured, Config,
    OnlyEntries, Place, table, device, callback, history
<1>8. ASSUME NEW h \in Handle, NEW o \in Option, Succeeds(h, o) PROVE SamplingMeansConfigured'
  <2> DEFINE i == map_index[h]
  <2>1. /\ h \in DOMAIN map_index /\ config_mutex = none /\ map_index' = map_index /\ requests[h][o] > 0
        /\ applied' = [applied EXCEPT ![h] = @ \cup {o}]
        /\ sampling' = IF set_bits[i] \ {o} = {} THEN sampling \cup {i} ELSE sampling
    BY <1>8 DEF Succeeds, Finds, Answered, table
  <2>2. \A g \in DOMAIN map_index : (Config(map_index[g]))' = Config(map_index[g])
    BY <2>1 DEF Config
  <2>3. /\ DOMAIN map_index \subseteq Handle /\ applied \in [Handle -> SUBSET Option]
        /\ \A f, g \in DOMAIN map_index : map_index[f] = map_index[g] => f = g
        /\ SamplingMeansConfigured
    BY DEF ConfigInv, SettingInv, TypeInv, TableInv, EntriesDistinct
  <2>4. info[h] # "set" /\ Asked(h)
    BY <2>1, ConfigAssumption DEF ConfigInv, TypeInv, LockInv, SettingInv, AllAsked
  <2>5. \A g \in DOMAIN map_index : applied[g] \subseteq applied'[g] /\ o \in applied'[h]
    BY <2>1, <2>3
  <2>6. set_bits[i] \ {o} = {} => Config(i) \subseteq applied'[h]
    BY <2>1, <2>4, <2>5 DEF Asked
  <2>7. ASSUME NEW g \in DOMAIN map_index, map_index[g] \in sampling'
        PROVE  Config(map_index[g]) \subseteq applied'[g]
    <3>1. map_index[g] \in sampling \/ (g = h /\ set_bits[i] \ {o} = {})
      BY <2>1, <2>3, <2>7
    <3> QED
      BY <2>3, <2>5, <2>6, <3>1 DEF SamplingMeansConfigured
  <2> QED
    BY <2>1, <2>2, <2>7 DEF SamplingMeansConfigured
<1>9. ASSUME NEW h \in Handle, NEW o \in Option, TimesOut(h, o) PROVE SamplingMeansConfigured'
  BY <1>9, ConfigAssumption DEF TimesOut, vars, ConfigInv, SettingInv, TypeInv, TableInv,
    EntriesDistinct, FreshEntry, LockInv, AllAsked, Asked, SamplingMeansConfigured, Config,
    OnlyEntries, Place, table, device, callback, history
<1>10. ASSUME NEW h \in Handle, NEW o \in Option, Fails(h, o) PROVE SamplingMeansConfigured'
  BY <1>10, ConfigAssumption DEF Fails, Answered, ConfigInv, SettingInv, TypeInv, TableInv,
    EntriesDistinct, FreshEntry, LockInv, AllAsked, Asked, SamplingMeansConfigured, Config,
    OnlyEntries, Place, table, device, callback, history
<1>11. CASE UNCHANGED vars
  BY <1>11 DEF vars, ConfigInv, SettingInv, TypeInv, TableInv, EntriesDistinct, FreshEntry,
    LockInv, AllAsked, Asked, SamplingMeansConfigured, Config, OnlyEntries, Place, table,
    device, callback, history
<1> QED
  BY <1>1, <1>2, <1>3, <1>4, <1>5, <1>6, <1>7, <1>8, <1>9, <1>10, <1>11 DEF Next,
    InfoChangeStep, Answer

\* A bit is set with its request (livox_lidar_callback.cpp:61-88, 144).
LEMMA BitStep ==
    ASSUME ConfigInv, [Next]_vars
    PROVE  NoForgottenBit'
<1>1. ASSUME NEW h \in Handle, LidarInfoChange(h) PROVE NoForgottenBit'
  BY <1>1, ConfigAssumption DEF LidarInfoChange, At, Finds, Misses, ConfigInv, SettingInv,
    TypeInv, TableInv, EntriesDistinct, FreshEntry, LockInv, NoForgottenBit, OnlyEntries,
    Place, table, device, callback, history
<1>2. ASSUME NEW h \in Handle, FindIndex(h) PROVE NoForgottenBit'
  BY <1>2, ConfigAssumption DEF FindIndex, At, Finds, ConfigInv, SettingInv, TypeInv,
    TableInv, EntriesDistinct, FreshEntry, LockInv, NoForgottenBit, OnlyEntries, Place,
    table, device, callback, history
<1>3. ASSUME NEW h \in Handle, TakeIndex(h) PROVE NoForgottenBit'
  BY <1>3, ConfigAssumption DEF TakeIndex, At, ConfigInv, SettingInv, TypeInv, TableInv,
    EntriesDistinct, FreshEntry, LockInv, NoForgottenBit, OnlyEntries, Place, table, device,
    callback, history
<1>4. ASSUME NEW h \in Handle, InsertIndex(h) PROVE NoForgottenBit'
  BY <1>4, ConfigAssumption DEF InsertIndex, At, ConfigInv, SettingInv, TypeInv, TableInv,
    EntriesDistinct, FreshEntry, LockInv, NoForgottenBit, OnlyEntries, Place, table, device,
    callback, history
<1>5. ASSUME NEW h \in Handle, LockConfig(h) PROVE NoForgottenBit'
  BY <1>5, ConfigAssumption DEF LockConfig, At, ConfigInv, SettingInv, TypeInv, TableInv,
    EntriesDistinct, FreshEntry, LockInv, NoForgottenBit, OnlyEntries, Place, table, device,
    callback, history
<1>6. ASSUME NEW h \in Handle, SetOption(h) PROVE NoForgottenBit'
  BY <1>6, ConfigAssumption DEF SetOption, Send, ConfigInv, SettingInv, TypeInv, TableInv,
    EntriesDistinct, FreshEntry, LockInv, NoForgottenBit, OnlyEntries, Place, table, device,
    callback, history
<1>7. ASSUME NEW h \in Handle, UnlockConfig(h) PROVE NoForgottenBit'
  BY <1>7, ConfigAssumption DEF UnlockConfig, At, ConfigInv, SettingInv, TypeInv, TableInv,
    EntriesDistinct, FreshEntry, LockInv, NoForgottenBit, OnlyEntries, Place, table, device,
    callback, history
<1>8. ASSUME NEW h \in Handle, NEW o \in Option, Succeeds(h, o) PROVE NoForgottenBit'
  BY <1>8, ConfigAssumption DEF Succeeds, Finds, Answered, ConfigInv, SettingInv, TypeInv,
    TableInv, EntriesDistinct, FreshEntry, LockInv, NoForgottenBit, OnlyEntries, Place,
    table, device, callback, history
<1>9. ASSUME NEW h \in Handle, NEW o \in Option, TimesOut(h, o) PROVE NoForgottenBit'
  BY <1>9, ConfigAssumption DEF TimesOut, vars, ConfigInv, SettingInv, TypeInv, TableInv,
    EntriesDistinct, FreshEntry, LockInv, NoForgottenBit, OnlyEntries, Place, table, device,
    callback, history
<1>10. ASSUME NEW h \in Handle, NEW o \in Option, Fails(h, o) PROVE NoForgottenBit'
  BY <1>10, ConfigAssumption DEF Fails, Answered, ConfigInv, SettingInv, TypeInv, TableInv,
    EntriesDistinct, FreshEntry, LockInv, NoForgottenBit, OnlyEntries, Place, table, device,
    callback, history
<1>11. CASE UNCHANGED vars
  BY <1>11 DEF vars, ConfigInv, SettingInv, TypeInv, TableInv, EntriesDistinct, FreshEntry,
    LockInv, NoForgottenBit, OnlyEntries, Place, table, device, callback, history
<1> QED
  BY <1>1, <1>2, <1>3, <1>4, <1>5, <1>6, <1>7, <1>8, <1>9, <1>10, <1>11 DEF Next,
    InfoChangeStep, Answer

\* The invariant is kept by every step.
LEMMA ConfigStep ==
    ASSUME ConfigInv, [Next]_vars
    PROVE  ConfigInv'
<1>1. TypeInv' /\ TableInv' /\ LockInv'
  BY TypeStep, TableStep, LockStep DEF ConfigInv
<1>2. SettingInv'
  BY OnlyEntriesStep, AllAskedStep, SamplingStep, BitStep DEF SettingInv
<1> QED
  BY <1>1, <1>2 DEF ConfigInv

\* InitLivoxLidar leaves each lidar of the file with an index, and nothing asked.
LEMMA ConfigInit == Init => ConfigInv
<1> SUFFICES ASSUME Init PROVE ConfigInv
  OBVIOUS
<1> DEFINE N == Cardinality(Defined)
<1>1. N \in Nat /\ 0 .. N - 1 \subseteq Index /\ 0 \in Index
  <2>1. IsFiniteSet(Defined)
    BY ConfigAssumption, FS_Subset
  <2>2. N \in Nat
    BY <2>1, FS_CardinalityType
  <2> QED
    BY <2>2, ConfigAssumption DEF Index
<1>2. /\ map_index \in [Defined -> 0 .. N - 1] /\ DOMAIN map_index = Defined
      /\ \A g, h \in Defined : map_index[g] = map_index[h] => g = h
      /\ \A i \in 0 .. N - 1 : \E h \in Defined : map_index[h] = i
  <2>1. map_index \in Bijection(Defined, 0 .. N - 1)
    BY DEF Init
  <2>2. map_index \in Injection(Defined, 0 .. N - 1) /\ map_index \in Surjection(Defined, 0 .. N - 1)
    BY <2>1 DEF Bijection
  <2> QED
    BY <2>2 DEF Injection, Surjection, IsInjective
<1>3. TypeInv
  BY <1>1, <1>2, ConfigAssumption DEF Init, TypeInv, Place
<1>4. TableInv
  <2>1. index_cache = {map_index[h] : h \in DOMAIN map_index}
    BY <1>2 DEF Init
  <2>2. {lidar[h] : h \in {inserting} \ {none}} = {}
    BY DEF Init
  <2>3. EntriesDistinct
    BY <1>2, <2>1, <2>2 DEF EntriesDistinct
  <2> QED
    BY <2>3, ConfigAssumption DEF Init, TableInv, FreshEntry
<1>5. LockInv
  BY ConfigAssumption DEF Init, LockInv
<1>6. OnlyEntries /\ AllAsked
  BY <1>2, ConfigAssumption DEF Init, OnlyEntries, AllAsked
<1>7. SamplingMeansConfigured /\ NoForgottenBit
  BY <1>1, <1>2, ConfigAssumption DEF Init, SamplingMeansConfigured, NoForgottenBit
<1> QED
  BY <1>3, <1>4, <1>5, <1>6, <1>7 DEF ConfigInv, SettingInv

\* The table and the settings are always in order: the inductive invariant of cache_index.cpp
\* and livox_lidar_callback.cpp together.
THEOREM ConfigInvariant == Spec => []ConfigInv
<1>1. ConfigInv /\ UNCHANGED vars => ConfigInv'
  BY ConfigStep
<1> QED
  BY ConfigInit, ConfigStep, PTL DEF Spec

\* The points of a lidar are published only after it confirmed every setting asked of it
\* (livox_lidar_callback.cpp:138-140).
THEOREM SamplingSafety == Spec => []SamplingMeansConfigured
<1>1. ConfigInv => SamplingMeansConfigured
  BY DEF ConfigInv, SettingInv
<1> QED
  BY ConfigInvariant, <1>1, PTL

\* A bit stands for a request under way, unless a setting was refused or a callback lost
\* (livox_lidar_callback.cpp:144).
THEOREM BitSafety == Spec => []NoForgottenBit
<1>1. ConfigInv => NoForgottenBit
  BY DEF ConfigInv, SettingInv
<1> QED
  BY ConfigInvariant, <1>1, PTL

\* No two lidars share an entry, and no entry is lost (cache_index.cpp:41-62).
THEOREM TableSafety == Spec => []EntriesDistinct
<1>1. ConfigInv => EntriesDistinct
  BY DEF ConfigInv, TableInv
<1> QED
  BY ConfigInvariant, <1>1, PTL
=============================================================================
