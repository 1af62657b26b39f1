--------------------------- MODULE SettingRecord ---------------------------
(***************************************************************************)
(* The record of changed settings (OwnCode/KeepingSettingModify): each     *)
(* `set' adds a record of the change with the time, of which at most       *)
(* MaxRecords per parameter are kept; beside the records the library       *)
(* counts them per name and remembers the earliest time.  `save' rewrites  *)
(* the file, `reSet' empties it and ends the saving for the rest of the    *)
(* process, and a new process loads what the file has.                     *)
(*                                                                         *)
(* The old and the new value in a record, with the map of the settings'    *)
(* values they come from, decide nothing here and are left out.            *)
(*                                                                         *)
(* Callers: one thread, that loads once before it sets.  The time stamps   *)
(* are seconds of the wall clock and milliseconds of another clock, so     *)
(* that any time may follow any other.  A crash is the process's: what     *)
(* was written to a closed file stays.                                     *)
(***************************************************************************)
EXTENDS Integers, SequencesExt, SequenceSelection

CONSTANTS
  Names,      \* how many parameters there are, numbered as the map sorts them
  Time,       \* what a time stamp can be
  MaxRecords, \* COUNT_OF_PARAM_IN_MODIFY_FILE_MAX
  MaxSets,    \* bound: calls of set
  MaxLoads    \* bound: processes

ASSUME SizesAssumption ==
  /\ Names \in Nat /\ MaxRecords \in Nat /\ MaxSets \in Nat /\ MaxLoads \in Nat
ASSUME TimeAssumption == Time \subseteq Nat

Name == 1..Names

VARIABLES
  records,    \* m_paramModifyRecordMap, by name
  stats,      \* m_paramStatisticsMap, {} where it has no entry
  resetFlag,  \* gModifyRecordResetFlag
  locked,     \* m_mutex was left locked
  file,       \* the lines of config_param_modify.record
  pc,         \* "down", "idle", "trimming", "saving" or "stuck"
  sets,       \* history: calls of set
  loads,      \* history: processes
  fresh,      \* history: neither set nor reSet since load
  saved,      \* history: what the last save or reset was to write
  torn,       \* history: that save has not ended
  erased      \* history: calls of set before the last reset

memory  == <<records, stats>>
history == <<sets, loads, fresh, saved, torn, erased>>
vars == <<memory, resetFlag, locked, file, pc, history>>

Earliest(rs) == CHOOSE t \in {rs[i].time : i \in 1..Len(rs)} :
                  \A i \in 1..Len(rs) : t <= rs[i].time

(* The records of a name, those of a time, and what is left without some.  *)
OfName(n, s)     == Only(s, {r \in Range(s) : r.name = n})
At(t, s)         == {r \in Range(s) : r.time = t}
Without(some, s) == Only(s, Range(s) \ some)

(* What is written, in the order of the multimap.                          *)
Lines == FlattenSeq([n \in Name |-> records[n]])

---------------------------------------------------------------------------
Init ==
  /\ records = [n \in Name |-> <<>>] /\ stats = [n \in Name |-> {}]
  /\ resetFlag = FALSE /\ locked = FALSE
  /\ file = <<>> /\ pc = "down"
  /\ sets = 0 /\ loads = 0 /\ fresh = FALSE
  /\ saved = <<>> /\ torn = FALSE /\ erased = 0

(* updateStatisticsRecord, for each of the records.                        *)
Counted(rs) ==
  IF rs = <<>> THEN {} ELSE {[count |-> Len(rs), earliest |-> Earliest(rs)]}

(* A seeded fault: IsModifyRecordMappingLoaded is set before the records   *)
(* are read, so that each is counted again.                                *)
LoadCountingAgain ==
  /\ pc = "down" /\ loads < MaxLoads
  /\ records' = [n \in Name |-> OfName(n, file)]
  /\ stats' = [n \in Name |->
                {[s EXCEPT !.count = 2 * @] : s \in Counted(records'[n])}]
  /\ pc' = "trimming"
  /\ loads' = loads + 1 /\ fresh' = TRUE
  /\ UNCHANGED <<resetFlag, locked, file, sets, saved, torn, erased>>

(* load, by a new process: the counts and the records.                     *)
Load ==
  /\ pc = "down" /\ loads < MaxLoads
  /\ records' = [n \in Name |-> OfName(n, file)]
  /\ stats' = [n \in Name |-> Counted(records'[n])]
  /\ pc' = "trimming"
  /\ loads' = loads + 1 /\ fresh' = TRUE
  /\ UNCHANGED <<resetFlag, locked, file, sets, saved, torn, erased>>

(* set, up to the loop that removes the surplus.                           *)
Set(n, t) ==
  /\ pc = "idle" /\ sets < MaxSets
  /\ sets' = sets + 1 /\ fresh' = FALSE
  /\ records' = [records EXCEPT ![n] =
       Append(@, [name |-> n, time |-> t, nth |-> sets'])]
  /\ stats' = [stats EXCEPT ![n] =
       IF @ = {} THEN {[count |-> 1, earliest |-> t]}
       ELSE {[count |-> s.count + 1,
              earliest |-> IF s.earliest > t THEN t ELSE s.earliest] : s \in @}]
  /\ pc' = "trimming"
  /\ UNCHANGED <<resetFlag, locked, file, loads, saved, torn, erased>>

(* A seeded fault: the earliest time is looked up only when one has gone.  *)
TrimOnlyWhenFound(n) ==
  /\ pc = "trimming"
  /\ \E s \in stats[n] : \E going \in SUBSET At(s.earliest, records[n]) :
       LET rest == Without(going, records[n])
           gone == Len(records[n]) - Len(rest)
       IN  /\ s.count > MaxRecords
           /\ going = {} => At(s.earliest, records[n]) = {}
           /\ records' = [records EXCEPT ![n] = rest]
           /\ stats' = [stats EXCEPT ![n] =
                {[count |-> s.count - gone,
                  earliest |-> IF gone = 0 \/ rest = <<>> THEN s.earliest
                               ELSE Earliest(rest)]}]
  /\ UNCHANGED <<resetFlag, locked, file, pc, history>>

(* One turn of dereplicationModifyRecordParamMap's loop: the records with  *)
(* the earliest time go.  When none is left that time stays, and the next  *)
(* surplus takes a turn more.  The iterator is advanced after the record   *)
(* it stands on was erased, which is undefined: it goes on, passes over    *)
(* others, or the process crashes.                                         *)
Trim(n) ==
  /\ pc = "trimming"
  /\ \E s \in stats[n] : \E going \in SUBSET At(s.earliest, records[n]) :
       LET rest == Without(going, records[n])
           gone == Len(records[n]) - Len(rest)
       IN  /\ s.count > MaxRecords
           /\ going = {} => At(s.earliest, records[n]) = {}
           /\ records' = [records EXCEPT ![n] = rest]
           /\ stats' = [stats EXCEPT ![n] =
                {[count |-> s.count - gone,
                  earliest |-> IF rest = <<>> THEN s.earliest
                               ELSE Earliest(rest)]}]
  /\ UNCHANGED <<resetFlag, locked, file, pc, history>>

(* load or set returns.                                                    *)
Trimmed ==
  /\ pc = "trimming"
  /\ \A n \in Name : \A s \in stats[n] : s.count <= MaxRecords
  /\ pc' = "idle"
  /\ UNCHANGED <<memory, resetFlag, locked, file, history>>

(* A seeded fault: save does not look at the flag.                         *)
SaveDespiteReset ==
  /\ pc = "idle"
  /\ \/ locked /\ pc' = "stuck" /\ UNCHANGED <<locked, file, saved, torn>>
     \/ ~locked /\ locked' = TRUE /\ UNCHANGED <<pc, file, saved, torn>>
     \/ /\ ~locked /\ pc' = "saving"
        /\ file' = <<>> /\ saved' = Lines /\ torn' = TRUE
        /\ UNCHANGED locked
  /\ UNCHANGED <<memory, resetFlag, sets, loads, fresh, erased>>

(* save: nothing after a reset.  The mutex stays locked when the file      *)
(* cannot be opened, and the next call waits for it.                       *)
Save ==
  /\ pc = "idle" /\ ~resetFlag
  /\ \/ locked /\ pc' = "stuck" /\ UNCHANGED <<locked, file, saved, torn>>
     \/ ~locked /\ locked' = TRUE /\ UNCHANGED <<pc, file, saved, torn>>
     \/ /\ ~locked /\ pc' = "saving"
        /\ file' = <<>> /\ saved' = Lines /\ torn' = TRUE
        /\ UNCHANGED locked
  /\ UNCHANGED <<memory, resetFlag, sets, loads, fresh, erased>>

SaveEnds ==
  /\ pc = "saving"
  /\ pc' = "idle"
  /\ file' = Lines /\ torn' = FALSE
  /\ UNCHANGED <<memory, resetFlag, locked, sets, loads, fresh, saved, erased>>

(* reSet empties the file before it waits for the mutex, and does not look *)
(* whether the file can be opened again.  The memory is left as it is.     *)
ReSet ==
  /\ pc = "idle"
  /\ file' = <<>> /\ saved' = <<>> /\ torn' = FALSE
  /\ erased' = sets /\ fresh' = FALSE
  /\ IF locked
     THEN pc' = "stuck" /\ UNCHANGED <<resetFlag, locked>>
     ELSE resetFlag' = TRUE /\ locked' \in BOOLEAN /\ UNCHANGED pc
  /\ UNCHANGED <<memory, sets, loads>>

(* The process ends, at any time: between fopen and fclose the file has    *)
(* what the stream has flushed.                                            *)
Crash ==
  /\ pc # "down"
  /\ pc' = "down"
  /\ file' \in IF pc = "saving" THEN Prefixes(Lines) ELSE {file}
  /\ records' = [n \in Name |-> <<>>] /\ stats' = [n \in Name |-> {}]
  /\ resetFlag' = FALSE /\ locked' = FALSE
  /\ UNCHANGED history

Next ==
  \/ Load \/ Trimmed \/ Save \/ SaveEnds \/ ReSet \/ Crash
  \/ \E n \in Name : Trim(n)
  \/ \E n \in Name, t \in Time : Set(n, t)

Spec == Init /\ [][Next]_vars

(* A call that has begun its loop goes on.                                 *)
FairSpec == Spec /\ WF_vars(Trimmed \/ \E n \in Name : Trim(n))

---------------------------------------------------------------------------
(* The loop that removes the surplus ends, also when it found nothing with *)
(* the time it remembered: else load hangs with the mutex, or set.         *)
EvictionEnds == pc = "trimming" ~> pc # "trimming"

(* A process begins with what the last save wrote, whole unless that save  *)
(* was cut off, or with nothing after a reset.                             *)
SavedIsLoaded ==
  fresh /\ pc = "idle" => IsPrefix(Lines, saved) /\ (torn \/ Lines = saved)

(* What was recorded before a reset never comes back to the file, although *)
(* it stays in memory.                                                     *)
ResetIsFinal == \A i \in 1..Len(file) : file[i].nth > erased
=============================================================================
