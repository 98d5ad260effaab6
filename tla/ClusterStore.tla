---------------------------- MODULE ClusterStore ----------------------------
(***************************************************************************)
(* The families of sounds: the in-memory ClusterIndex of the detector, the *)
(* cluster column of the table events, and the exemplar files ex_<id>.raw, *)
(* over the start-up (merge of quasi-duplicates, renaming of the exemplar  *)
(* files, loading of the index, retention), the capture, its stop and its  *)
(* crashes; besides the capture process, the labels set in the dashboard,  *)
(* the command prune and the script recluster.py.                          *)
(*                                                                         *)
(* The writes of a batch are atomic here: this is the log that EventStore  *)
(* implements. A fingerprint is a member of Prints, fingerprints_match the *)
(* relation Compatible, which need not be transitive. Events are numbered  *)
(* as they are detected, which is the order of their ids in the table.     *)
(***************************************************************************)
EXTENDS Integers, FiniteSetsExt, Functions

CONSTANTS
  Prints,       (* fingerprints                                          *)
  Compatible,   (* pairs of fingerprints that fingerprints_match accepts *)
  SaveMayFail,  (* the write of an exemplar file may fail                *)
  MaxEvents,    (* bound of the events detected                          *)
  MaxStarts,    (* bound of the restarts                                 *)
  MaxLabels,    (* bound of the labels set in one run                    *)
  MaxScripts    (* bound of the runs of recluster.py                     *)

ASSUME ClusterAssumption ==
  /\ Compatible \subseteq Prints \X Prints
  /\ \A p \in Prints : <<p, p>> \in Compatible
  /\ \A p, q \in Prints : <<p, q>> \in Compatible => <<q, p>> \in Compatible
  /\ SaveMayFail \in BOOLEAN
  /\ MaxEvents \in Nat
  /\ MaxStarts \in Nat /\ MaxLabels \in Nat /\ MaxScripts \in Nat

VARIABLES
  phase,      \* where Engine.__init__ or the loop of the engine is
  index,      \* ClusterIndex.clusters, see LoadIndex
  nextId,     \* ClusterIndex._next_id
  buffer,     \* events accepted by the store but not yet committed
  events,     \* the table events, by number
  renames,    \* renames[c]: the cluster whose name the file of c is to take
  exemplars,  \* the files: ex_<c>.raw holds the sound of event exemplars[c]
  moves,      \* recluster.py: the files as they will be, move_map
  labelled,   \* ids with a label set since the process started
  detected, starts, scripts,  \* counters of the bounds
  astray,     \* history: a kill has left files that nothing puts right
  bare,       \* history: the file of a flagged event was not written or pruned
  mixed       \* history: recluster.py has met two flagged events in a cluster

otherVars == <<moves, labelled, scripts>>
vars == <<phase, index, nextId, buffer, events, renames, exemplars, otherVars,
          detected, starts, astray, bare, mixed>>

(* "move" and "place": recluster.py takes the files to temporary names and *)
(* to their new ones, between two runs of the capture process; "merge",    *)
(* "rename", "load", "retain": Engine.__init__; "prune": orphaned          *)
(* exemplars are being removed; "capture": the loop of Engine.start.       *)
Phases ==
  {"move", "place", "merge", "rename", "load", "retain", "prune", "capture"}

Nothing == [n \in {} |-> 0]

With(f, n, value) ==
  [m \in DOMAIN f \cup {n} |-> IF m = n THEN value ELSE f[m]]

Clusters(rows) == {rows[n].cluster : n \in DOMAIN rows}

(* Clusters of the table events. *)
Known == Clusters(events)

(* The oldest surviving event of a cluster, and its fingerprint. *)
First(c) == Min({n \in DOMAIN events : events[n].cluster = c})

Representative(c) == events[First(c)].fp

Linked(c, d) == <<Representative(c), Representative(d)>> \in Compatible

Init ==
  /\ phase = "merge"
  /\ index = Nothing
  /\ nextId = 1
  /\ buffer = Nothing
  /\ events = Nothing
  /\ renames = Nothing
  /\ exemplars = Nothing
  /\ moves = Nothing /\ labelled = {}
  /\ detected = 0 /\ starts = 0 /\ scripts = 0
  /\ astray = FALSE /\ bare = FALSE /\ mixed = FALSE

-----------------------------------------------------------------------------
(* The clusters of smaller id that are compatible with b. *)
Elders(b) == {a \in Known : a < b /\ Linked(a, b)}

(* Mutant: the newest compatible cluster absorbs the others. *)
RootsOfNewest ==
  LET younger(a) == {b \in Known : a < b /\ Linked(a, b)}
      root[a \in Known] == IF younger(a) = {} THEN a ELSE root[Max(younger(a))]
  IN root

(* The union-find when all pairs have been compared, in ascending order: b *)
(* is absorbed in the turn of its smallest elder, by the class of it, and  *)
(* no later turn looks at b again.                                         *)
Roots ==
  LET root[b \in Known] == IF Elders(b) = {} THEN b ELSE root[Min(Elders(b))]
  IN root

(* merge_quasi_duplicate_clusters, up to its commit *)
Merge ==
  /\ phase = "merge"
  /\ events' = [n \in DOMAIN events |->
                  [events[n] EXCEPT !.cluster = Roots[events[n].cluster]]]
  /\ renames' = [c \in {b \in Known : Roots[b] # b} |-> Roots[c]]
  /\ phase' = "rename"
  /\ UNCHANGED <<index, nextId, buffer, exemplars, otherVars, detected, starts,
                 astray, bare, mixed>>

(* Mutant: the exemplar files keep the name of the absorbed cluster. *)
FileNotMoved(old, canon) == exemplars

(* os.replace(ex_<old>.raw, ex_<canon>.raw) when the former exists: it     *)
(* replaces the latter if there is one.                                    *)
FileMoved(old, canon) ==
  IF old \in DOMAIN exemplars
  THEN With(Restrict(exemplars, DOMAIN exemplars \ {old}), canon, exemplars[old])
  ELSE exemplars

(* _rename_merged_exemplars, one file after the other in ascending order   *)
RenameExemplar ==
  /\ phase = "rename" /\ DOMAIN renames # {}
  /\ LET old == Min(DOMAIN renames) IN
       /\ exemplars' = FileMoved(old, renames[old])
       /\ renames' = Restrict(renames, DOMAIN renames \ {old})
  /\ UNCHANGED <<phase, index, nextId, buffer, events, otherVars, detected, starts,
                 astray, bare, mixed>>

(* The end of the merge *)
Renamed ==
  /\ phase = "rename" /\ DOMAIN renames = {}
  /\ phase' = "load"
  /\ UNCHANGED <<index, nextId, buffer, events, renames, exemplars, otherVars,
                 detected, starts, astray, bare, mixed>>

(* Mutant: the cluster loaded last is taken for the one of largest id. *)
IdAfterLast ==
  IF Known = {} THEN 1 ELSE 1 + events[Max({First(c) : c \in Known})].cluster

(* The _next_id that the calls of add_existing leave *)
IdAfterAll == 1 + Max({0} \cup Known)

(* _load_cluster_index: load_all_cluster_fingerprints, then add_existing   *)
(* for each cluster in the order of its oldest event. The entries of the   *)
(* index are in the order of the events whose fingerprint they hold.       *)
LoadIndex ==
  /\ phase = "load"
  /\ index' = [n \in {First(c) : c \in Known} |->
                 [id |-> events[n].cluster, fp |-> events[n].fp]]
  /\ nextId' = IdAfterAll
  /\ phase' = "retain"
  /\ UNCHANGED <<buffer, events, renames, exemplars, otherVars, detected, starts,
                 astray, bare, mixed>>

(* The DELETE of apply_retention, at start-up and once a day, takes the    *)
(* oldest events, up to k. Only if it takes any are orphaned files looked  *)
(* for.                                                                    *)
Expire(k) ==
  /\ phase \in {"retain", "capture"}
  /\ events' = Restrict(events, {n \in DOMAIN events : n > k})
  /\ phase' = IF \E n \in DOMAIN events : n <= k THEN "prune" ELSE "capture"
  /\ UNCHANGED <<index, nextId, buffer, renames, exemplars, otherVars,
                 detected, starts, astray, bare, mixed>>

(* The clusters with a file of which no event is in the table yet. *)
OnlyBuffered == (Clusters(buffer) \cap DOMAIN exemplars) \ Known

(* prune_orphaned_exemplars, after a retention or by the command prune,    *)
(* which may run at any time: the table decides, buffered events do not    *)
(* count.                                                                  *)
Prune ==
  /\ exemplars' = Restrict(exemplars, DOMAIN exemplars \cap Known)
  /\ phase' = IF phase = "prune" THEN "capture" ELSE phase
  /\ bare' = (bare \/ OnlyBuffered # {})
  /\ UNCHANGED <<index, nextId, buffer, events, renames, otherVars,
                 detected, starts, astray, mixed>>

-----------------------------------------------------------------------------
Matching(fp) == {n \in DOMAIN index : <<fp, index[n].fp>> \in Compatible}

(* Mutant: the latest matching cluster wins. *)
MatchLatest(S) == Max(S)

MatchFirst(S) == Min(S)

(* The end of a sound with a fingerprint that matches a known cluster.     *)
EmitKnown(fp) ==
  /\ phase = "capture"
  /\ detected < MaxEvents
  /\ detected' = detected + 1
  /\ Matching(fp) # {}
  /\ buffer' = With(buffer, detected',
                    [cluster  |-> index[MatchFirst(Matching(fp))].id,
                     fp       |-> fp,
                     exemplar |-> FALSE])
  /\ UNCHANGED <<phase, index, nextId, events, renames, exemplars, otherVars,
                 starts, astray, bare, mixed>>

(* match_or_create *)
NewId == nextId

(* The end of a sound that opens a cluster: it carries FLAG_EXEMPLAR       *)
(* whether or not _save_exemplar could write the file.                     *)
EmitNew(fp, saved) ==
  /\ phase = "capture"
  /\ detected < MaxEvents
  /\ detected' = detected + 1
  /\ Matching(fp) = {}
  /\ saved \/ SaveMayFail
  /\ index' = With(index, detected', [id |-> NewId, fp |-> fp])
  /\ nextId' = nextId + 1
  /\ exemplars' = IF saved THEN With(exemplars, NewId, detected') ELSE exemplars
  /\ buffer' = With(buffer, detected',
                    [cluster |-> NewId, fp |-> fp, exemplar |-> TRUE])
  /\ bare' = (bare \/ ~saved)
  /\ UNCHANGED <<phase, events, renames, otherVars, starts, astray, mixed>>

(* The rows of the table once the buffer is committed. *)
Stored == [n \in DOMAIN events \cup DOMAIN buffer |->
             IF n \in DOMAIN buffer THEN buffer[n] ELSE events[n]]

(* A flush that succeeds, see EventStore *)
Persist ==
  /\ phase = "capture"
  /\ events' = Stored
  /\ buffer' = Nothing
  /\ UNCHANGED <<phase, index, nextId, renames, exemplars, otherVars,
                 detected, starts, astray, bare, mixed>>

(* set_cluster_triage: the dashboard lists the clusters of the table. *)
Triage(c) ==
  /\ phase = "capture"
  /\ Cardinality(labelled) < MaxLabels
  /\ labelled' = labelled \cup {c}
  /\ UNCHANGED <<phase, index, nextId, buffer, events, renames, exemplars, moves,
                 scripts, detected, starts, astray, bare, mixed>>

(* The process is stopped, its last flush succeeds, and it starts again.   *)
StopAndStart ==
  /\ phase = "capture"
  /\ starts < MaxStarts
  /\ starts' = starts + 1
  /\ events' = Stored
  /\ buffer' = Nothing
  /\ index' = Nothing
  /\ nextId' = 1
  /\ labelled' = {}
  /\ phase' = "merge"
  /\ UNCHANGED <<renames, exemplars, moves, scripts, detected, astray, bare, mixed>>

(* The process, or the script, is killed in any phase, or the last flush   *)
(* fails, and the process starts again. Files are left astray if some had  *)
(* still to be renamed, pruned or moved, or had their event in the buffer: *)
(* no start looks for them, and the temporary ones of the script are lost. *)
CrashAndStart ==
  /\ starts < MaxStarts
  /\ starts' = starts + 1
  /\ astray' = \/ astray
               \/ phase \in {"prune", "move", "place"}
               \/ DOMAIN renames # {}
               \/ OnlyBuffered # {}
  /\ buffer' = Nothing
  /\ index' = Nothing
  /\ nextId' = 1
  /\ renames' = Nothing /\ moves' = Nothing /\ labelled' = {}
  /\ phase' = "merge"
  /\ UNCHANGED <<events, exemplars, scripts, detected, bare, mixed>>

-----------------------------------------------------------------------------
(* scripts/recluster.py, while the capture process is stopped.             *)

(* The event that opens the cluster of event n in a fresh index: the first *)
(* of those that open one and match, n itself if there is none.            *)
Opener[n \in DOMAIN events] ==
  LET hits == {m \in DOMAIN events :
                 /\ m < n /\ Opener[m] = m
                 /\ <<events[n].fp, events[m].fp>> \in Compatible} IN
  IF hits = {} THEN n ELSE Min(hits)

(* A fresh index gives the ids 1, 2, ... to the openers in their order. *)
Replay ==
  [n \in DOMAIN events |->
     Cardinality({Opener[m] : m \in {k \in DOMAIN events : Opener[k] <= Opener[n]}})]

(* old_ex_file: the events that carry the flag and whose cluster has a file *)
WithFile == {n \in DOMAIN events :
               events[n].exemplar /\ events[n].cluster \in DOMAIN exemplars}

(* The first such event of every new cluster, unless its file is that of   *)
(* a smaller cluster already (used_sources).                               *)
Sources(ids) ==
  LET firsts == {n \in WithFile : \A m \in WithFile : ids[m] = ids[n] => n <= m}
  IN {n \in firsts : \A m \in firsts :
        events[m].cluster = events[n].cluster => ids[n] <= ids[m]}

Flagged == {n \in DOMAIN events : events[n].exemplar}

(* The transaction of the script *)
Recluster ==
  LET ids == Replay
      sources == Sources(ids)
  IN
  /\ phase = "merge"
  /\ scripts < MaxScripts /\ scripts' = scripts + 1
  /\ events' = [n \in DOMAIN events |->
                  [cluster  |-> ids[n],
                   fp       |-> events[n].fp,
                   exemplar |-> n \in sources]]
  /\ moves' = [c \in {ids[n] : n \in sources} |->
                 exemplars[events[CHOOSE n \in sources : ids[n] = c].cluster]]
  /\ mixed' = (mixed \/ \E n, m \in Flagged :
                           n # m /\ events[n].cluster = events[m].cluster)
  /\ phase' = "move"
  /\ UNCHANGED <<index, nextId, buffer, renames, exemplars, labelled, detected,
                 starts, astray, bare>>

(* The files to move that still bear their old name. *)
ToSetAside ==
  {c \in DOMAIN moves : \E d \in DOMAIN exemplars : exemplars[d] = moves[c]}

(* src.rename(tmp), for one file after the other of move_map               *)
SetAside ==
  /\ phase = "move" /\ ToSetAside # {}
  /\ LET c == Min(ToSetAside) IN
       exemplars' =
         Restrict(exemplars, {d \in DOMAIN exemplars : exemplars[d] # moves[c]})
  /\ UNCHANGED <<phase, index, nextId, buffer, events, renames, otherVars,
                 detected, starts, astray, bare, mixed>>

(* Mutant: files that nobody wants stay in place. *)
AllFiles == DOMAIN exemplars

(* The files under the name of one that is still to come are not orphans.  *)
NotOrphans == DOMAIN exemplars \cap DOMAIN moves

(* The orphans are removed. *)
RemoveOrphans ==
  /\ phase = "move" /\ ToSetAside = {}
  /\ exemplars' = Restrict(exemplars, NotOrphans)
  /\ phase' = "place"
  /\ UNCHANGED <<index, nextId, buffer, events, renames, otherVars,
                 detected, starts, astray, bare, mixed>>

ToPlace ==
  {c \in DOMAIN moves : ~ (c \in DOMAIN exemplars /\ exemplars[c] = moves[c])}

(* tmp.rename(dst), in the place of a file that is there                   *)
PlaceFile ==
  /\ phase = "place" /\ ToPlace # {}
  /\ LET c == Min(ToPlace) IN exemplars' = With(exemplars, c, moves[c])
  /\ UNCHANGED <<phase, index, nextId, buffer, events, renames, otherVars,
                 detected, starts, astray, bare, mixed>>

(* The end of the script *)
FilesPlaced ==
  /\ phase = "place" /\ ToPlace = {}
  /\ moves' = Nothing
  /\ phase' = "merge"
  /\ UNCHANGED <<index, nextId, buffer, events, renames, exemplars, labelled,
                 scripts, detected, starts, astray, bare, mixed>>

Next ==
  \/ Merge
  \/ RenameExemplar
  \/ Renamed
  \/ LoadIndex
  \/ \E k \in 0..detected : Expire(k)
  \/ phase \in {"prune", "capture"} /\ Prune
  \/ \E fp \in Prints : EmitKnown(fp)
  \/ \E fp \in Prints, saved \in BOOLEAN : EmitNew(fp, saved)
  \/ Persist
  \/ \E c \in Known : Triage(c)
  \/ StopAndStart
  \/ CrashAndStart
  \/ Recluster
  \/ SetAside
  \/ RemoveOrphans
  \/ PlaceFile
  \/ FilesPlaced

Spec == Init /\ [][Next]_vars

-----------------------------------------------------------------------------
IndexIds == {index[n].id : n \in DOMAIN index}

(* No two sounds in the table or the buffer get the same id by accident:   *)
(* once the index is loaded it knows every id in use, all of them smaller  *)
(* than the next one to be given, and knows each once (add_existing,       *)
(* match_or_create).                                                       *)
IdsAreFresh ==
  phase \in {"retain", "prune", "capture"} =>
    /\ Known \cup Clusters(buffer) \subseteq IndexIds
    /\ \A c \in IndexIds : c < nextId
    /\ \A n, m \in DOMAIN index : index[n].id = index[m].id => n = m

(* A sound heard again in the same run goes to the same cluster: clusters  *)
(* opened in between never change where a fingerprint belongs              *)
(* (match_or_create).                                                      *)
MatchingIsStable ==
  \A n \in DOMAIN buffer :
    /\ Matching(buffer[n].fp) # {}
    /\ buffer[n].cluster = index[MatchFirst(Matching(buffer[n].fp))].id

(* Unless a kill has left some astray, no exemplar file is without events, *)
(* and the file of a cluster holds a sound of that cluster, across merges, *)
(* retention, prune and the script; unless the script has met a cluster    *)
(* with two flagged events, which a merge leaves: it takes the only file   *)
(* for the sound of the older (old_ex_file). And the cluster of an event   *)
(* with FLAG_EXEMPLAR has a file, also when one file has replaced another; *)
(* unless one was never written, or pruned before its event was committed. *)
ExemplarsBelong ==
  ~astray /\ phase \notin {"prune", "move", "place"} =>
    /\ \A c \in DOMAIN exemplars :
         /\ c \in Known \cup Clusters(buffer) \cup DOMAIN renames
         /\ ~mixed /\ DOMAIN renames = {} /\ exemplars[c] \in DOMAIN events =>
              events[exemplars[c]].cluster = c
    /\ ~bare /\ DOMAIN renames = {} =>
         /\ \A n \in Flagged : events[n].cluster \in DOMAIN exemplars
         /\ \A n \in DOMAIN buffer :
              buffer[n].exemplar => buffer[n].cluster \in DOMAIN exemplars

(* A label set in this run never shows on a sound heard for the first time *)
(* later in the run, even when retention has emptied the cluster that bore *)
(* it: ids are not given twice between two starts (they may be after one,  *)
(* and the row of the table clusters with its label is still there).       *)
LabelsStayInRun ==
  [][\A n \in DOMAIN index' \ DOMAIN index :
       phase = "capture" => index'[n].id \notin labelled]_vars

(* When the script is done, the files are those of the clusters that have  *)
(* an event with FLAG_EXEMPLAR, of which there is one ("makes exemplar     *)
(* files/flags consistent").                                               *)
FilesAndFlagsAgree ==
  [][phase = "place" /\ phase' = "merge" /\ starts' = starts =>
       /\ {events[n].cluster : n \in Flagged} = DOMAIN exemplars'
       /\ \A n, m \in Flagged : events[n].cluster = events[m].cluster => n = m
       /\ \A c, d \in DOMAIN exemplars' : exemplars'[c] = exemplars'[d] => c = d]_vars

(* A merge unites a set of clusters only if a chain of compatible          *)
(* representatives links them, keeps the events of every cluster together, *)
(* and gives them the smallest id of the set (merge_quasi_duplicate_       *)
(* clusters: "Le plus petit id reste canonique").                          *)
MergeUnitesChains ==
  [][phase = "merge" /\ phase' = "rename" =>
       \A d \in Known' :
         LET class == {events[n].cluster :
                         n \in {m \in DOMAIN events : events'[m].cluster = d}} IN
         /\ d \in class /\ \A c \in class : d <= c
         /\ \A n \in DOMAIN events :
              events[n].cluster \in class => events'[n].cluster = d
         /\ \A S \in (SUBSET class) \ {{}, class} :
              \E x \in S, y \in class \ S : Linked(x, y)]_vars

=============================================================================
