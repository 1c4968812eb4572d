----------------------------- MODULE Sequencer -----------------------------
(***************************************************************************)
(* The local index: its id, and the sequence numbers that uploads take     *)
(* under it (SqlRepository.IndexRepoSequencer).  Both are one row of the   *)
(* table index_sequence.  A sequencer object reads the row when it is      *)
(* first asked and counts in memory, writing each number to the table.     *)
(*                                                                         *)
(* Threads: uploads, which take a number each (BlockPusher), a connection  *)
(* that announces the index (connect), and clearIndex, which makes the     *)
(* tables and then the sequencer object again.  The field that holds the   *)
(* object is neither volatile nor read under a lock: a thread may read an  *)
(* object that was replaced.  The program may stop at any point.           *)
(***************************************************************************)
EXTENDS Naturals, Sequences

CONSTANTS
  Upload,      \* threads in sendIndexUpdate
  Start,       \* random starting sequences of a new index
  MaxNumbers,  \* bound: numbers taken
  MaxInits,    \* bound: times that the tables are made
  MaxStops     \* bound: stops of the program

ASSUME SequencerAssumption ==
  /\ Start \subseteq Nat /\ Start # {}
  /\ MaxNumbers \in Nat /\ MaxInits \in Nat /\ MaxStops \in Nat

NoRow == [id |-> 0, sequence |-> 0]
(* Index ids are random: external, a new one is another number than any    *)
(* before.                                                                 *)
Row == [id : Nat, sequence : Nat]

VARIABLES
  row,         \* the row of index_sequence, NoRow if there is none
  version,     \* the table version has its row
  inits,       \* index ids made
  stops,       \* stops of the program
  making,      \* where the thread in checkDb or clearIndex is
  sequencer,   \* the number of the object in the field sequencer
  oldest,      \* the first object of this run of the program
  loaded,      \* what each object has in memory, NoRow if nothing
  upload,      \* the object that each upload holds, 0 if none
  announcing,  \* the object that gave the index id, 0 if none, and the id
  announced,   \* index id and max sequence of the last ClusterConfig
  taken,       \* history: the numbers taken, in order, with their index id
  crossed      \* history: index ids counted with an object that was replaced

dbVars == <<row, version, inits>>
objectVars == <<sequencer, oldest, loaded>>
announceVars == <<announcing, announced>>
historyVars == <<taken, crossed>>
sequencerVars == <<dbVars, stops, making, objectVars, upload, announceVars, historyVars>>

NotAnnouncing == [object |-> 0, id |-> 0]

(* An empty directory: the first start makes the tables.                   *)
SequencerInit ==
  /\ row = NoRow /\ version = FALSE /\ inits = 0 /\ stops = 0
  /\ making = "check"
  /\ sequencer = 1 /\ oldest = 1 /\ loaded = <<NoRow>>
  /\ upload = [u \in Upload |-> 0]
  /\ announcing = NotAnnouncing /\ announced = NoRow
  /\ taken = <<>> /\ crossed = {}

Running == making \notin {"check", "start", "startMade"}

(***************************************************************************)
(* initDb, called by checkDb when the program starts and the version is    *)
(* not there, and by clearIndex.                                           *)
(***************************************************************************)
CheckDb ==
  /\ making = "check"
  /\ making' = IF version THEN "idle" ELSE "start"
  /\ UNCHANGED <<dbVars, stops, objectVars, upload, announceVars, historyVars>>

ClearIndex ==
  /\ making = "idle"
  /\ making' = "clear"
  /\ UNCHANGED <<dbVars, stops, objectVars, upload, announceVars, historyVars>>

(* DROP ALL OBJECTS.                                                       *)
DropTables ==
  /\ making \in {"start", "clear"} /\ (row # NoRow \/ version)
  /\ row' = NoRow /\ version' = FALSE
  /\ UNCHANGED <<inits, stops, making, objectVars, upload, announceVars, historyVars>>

InsertRow ==
  /\ making \in {"start", "clear"} /\ row = NoRow /\ ~version
  /\ inits < MaxInits
  /\ \E s \in Start : row' = [id |-> inits + 1, sequence |-> s]
  /\ inits' = inits + 1
  /\ making' = IF making = "start" THEN "startMade" ELSE "clearMade"
  /\ UNCHANGED <<version, stops, objectVars, upload, announceVars, historyVars>>

InsertVersion ==
  /\ making \in {"startMade", "clearMade"} /\ ~version
  /\ version' = TRUE
  /\ making' = IF making = "startMade" THEN "idle" ELSE making
  /\ UNCHANGED <<row, inits, stops, objectVars, upload, announceVars, historyVars>>

NewObject ==
  /\ sequencer' = sequencer + 1
  /\ loaded' = Append(loaded, NoRow)

(* The last step of clearIndex, ...                                        *)
ReplaceSequencer ==
  /\ making = "clearMade" /\ version
  /\ making' = "idle"
  /\ NewObject
  /\ UNCHANGED <<dbVars, stops, oldest, upload, announceVars, historyVars>>

(* ... which a statement of initDb that fails never reaches.               *)
ClearFails ==
  /\ making \in {"clear", "clearMade"} /\ ~version
  /\ making' = "idle"
  /\ UNCHANGED <<dbVars, stops, objectVars, upload, announceVars, historyVars>>

(* The program stops, and starts with an object of its own.                *)
Stop ==
  /\ stops < MaxStops
  /\ stops' = stops + 1
  /\ making' = "check"
  /\ NewObject /\ oldest' = sequencer + 1
  /\ upload' = [u \in Upload |-> 0] /\ announcing' = NotAnnouncing
  /\ UNCHANGED <<dbVars, announced, historyVars>>

(***************************************************************************)
(* A sequencer object.  Its methods are synchronized; only the table may   *)
(* change between two steps of one.                                        *)
(***************************************************************************)
Objects == oldest..sequencer

(* loadFromDb, by the first thread that asks the object; it throws when    *)
(* there is no row.                                                        *)
LoadFromDb(o) ==
  /\ Running /\ loaded[o] = NoRow /\ row # NoRow
  /\ loaded' = [loaded EXCEPT ![o] = row]
  /\ UNCHANGED <<dbVars, stops, making, sequencer, oldest, upload, announceVars, historyVars>>

(* sendIndexUpdate: getSequencer(), ...                                    *)
GetSequencer(u) ==
  /\ Running /\ upload[u] = 0 /\ Len(taken) < MaxNumbers
  /\ \E o \in Objects : upload' = [upload EXCEPT ![u] = o]
  /\ UNCHANGED <<dbVars, stops, making, objectVars, announceVars, historyVars>>

(* ... then nextSequence(): the table first, then the memory.              *)
CountInMemory(o) ==
  /\ loaded' = [loaded EXCEPT ![o].sequence = @ + 1]
  /\ UNCHANGED row
Count(o) ==
  /\ row' = [row EXCEPT !.sequence = loaded[o].sequence + 1]
  /\ loaded' = [loaded EXCEPT ![o].sequence = @ + 1]

NextSequence(u) ==
  LET o == upload[u] IN
  /\ o # 0 /\ loaded[o] # NoRow /\ row # NoRow
  /\ Len(taken) < MaxNumbers
  /\ Count(o)
  /\ taken' = Append(taken, loaded'[o])
  /\ crossed' = IF o = sequencer /\ loaded[o].id = row.id THEN crossed
                ELSE crossed \cup {loaded[o].id, row.id}
  /\ upload' = [upload EXCEPT ![u] = 0]
  /\ UNCHANGED <<version, inits, stops, making, sequencer, oldest, announceVars>>

(* No row: the statement changes nothing, and the upload fails.            *)
UploadFails(u) ==
  /\ upload[u] # 0 /\ row = NoRow
  /\ upload' = [upload EXCEPT ![u] = 0]
  /\ UNCHANGED <<dbVars, stops, making, objectVars, announceVars, historyVars>>

(***************************************************************************)
(* connect(): our entry of a folder in the ClusterConfig, from two calls   *)
(* of getSequencer().                                                      *)
(***************************************************************************)
ReadIndexId ==
  /\ Running /\ announcing = NotAnnouncing
  /\ \E o \in Objects :
       /\ loaded[o] # NoRow
       /\ announcing' = [object |-> o, id |-> loaded[o].id]
  /\ UNCHANGED <<dbVars, stops, making, objectVars, upload, announced, historyVars>>

ReadStartOf(o) ==
  /\ announcing # NotAnnouncing /\ loaded[o] # NoRow /\ row # NoRow
  /\ announced' = [id |-> announcing.id, sequence |-> row.sequence]
  /\ announcing' = NotAnnouncing
  /\ UNCHANGED <<dbVars, stops, making, objectVars, upload, historyVars>>
ReadSequence(o) ==
  /\ announcing # NotAnnouncing /\ loaded[o] # NoRow
  /\ announced' = [id |-> announcing.id, sequence |-> loaded[o].sequence]
  /\ announcing' = NotAnnouncing
  /\ UNCHANGED <<dbVars, stops, making, objectVars, upload, historyVars>>

AnnounceFails ==
  /\ announcing # NotAnnouncing
  /\ row = NoRow /\ \E o \in Objects : loaded[o] = NoRow
  /\ announcing' = NotAnnouncing
  /\ UNCHANGED <<dbVars, stops, making, objectVars, upload, announced, historyVars>>

MakeTables == DropTables \/ InsertRow \/ InsertVersion

SequencerNext ==
  \/ CheckDb \/ ClearIndex \/ MakeTables \/ ReplaceSequencer \/ ClearFails \/ Stop
  \/ \E o \in Objects : LoadFromDb(o)
  \/ \E u \in Upload : GetSequencer(u) \/ NextSequence(u) \/ UploadFails(u)
  \/ ReadIndexId \/ AnnounceFails
  \/ \E o \in Objects : ReadSequence(o)

SequencerSpec == SequencerInit /\ [][SequencerNext]_sequencerVars

(***************************************************************************)
(* Properties.                                                             *)
(***************************************************************************)
SequencerTypeOK ==
  /\ row \in Row /\ version \in BOOLEAN /\ inits \in Nat /\ stops \in Nat
  /\ making \in {"check", "start", "startMade", "idle", "clear", "clearMade"}
  /\ sequencer \in Nat \ {0} /\ oldest \in 1..sequencer
  /\ loaded \in Seq(Row) /\ Len(loaded) = sequencer
  /\ upload \in [Upload -> Nat] /\ \A u \in Upload : upload[u] \in {0} \cup Objects
  /\ announcing \in [object : Nat, id : Nat] /\ announced \in Row
  /\ taken \in Seq(Row) /\ crossed \subseteq Nat

(* The numbers taken under an index id grow, across restarts and however   *)
(* clearIndex runs beside the uploads: a peer that recorded one never sees *)
(* it again for another change.  Unless an upload counted with an object   *)
(* that clearIndex had replaced, or made obsolete.                         *)
SequencesGrow ==
  \A i, j \in 1..Len(taken) :
    i < j /\ taken[i].id = taken[j].id /\ taken[i].id \notin crossed
      => taken[i].sequence < taken[j].sequence

(* The max sequence that a ClusterConfig announces covers every number     *)
(* taken under the index id beside it, when both come from the object that *)
(* is in use and nobody counted with another one.                          *)
AnnouncedCovers ==
  [][ReadSequence(sequencer) /\ announcing.object = sequencer /\ announcing.id \notin crossed
     => \A i \in 1..Len(taken) :
          taken[i].id = announcing.id => taken[i].sequence <= announced'.sequence]_sequencerVars
=============================================================================
