-------------------------------- MODULE Spill --------------------------------
(***************************************************************************)
(* PersistentSpill and MultiShardSpill: append-only files in which a       *)
(* stateful controller keeps the accumulation of ONE client, and their     *)
(* part in a checkpoint.  A checkpoint records the length of each OPEN     *)
(* file together with the dedup table; restore truncates those files.      *)
(* The modelled controller applies a message by appending one line to each *)
(* file the message concerns, and reads every file once the whole input is *)
(* there and frozen in a checkpoint.  Files are deleted once the emission   *)
(* was saved, but also by start(), which frees what its own recheck has    *)
(* just emitted before it saves, and by an Abort, before the tombstone is  *)
(* saved; early is a history variable that records such a deletion.        *)
(***************************************************************************)
EXTENDS Integers, Sequences, FiniteSets

CONSTANTS
  Files,       \* the client's files: one, or one per bucket
  Input,       \* messages of the client's input shard
  FilesOf,     \* FilesOf[m]: files to which message m adds a line
  Reopen,      \* does restore_state reopen the files it truncates?
  Never,       \* no checkpoint was ever saved
  Nul,         \* what truncate() fills a file with that is too short
  MaxCrashes   \* bound: crashes of the controller

ASSUME SpillAssumption ==
  /\ IsFiniteSet(Input) /\ FilesOf \in [Input -> SUBSET Files]
  /\ Reopen \in BOOLEAN /\ MaxCrashes \in Nat
  /\ Nul \notin Input

VARIABLES
  disk,      \* disk[f]: lines of f that reached the operating system
  buffer,    \* buffer[f]: lines still in the process: partials or file buffer
  exists,    \* files that are in the directory
  handles,   \* files with an open handle, or with partials a snapshot writes
  seen,      \* messages in the dedup table
  emitted,   \* was the client's result read and emitted?
  aborted,   \* was the client dropped?
  starting,  \* is start() between its restore and its flush?
  stored,    \* last checkpoint: lengths of open files, seen, emitted, aborted
  early,     \* history: files were deleted that the checkpoint counts on
  crashes

vars == <<disk, buffer, exists, handles, seen, emitted, aborted, starting, stored, early, crashes>>

Init ==
  /\ disk = [f \in Files |-> <<>>]
  /\ buffer = [f \in Files |-> <<>>]
  /\ exists = {} /\ handles = {}
  /\ seen = {} /\ emitted = FALSE /\ aborted = FALSE
  /\ starting = FALSE
  /\ stored = Never
  /\ early = FALSE
  /\ crashes = 0

Lines(f) == disk[f] \o buffer[f]

\* Closing or flushing the files in H brings their buffers to the disk.
Flushed(H) ==
  /\ disk' = [f \in Files |-> IF f \in H THEN Lines(f) ELSE disk[f]]
  /\ buffer' = [f \in Files |-> IF f \in H THEN <<>> ELSE buffer[f]]
  /\ exists' = exists \cup H

\* append, for every file the message concerns (handle_data checked that it is new
\* and that the client is not aborted).  PersistentSpill opens the file at once, an
\* aggregate when its partials are written.
AppendLines(m) ==
  /\ ~starting /\ ~emitted /\ ~aborted /\ m \notin seen
  /\ buffer' = [f \in Files |-> IF f \in FilesOf[m] THEN Append(buffer[f], m) ELSE buffer[f]]
  /\ \/ exists' = exists \cup FilesOf[m]
     \/ ~Reopen /\ exists' = exists
  /\ handles' = handles \cup FilesOf[m]
  /\ seen' = seen \cup {m}
  /\ UNCHANGED <<disk, emitted, aborted, starting, stored, early, crashes>>

\* A full file buffer is written out, oldest lines first.
Drain(f) ==
  /\ buffer[f] # <<>>
  /\ disk' = [disk EXCEPT ![f] = Append(@, Head(buffer[f]))]
  /\ buffer' = [buffer EXCEPT ![f] = Tail(@)]
  /\ exists' = exists \cup {f}
  /\ UNCHANGED <<handles, seen, emitted, aborted, starting, stored, early, crashes>>

Snapshot ==
  [lens |-> [f \in handles |-> Len(Lines(f))], seen |-> seen, emitted |-> emitted, aborted |-> aborted]

\* The whole input is in the checkpoint, so it may be emitted (_on_eof, recheck).
Frozen == seen = Input /\ stored # Never /\ stored.seen = Input /\ ~aborted

\* start() saves after it has emitted what recheck found and freed what is emitted.
StartDone == (Frozen => emitted) /\ (emitted => exists = {})

\* Mutant of Checkpoint: the buffers are not flushed.
CheckpointUnflushed ==
  /\ starting => StartDone
  /\ stored' = Snapshot
  /\ starting' = FALSE
  /\ UNCHANGED <<disk, buffer, exists, handles, seen, emitted, aborted, early, crashes>>

\* snapshot_state, saved together with the dedup table and the tombstone.
Checkpoint ==
  /\ starting => StartDone
  /\ stored' = Snapshot
  /\ Flushed(handles)
  /\ starting' = FALSE
  /\ UNCHANGED <<handles, seen, emitted, aborted, early, crashes>>

\* get_result reads every file and the result is sent, by _on_eof or by the recheck
\* of start(): read_shard closes the handles, iter_lines only flushes them.
Emit ==
  /\ Frozen /\ ~emitted
  /\ Flushed(handles)
  /\ handles' = IF Reopen THEN handles ELSE {}
  /\ emitted' = TRUE
  /\ UNCHANGED <<seen, aborted, starting, stored, early, crashes>>

\* clear deletes the client's files.
Deleted ==
  /\ disk' = [f \in Files |-> <<>>]
  /\ buffer' = [f \in Files |-> <<>>]
  /\ exists' = {} /\ handles' = {}

\* _free: in the live path once the emission was saved, in start() before that.
Free ==
  /\ emitted /\ (starting \/ (stored # Never /\ stored.emitted))
  /\ Deleted
  /\ early' = (early \/ ~stored.emitted)
  /\ UNCHANGED <<seen, emitted, aborted, starting, stored, crashes>>

\* _on_abort drops the client and deletes its files; the tombstone is saved by the
\* checkpoint that comes next.
Discard ==
  /\ ~starting /\ ~aborted
  /\ Deleted
  /\ aborted' = TRUE
  /\ early' = (early \/ stored # Never)
  /\ UNCHANGED <<seen, emitted, starting, stored, crashes>>

\* restore_state brings a file that exists to its committed length: longer files are
\* cut, shorter ones filled with zero bytes.
Truncated(f, n) ==
  IF n < Len(disk[f]) THEN SubSeq(disk[f], 1, n)
  ELSE IF n > Len(disk[f]) /\ f \in exists THEN disk[f] \o [i \in 1 .. (n - Len(disk[f])) |-> Nul]
  ELSE disk[f]

\* Mutant of Restore: files are not truncated.
RestoreUntruncated ==
  /\ disk' = [f \in Files |-> IF stored = Never THEN <<>> ELSE disk[f]]
  /\ exists' = IF stored = Never THEN {} ELSE exists \cup (IF Reopen THEN DOMAIN stored.lens ELSE {})
  /\ handles' = IF stored # Never /\ Reopen THEN DOMAIN stored.lens ELSE {}
  /\ seen' = IF stored = Never THEN {} ELSE stored.seen
  /\ emitted' = (stored # Never /\ stored.emitted)
  /\ aborted' = (stored # Never /\ stored.aborted)
  /\ starting' = (stored # Never)

\* restore_state, or clear_stale_spill when there is no checkpoint.
Restore ==
  \/ /\ stored = Never
     /\ disk' = [f \in Files |-> <<>>]
     /\ exists' = {} /\ handles' = {}
     /\ seen' = {} /\ emitted' = FALSE /\ aborted' = FALSE
     /\ starting' = FALSE
  \/ /\ stored # Never
     /\ disk' = [f \in Files |-> IF f \in DOMAIN stored.lens
                                   THEN Truncated(f, stored.lens[f]) ELSE disk[f]]
     /\ exists' = exists \cup (IF Reopen THEN DOMAIN stored.lens ELSE {})
     /\ handles' = IF Reopen THEN DOMAIN stored.lens ELSE {}
     /\ seen' = stored.seen /\ emitted' = stored.emitted /\ aborted' = stored.aborted
     /\ starting' = TRUE

\* The process dies: what it had not written out is gone; it is revived.
Crash ==
  /\ crashes < MaxCrashes
  /\ crashes' = crashes + 1
  /\ buffer' = [f \in Files |-> <<>>]
  /\ Restore
  /\ UNCHANGED <<stored, early>>

Next ==
  \/ \E m \in Input : AppendLines(m)
  \/ \E f \in Files : Drain(f)
  \/ Checkpoint \/ Emit \/ Free \/ Discard \/ Crash

Spec == Init /\ [][Next]_vars

-----------------------------------------------------------------------------
\* Number of lines that message m has in file f.
LinesOf(m, f) == Cardinality({i \in 1 .. Len(Lines(f)) : Lines(f)[i] = m})

Exact(f) == \A m \in Input :
  LinesOf(m, f) = IF m \in seen /\ f \in FilesOf[m] THEN 1 ELSE 0

Line == Input \cup {Nul}

\* Does the dedup table still stand for lines in the files?
Needed == ~emitted /\ ~aborted /\ ~early

\* Types of files, table and checkpoint: files hold lines of messages, or zero bytes
\* where restore_state met a file that had been deleted, and committed lengths are
\* natural numbers.
TypeOK ==
  /\ disk \in [Files -> Seq(Line)] /\ buffer \in [Files -> Seq(Line)]
  /\ exists \subseteq Files /\ handles \subseteq Files /\ seen \subseteq Input
  /\ emitted \in BOOLEAN /\ aborted \in BOOLEAN /\ starting \in BOOLEAN /\ early \in BOOLEAN
  /\ stored # Never =>
       /\ DOMAIN stored.lens \subseteq Files /\ \A f \in DOMAIN stored.lens : stored.lens[f] \in Nat
       /\ stored.seen \subseteq Input /\ stored.emitted \in BOOLEAN /\ stored.aborted \in BOOLEAN
  /\ crashes \in Nat

\* A message that the dedup table holds, and so will not be applied again, has its
\* line in each of its files until the client is emitted or dropped, however crashes
\* fall between an append, a flush, a save and a truncate.  The one exception is a
\* deletion that the next save has not yet made good, by start() or by an Abort.
NothingLost ==
  Needed => \A m \in seen : \A f \in FilesOf[m] : LinesOf(m, f) >= 1

\* A file that a checkpoint covers and that holds each message of the dedup
\* table once, and nothing else, still does after any step: a crash undoes
\* its appends and the dedup table's entries together.
StaysExact ==
  [][Needed' => \A f \in Files :
       stored # Never /\ f \in DOMAIN stored.lens /\ Exact(f) => Exact(f)']_vars

\* The checkpoint records the length of each file that holds a line of a
\* message in its dedup table.
EveryFileRecorded ==
  stored # Never /\ ~stored.emitted /\ ~stored.aborted =>
    \A m \in stored.seen : FilesOf[m] \subseteq DOMAIN stored.lens

\* The files stay consistent with the dedup table: each message in it has its
\* line once, and no other message has one.
SpillMatchesDedup == Needed => \A f \in Files : Exact(f)

\* A file whose length the checkpoint records is there until a checkpoint says that
\* the client was emitted or dropped.
KeptUntilSaved ==
  stored # Never /\ ~stored.emitted /\ ~stored.aborted => DOMAIN stored.lens \subseteq exists
-----------------------------------------------------------------------------
(* Inductive strengthening of NothingLost and StaysExact *)

HasLine(s, m, from, to) == \E i \in from .. to : s[i] = m

\* What restore_state leaves of file f: a file without a committed length is not touched.
Kept(f) == IF f \in DOMAIN stored.lens THEN stored.lens[f] ELSE Len(disk[f])

\* Lines wait in the process for files that are open only, so that the flush of a
\* checkpoint reaches all of them.
BufferedIsOpen == \A f \in Files : buffer[f] # <<>> => f \in handles

\* Each message of the dedup table has its lines.
AllThere ==
  Needed => \A f \in Files : \A m \in seen :
    f \in FilesOf[m] => HasLine(Lines(f), m, 1, Len(Lines(f)))

\* What restore_state keeps of a file is on the disk and holds the lines of the messages
\* of the saved table; messages that were applied since have theirs behind it.
CommittedFile(f) ==
  /\ Kept(f) <= Len(disk[f])
  /\ \A m \in stored.seen : f \in FilesOf[m] => HasLine(disk[f], m, 1, Kept(f))
  /\ \A m \in seen \ stored.seen :
       f \in FilesOf[m] \cap DOMAIN stored.lens =>
         HasLine(Lines(f), m, stored.lens[f] + 1, Len(Lines(f)))

\* Does the checkpoint stand for lines in the files?
StoredNeeded == ~stored.emitted /\ ~stored.aborted /\ ~early

CommittedOK ==
  stored # Never =>
    /\ stored.seen \subseteq seen
    /\ stored.emitted => emitted
    /\ stored.aborted => aborted
    /\ StoredNeeded => \A f \in Files : CommittedFile(f)

SpillInv == TypeOK /\ BufferedIsOpen /\ AllThere /\ CommittedOK

\* With the files reopened by restore_state, a file without a handle holds no line of a
\* message of the dedup table (inductive strengthening of EveryFileRecorded).
OpenIfUsed ==
  ~emitted /\ ~aborted => \A m \in seen : FilesOf[m] \subseteq handles
=============================================================================
