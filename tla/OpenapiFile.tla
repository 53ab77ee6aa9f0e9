----------------------------- MODULE OpenapiFile -----------------------------
(***************************************************************************)
(* The path that write_openapi of src/lib.rs writes to, and the emissions  *)
(* to it: those of one process, and of other test binaries.                *)
(*                                                                         *)
(* std::fs::write is not under src/: it opens the file, which empties it,  *)
(* and then writes the document at its own offset, in as many pieces as    *)
(* the system likes, any of which may fail.  A file is a sequence of       *)
(* pieces of documents, each known by the emission that wrote it.          *)
(***************************************************************************)
EXTENDS Integers, Sequences

CONSTANTS
  Writer,         \* emissions to one path
  Other,          \* a piece of an earlier file, or of a gap
  EarlierLength   \* how long the file is at the start

ASSUME FileAssumption == Other \notin Writer /\ EarlierLength \in Nat

VARIABLES
  file,    \* the pieces of the file
  emit,    \* where an emission is
  length,  \* the length of its document
  offset,  \* how much of it has been written
  alone    \* history: nobody else has opened or written the file since it did

fileVars == <<file, emit, length, offset, alone>>

FileInit ==
  /\ file = [i \in 1..EarlierLength |-> Other]
  /\ emit = [w \in Writer |-> "idle"]
  /\ length = [w \in Writer |-> 0]
  /\ offset = [w \in Writer |-> 0]
  /\ alone = [w \in Writer |-> FALSE]

\* write_openapi has a document of n pieces, and a path.
Begin(w, n) ==
  /\ emit[w] = "idle"
  /\ emit' = [emit EXCEPT ![w] = "opening"]
  /\ length' = [length EXCEPT ![w] = n]
  /\ UNCHANGED <<file, offset, alone>>

\* Mutated form: the file is opened as it is.
AsItIs == file
Emptied == <<>>

Open(w) ==
  /\ emit[w] = "opening"
  /\ emit' = [emit EXCEPT ![w] = "writing"]
  /\ file' = Emptied
  /\ alone' = [v \in Writer |-> v = w]
  /\ UNCHANGED <<length, offset>>

\* n pieces of w at its own offset; what lies between there and the end is a gap.
Overlaid(w, n) ==
  [i \in 1..(IF Len(file) < offset[w] + n THEN offset[w] + n ELSE Len(file)) |->
     IF i > offset[w] /\ i <= offset[w] + n THEN w
     ELSE IF i <= Len(file) THEN file[i] ELSE Other]

Write(w) ==
  /\ emit[w] = "writing"
  /\ \E n \in 1..(length[w] - offset[w]) :
       /\ file' = Overlaid(w, n)
       /\ offset' = [offset EXCEPT ![w] = @ + n]
  /\ alone' = [v \in Writer |-> alone[v] /\ v = w]
  /\ UNCHANGED <<emit, length>>

Finish(w) ==
  /\ emit[w] = "writing"
  /\ offset[w] = length[w]
  /\ emit' = [emit EXCEPT ![w] = "ok"]
  /\ UNCHANGED <<file, length, offset, alone>>

\* CyanotypeError::Write, or the end of the process: what is written remains.
Fail(w) ==
  /\ emit[w] \in {"opening", "writing"}
  /\ emit' = [emit EXCEPT ![w] = "failed"]
  /\ UNCHANGED <<file, length, offset, alone>>

FileStep(w) == Open(w) \/ Write(w) \/ Finish(w) \/ Fail(w)

FileNext == \E w \in Writer : FileStep(w) \/ \E n \in Nat \ {0} : Begin(w, n)

FileSpec == FileInit /\ [][FileNext]_fileVars

-----------------------------------------------------------------------------
FileTypeOK ==
  /\ file \in Seq(Writer \cup {Other})
  /\ emit \in [Writer -> {"idle", "opening", "writing", "ok", "failed"}]
  /\ length \in [Writer -> Nat]
  /\ offset \in [Writer -> Nat]
  /\ alone \in [Writer -> BOOLEAN]
  /\ \A w \in Writer : offset[w] <= length[w]

(***************************************************************************)
(* When write_openapi returns Ok and nobody else opened or wrote the path  *)
(* meanwhile or since, the file is its document and nothing else: nothing  *)
(* of an earlier, longer file, nor of an emission that failed half-way     *)
(* (src/lib.rs, write_openapi).                                            *)
(***************************************************************************)
CleanEmissionIsWhole ==
  \A w \in Writer : emit[w] = "ok" /\ alone[w] => file = [i \in 1..length[w] |-> w]

\* The same of an emission under way, which makes it inductive.
FileInv ==
  /\ FileTypeOK
  /\ \A w \in Writer :
       /\ emit[w] = "idle" => length[w] = 0
       /\ emit[w] \in {"idle", "opening"} => offset[w] = 0 /\ ~alone[w]
       /\ emit[w] = "ok" => offset[w] = length[w]
       /\ emit[w] \in {"writing", "ok"} /\ alone[w] => file = [i \in 1..offset[w] |-> w]
=============================================================================
