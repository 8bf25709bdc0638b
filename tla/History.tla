------------------------------ MODULE History ------------------------------
(***************************************************************************)
(* The file of speed test records (src/src/speedtest.rs): one JSON record  *)
(* per line, appended to by any number of processes and tasks, read whole, *)
(* and now and then replaced by a copy without the old records.  Nothing   *)
(* locks it.                                                               *)
(*                                                                         *)
(* The file is the sequence of what is written to it: a record, or the end *)
(* of a line, which writeln! writes in a call of its own.                  *)
(*                                                                         *)
(* Bound: one prune at a time.  Two of them would write the same copy, as  *)
(* it has one name for all, and one might rename what the other has only   *)
(* begun to write.                                                         *)
(***************************************************************************)
EXTENDS Integers, Sequences, FiniteSets

CONSTANTS Writer,      \* whoever appends records
          Before,      \* records in the file at the start, each on its line
          Old,         \* of these, the ones older than any prune's limit
          MaxRecords   \* bound: records ever made

NL == 0
Record == 1..MaxRecords

ASSUME HistoryAssumption ==
    /\ MaxRecords \in Nat
    /\ Before \in 0..MaxRecords
    /\ Old \subseteq 1..Before

VARIABLES
    file,      \* the contents of the file
    made,      \* records made so far
    stage,     \* a writer in append_history: "idle", "opened" or "texted"
    record,    \* the record it appends, 0 if none
    attached,  \* whether the file it has open, if any, is still the one of that name
    pruner,    \* prune_older_than: "idle", "asking" or "copied"
    keep,      \* the records that the pruner keeps
    saved,     \* history: <<writer, record>> for every append that returned Ok
    during,    \* history: records with no text yet when the prune loaded the
               \* file, or made since
    excused    \* history: records that a prune that was carried through did not
               \* load, or that were old

fileVars == <<file, made, stage, record, attached, pruner, keep, saved, during, excused>>

Recorded == {file[i] : i \in 1..Len(file)} \ {NL}

\* The lines of one record each.
Lines(records) ==
    [i \in 1..(2 * Len(records)) |->
        IF i % 2 = 1 THEN records[(i + 1) \div 2] ELSE NL]

HistoryTypeOK ==
    /\ file \in Seq(Record \cup {NL})
    /\ made \in Before..MaxRecords
    /\ stage \in [Writer -> {"idle", "opened", "texted"}]
    /\ record \in [Writer -> 0..made]
    /\ \A w \in Writer : (record[w] = 0) <=> (stage[w] = "idle")
    /\ attached \in [Writer -> BOOLEAN]
    /\ pruner \in {"idle", "asking", "copied"}
    /\ keep \in Seq(Record)
    /\ saved \subseteq Writer \X Record
    /\ during \subseteq Record
    /\ excused \subseteq Record

HistoryInit ==
    /\ file = Lines([i \in 1..Before |-> i])
    /\ made = Before
    /\ stage = [w \in Writer |-> "idle"]
    /\ record = [w \in Writer |-> 0]
    /\ attached = [w \in Writer |-> TRUE]
    /\ pruner = "idle"
    /\ keep = <<>>
    /\ saved = {}
    /\ during = {}
    /\ excused = {}

-----------------------------------------------------------------------------
(***************************************************************************)
(* append_history.                                                         *)
(***************************************************************************)

\* A new record is there and the file is open for appending.
Open(w) ==
    /\ stage[w] = "idle" /\ made < MaxRecords
    /\ made' = made + 1
    /\ stage' = [stage EXCEPT ![w] = "opened"]
    /\ record' = [record EXCEPT ![w] = made + 1]
    /\ during' = IF pruner = "idle" THEN during ELSE during \cup {made + 1}
    /\ UNCHANGED <<file, attached, pruner, keep, saved, excused>>

\* A write goes to the end of the file that was opened, wherever it is now.
Written(w, token) == IF attached[w] THEN Append(file, token) ELSE file

\* writeln! writes the text of the record.
WriteText(w) ==
    /\ stage[w] = "opened"
    /\ file' = Written(w, record[w])
    /\ stage' = [stage EXCEPT ![w] = "texted"]
    /\ UNCHANGED <<made, record, attached, pruner, keep, saved, during, excused>>

\* writeln! writes the end of the line, and append_history returns Ok.
WriteNewline(w) ==
    /\ stage[w] = "texted"
    /\ file' = Written(w, NL)
    /\ stage' = [stage EXCEPT ![w] = "idle"]
    /\ record' = [record EXCEPT ![w] = 0]
    /\ attached' = [attached EXCEPT ![w] = TRUE]
    /\ saved' = saved \cup {<<w, record[w]>>}
    /\ UNCHANGED <<made, pruner, keep, during, excused>>

\* The writer is killed, or the disk is full, before append_history is done.
AppendCut(w) ==
    /\ stage[w] # "idle"
    /\ stage' = [stage EXCEPT ![w] = "idle"]
    /\ record' = [record EXCEPT ![w] = 0]
    /\ attached' = [attached EXCEPT ![w] = TRUE]
    /\ UNCHANGED <<file, made, pruner, keep, saved, during, excused>>

-----------------------------------------------------------------------------
(***************************************************************************)
(* load_history and prune_older_than.                                      *)
(***************************************************************************)

\* load_history parses every line that is not empty as one record.
Readable ==
    \A i \in 1..(Len(file) - 1) : file[i] # NL => file[i + 1] = NL

\* Records younger than the limit are kept.
IsRecent(r) == r \notin Old

\* Places in ascending order.
InOrder(places) ==
    CHOOSE f \in [1..Cardinality(places) -> places] :
        \A i, j \in 1..Cardinality(places) : i < j => f[i] < f[j]

\* The records that a prune keeps, in the order in which they are in the file.
Kept ==
    LET places == {i \in 1..Len(file) : file[i] # NL /\ IsRecent(file[i])} IN
    [n \in 1..Cardinality(places) |-> file[InOrder(places)[n]]]

\* prune_older_than loads the records, finds old ones and asks whether to
\* delete them; without an old one, or with a line it cannot read, it is done.
PruneLoad ==
    /\ pruner = "idle" /\ Readable
    /\ Recorded \cap Old # {}
    /\ pruner' = "asking"
    /\ keep' = Kept
    /\ during' = {record[w] : w \in {w \in Writer : stage[w] = "opened"}}
    /\ UNCHANGED <<file, made, stage, record, attached, saved, excused>>

\* Mutant: the file itself is rewritten, not a copy.
CopyInPlace ==
    /\ pruner = "asking"
    /\ pruner' = "copied"
    /\ file' = <<>>
    /\ UNCHANGED <<made, stage, record, attached, keep, saved, during, excused>>

\* The answer is yes, and the records to keep are written to another file.
PruneCopy ==
    /\ pruner = "asking"
    /\ pruner' = "copied"
    /\ UNCHANGED <<file, made, stage, record, attached, keep, saved, during, excused>>

\* The copy replaces the file; whoever has the file open has the old one.
PruneRename ==
    /\ pruner = "copied"
    /\ pruner' = "idle"
    /\ file' = Lines(keep)
    /\ keep' = <<>>
    /\ attached' = [w \in Writer |-> stage[w] = "idle"]
    /\ during' = {}
    /\ excused' = excused \cup Old \cup during
    /\ UNCHANGED <<made, stage, record, saved>>

\* The answer is no, the copy fails, or the pruner is killed.
PruneCut ==
    /\ pruner # "idle"
    /\ pruner' = "idle"
    /\ keep' = <<>>
    /\ during' = {}
    /\ UNCHANGED <<file, made, stage, record, attached, saved, excused>>

AppendStep(w) == WriteText(w) \/ WriteNewline(w)

PruneStep == PruneLoad \/ PruneCopy \/ PruneRename \/ PruneCut

-----------------------------------------------------------------------------
(***************************************************************************)
(* Properties.                                                             *)
(***************************************************************************)

\* Records whose append returned Ok, and those that were there from the start.
Due == 1..Before \cup {s[2] : s \in saved}

\* They are in the file, whoever appends or is killed at the same time, until a
\* prune has been carried through that found them too old, or that had loaded the
\* file before their text was written (append_history, prune_older_than).  A
\* prune that is refused, fails or is killed loses none.
LostOnlyToPrune == \A r \in Due : r \in Recorded \cup excused

\* A prune deletes only what is too old, and nothing else deletes records
\* (prune_older_than, by its comment).
RecentKept == \A r \in Due : IsRecent(r) => r \in Recorded

\* Every line of the file is one record, so that load_history can read it.
OneRecordPerLine == Readable
=============================================================================
