------------------------------- MODULE IntentLog -------------------------------
(***************************************************************************)
(* The file of store.IntentLogger.  An entry is an intent, a header and    *)
(* after it what to redo and what to undo, each in a write of its own and  *)
(* left out when empty, or the mark that an intent is complete, which is   *)
(* only a header.  The header says what follows it, so that an entry cut   *)
(* short by a crash is found out by the end of the file alone.             *)
(***************************************************************************)
EXTENDS Naturals, Sequences, SequencesExt

(* The parts of an entry.  holds has "redo" and "undo" as they follow. *)
EntryHeader(id, completed, holds) ==
    [part |-> "header", id |-> id, completed |-> completed, holds |-> holds]

Intent(id, holds) ==
    <<EntryHeader(id, FALSE, holds)>>
        \o [i \in DOMAIN holds |-> [part |-> holds[i], id |-> id]]

Completion(id) == <<EntryHeader(id, TRUE, <<>>)>>

CutShort(p) == [part |-> "torn", id |-> p.id]

(* deserialize: there is a whole entry from place k on. *)
EntryAt(file, k) ==
    /\ k <= Len(file)
    /\ file[k].part = "header"
    /\ k + Len(file[k].holds) <= Len(file)
    /\ \A i \in 1..Len(file[k].holds) : file[k + i].part # "torn"

(* Open reads entries until the first that is not whole, and cuts the file  *)
(* there.                                                                   *)
Scan(file) ==
    LET from[k \in 1..(Len(file) + 1)] ==
            IF EntryAt(file, k)
            THEN LET rest == from[k + 1 + Len(file[k].holds)]
                 IN  [entries |-> <<file[k]>> \o rest.entries, length |-> rest.length]
            ELSE [entries |-> <<>>, length |-> k - 1]
    IN  from[1]

Completed(file) ==
    LET entries == Scan(file).entries
    IN  {entries[i].id : i \in {j \in DOMAIN entries : entries[j].completed}}

Intended(file) ==
    LET entries == Scan(file).entries
    IN  {entries[i].id : i \in {j \in DOMAIN entries : ~entries[j].completed}}

(* The intents nothing says are complete, oldest first. *)
Unfinished(file) ==
    LET entries == Scan(file).entries
        done    == Completed(file)
        from[k \in 1..(Len(entries) + 1)] ==
            IF k > Len(entries) THEN <<>>
            ELSE (IF entries[k].id \in done THEN <<>> ELSE <<entries[k]>>) \o from[k+1]
    IN  from[1]

(* Wrong on purpose: what was cut short stays in the file. *)
NotTruncated(file) == file

Truncated(file) == SubSeq(file, 1, Scan(file).length)
=============================================================================
