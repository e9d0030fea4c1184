-------------------------------- MODULE Trail --------------------------------
(***************************************************************************)
(* The audit trail: audit.record over one TinyDB file per writer.          *)
(*                                                                         *)
(* record() runs without an await, so while a process appends, nothing     *)
(* else of that process moves; other processes do.  Its lock is one of     *)
(* threads and does not reach them.                                        *)
(*                                                                         *)
(* External, as the head of audit.py tells it: TinyDB keeps the next id in *)
(* memory once it has looked at the file, refuses an id that is taken, and *)
(* an insert reads the whole file and writes the whole file.  A write is   *)
(* taken to be atomic, and so are the two reads of a first insert.         *)
(***************************************************************************)
EXTENDS Integers

CONSTANTS
    Process,   \* the processes that write
    File,      \* the JSON files
    FileOf,    \* the file behind the `agent` each process records as
    Entry,     \* what is recorded
    Idle       \* no append under way

ASSUME FileOfAssumption == FileOf \in [Process -> File]

VARIABLES
    file,      \* the rows of each file, by id
    nextId,    \* TinyDB's next id in each process, 0 until it has looked
    writing,   \* the append each process has under way
    kept,      \* the entries whose record() has returned
    collided   \* the processes TinyDB has refused an id

trailVars == <<file, nextId, writing, kept, collided>>

(* A table is a partial function from ids to entries. *)
IsTable(t) == DOMAIN t \subseteq Nat /\ \A i \in DOMAIN t : t[i] \in Entry

TrailTypeOK ==
    /\ DOMAIN file = File /\ DOMAIN writing = Process
    /\ \A f \in File : IsTable(file[f])
    /\ nextId \in [Process -> Nat]
    /\ \A p \in Process : writing[p] # Idle =>
          /\ writing[p].file \in File /\ writing[p].id \in Nat
          /\ writing[p].entry \in Entry /\ IsTable(writing[p].table)
    /\ kept \subseteq Entry
    /\ collided \subseteq Process

TrailInit ==
    /\ file = [f \in File |-> [i \in {} |-> Idle]]
    /\ nextId = [p \in Process |-> 0]
    /\ writing = [p \in Process |-> Idle]
    /\ kept = {}
    /\ collided = {}

(* Mutant of collection_for: everybody records in one file. *)
collection_for_One(p) == CHOOSE f \in File : TRUE

collection_for(p) == FileOf[p]

Last(t) == CHOOSE n \in DOMAIN t \cup {0} : \A m \in DOMAIN t : m <= n

(* The id the next row gets: the remembered one, or one past the last. *)
NewId(p) == IF nextId[p] # 0 THEN nextId[p] ELSE Last(file[collection_for(p)]) + 1

Taken(p) == NewId(p) \in DOMAIN file[collection_for(p)]

(* record and documents.append, up to the write: the id is taken and the   *)
(* table read.                                                             *)
Begin(p, e) ==
    /\ writing[p] = Idle
    /\ ~Taken(p)
    /\ writing' = [writing EXCEPT ![p] =
          [file |-> collection_for(p), id |-> NewId(p), entry |-> e,
           table |-> file[collection_for(p)]]]
    /\ nextId' = [nextId EXCEPT ![p] = NewId(p) + 1]
    /\ UNCHANGED <<file, kept, collided>>

(* The id is in the file already: record() raises ValueError. *)
Collide(p) ==
    /\ writing[p] = Idle
    /\ Taken(p)
    /\ nextId' = [nextId EXCEPT ![p] = NewId(p) + 1]
    /\ collided' = collided \cup {p}
    /\ UNCHANGED <<file, writing, kept>>

(* The whole file is written back, as it was read and with the new row. *)
Write(p) ==
    /\ writing[p] # Idle
    /\ LET w == writing[p] IN
         /\ file' = [file EXCEPT ![w.file] =
               [i \in DOMAIN w.table \cup {w.id} |->
                   IF i = w.id THEN w.entry ELSE w.table[i]]]
         /\ kept' = kept \cup {w.entry}
    /\ writing' = [writing EXCEPT ![p] = Idle]
    /\ UNCHANGED <<nextId, collided>>

(* The file cannot be written: record() raises. *)
CannotWrite(p) ==
    /\ writing[p] # Idle
    /\ writing' = [writing EXCEPT ![p] = Idle]
    /\ UNCHANGED <<file, nextId, kept, collided>>

(* A restarted process remembers no id and finishes no append. *)
Forget(p) ==
    /\ nextId' = [nextId EXCEPT ![p] = 0]
    /\ writing' = [writing EXCEPT ![p] = Idle]
    /\ UNCHANGED <<file, kept, collided>>

(* What trail() merges: every entry in any of the files.  It reads them one *)
(* after another, so a read is this set only if no process writes while it *)
(* lasts, or as far as it concerns calls that are over.                    *)
trail == {e \in Entry : \E f \in File : \E i \in DOMAIN file[f] : file[f][i] = e}

-------------------------------------------------------------------------------
(* No append is refused because another process took its id. *)
NoneRefused == collided = {}

(* "One file per writer removes the contention entirely": none is refused, *)
(* and none that returned is ever lost to another process that writes its  *)
(* older copy of the file back.                                            *)
NoContention ==
    /\ NoneRefused
    /\ kept \subseteq trail
===============================================================================
