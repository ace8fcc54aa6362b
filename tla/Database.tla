------------------------------ MODULE Database ------------------------------
(***************************************************************************)
(* The SQLite database the issuer keeps in memory and writes to its file   *)
(* whole: opened by the first call, migrated, exported after every write.  *)
(* A call waits for init, and several may; the process may die and the     *)
(* write of the file may fail.  Source: SqlJsStorageAdapter.               *)
(***************************************************************************)
EXTENDS Naturals, Sequences

CONSTANTS DbCalls,    \* calls of the adapter's methods, each made once
          Dated       \* sets of columns that a database found at first lacks

VARIABLES memory,     \* dbPath is ':memory:'
          file,       \* the file at dbPath
          db,         \* this.db
          ready,      \* initialized
          loaded,     \* the promise of initSqlJs is fulfilled
          jobs,       \* what is to run: rest of init, or of the call after it
          saving,     \* the first job is inside writeFileSync
          uncalled,    \* calls not made yet
          answered    \* calls that returned, since a start found no data

dbVars == <<memory, file, db, ready, loaded, jobs, saving, uncalled, answered>>

\* The columns that initSchema adds to older tables, in its order.
AddedColumns == <<"vc_data", "vc_holder", "data", "status", "created_at", "updated_at",
           "holder_address", "name", "email">>
Columns == {AddedColumns[i] : i \in DOMAIN AddedColumns}

\* What a file or this.db holds: nothing, a file without bytes, the first part
\* of a database, or a database: its columns, whether issuances has rows, the
\* calls whose effect is in it.
Image == [state : {"absent", "empty", "torn", "whole"}, cols : SUBSET Columns,
          issuances : BOOLEAN, done : SUBSET DbCalls]
Blank(state) == [state |-> state, cols |-> {}, issuances |-> FALSE, done |-> {}]
Fresh == [Blank("whole") EXCEPT !.cols = Columns]

\* What a write that does not end leaves.
Damaged == {Blank("empty"), Blank("torn")}

DbJob == [step : {"init", "call"}, call : DbCalls]

DbTypeOK ==
    /\ memory \in BOOLEAN /\ ready \in BOOLEAN /\ loaded \in BOOLEAN /\ saving \in BOOLEAN
    /\ file \in Image /\ db \in Image
    /\ jobs \in Seq(DbJob)
    /\ uncalled \subseteq DbCalls /\ answered \subseteq DbCalls

DbInit ==
    /\ memory \in BOOLEAN
    /\ file \in {Blank("absent")} \cup
          [state : {"whole"}, cols : {Columns \ d : d \in Dated}, issuances : BOOLEAN, done : {{}}]
    /\ memory => file.state = "absent"
    /\ db = Blank("absent") /\ ready = FALSE /\ loaded = FALSE
    /\ jobs = << >> /\ saving = FALSE
    /\ uncalled = DbCalls /\ answered = {}

\* A method is called: init returns at once when initialized, and the rest of
\* the method runs later all the same.
CallMethod(c) ==
    /\ c \in uncalled /\ ~saving
    /\ uncalled' = uncalled \ {c}
    /\ jobs' = Append(jobs, [step |-> IF ready THEN "call" ELSE "init", call |-> c])
    /\ UNCHANGED <<memory, file, db, ready, loaded, saving, answered>>

InitSqlJs == ~loaded /\ loaded' = TRUE /\ UNCHANGED
    <<memory, file, db, ready, jobs, saving, uncalled, answered>>

\* Jobs run one at a time, in their order.
Runs(step, c) ==
    /\ loaded /\ ~saving /\ jobs # << >> /\ Head(jobs) = [step |-> step, call |-> c]

\* writeFileSync empties the file before it writes.
BeginSave ==
    /\ saving' = TRUE
    /\ file' = IF memory THEN file ELSE Blank("empty")

\* Fault: a file that cannot be read is replaced.
Replaced == IF memory \/ file.state # "whole" THEN Fresh ELSE file

\* SQLite takes a file without bytes for a new database.
Opened == IF memory \/ file.state \in {"absent", "empty"} THEN Fresh ELSE file

\* SQLite refuses a column with a default that is not constant when the table
\* has rows: the exception ends the migration.
Refused(image, col) ==
    image.issuances /\ col \in {"created_at", "updated_at"} /\ col \notin image.cols

\* Fault: columns without an index are forgotten.
OnlyIndexed(image) == [image EXCEPT !.cols = @ \cup {"vc_holder", "status", "holder_address"}]

Migrated(image) ==
    LET added == {i \in DOMAIN AddedColumns : \A j \in 1 .. i : ~Refused(image, AddedColumns[j])} IN
    [image EXCEPT !.cols = @ \cup {AddedColumns[i] : i \in added}]

Indexed(image) == {"vc_holder", "status", "holder_address"} \subseteq image.cols

Rejects ==
    /\ jobs' = Tail(jobs)
    /\ UNCHANGED <<file, saving, answered>>

\* The rest of init, for every call that did not find it initialized, up to
\* the save that ends initSchema.
InitSchema(c) ==
    /\ Runs("init", c)
    /\ db' = IF Opened.state = "torn" THEN Opened ELSE Migrated(Opened)
    /\ IF db'.state = "whole" /\ Indexed(db')
       THEN /\ BeginSave
            /\ answered' = IF file.state = "empty" THEN {} ELSE answered
            /\ UNCHANGED jobs
       ELSE Rejects
    /\ UNCHANGED <<memory, ready, loaded, uncalled>>

\* A statement throws that names a column the table lacks, or that meets an
\* unreadable database; else it changes the database, which is then saved.
WriteRow(c, needs, issues) ==
    /\ Runs("call", c)
    /\ IF db.state = "whole" /\ needs \subseteq db.cols
       THEN /\ db' = [db EXCEPT !.done = @ \cup {c}, !.issuances = @ \/ issues]
            /\ BeginSave
            /\ UNCHANGED <<jobs, answered>>
       ELSE Rejects /\ UNCHANGED db
    /\ UNCHANGED <<memory, ready, loaded, uncalled>>

SaveVC(c) == WriteRow(c, {"vc_data", "vc_holder"}, FALSE)
SaveVP(c) == WriteRow(c, {}, FALSE)
SaveIssuance(c) == WriteRow(c, {"data", "status", "holder_address", "updated_at"}, TRUE)
WriteNonce(c) == WriteRow(c, {}, FALSE)
WriteIndex(c) == WriteRow(c, {}, FALSE)
WriteMetadata(c) == WriteRow(c, {}, FALSE)
InsertTrustedIssuerWithMetadata(c) == WriteRow(c, {"name", "email"}, FALSE)

\* Fault: a call goes on without waiting for the promise of init.
EndsAtOnce ==
    LET job == Head(jobs) IN
    /\ saving /\ saving' = FALSE
    /\ file' = IF memory THEN file ELSE db
    /\ ready' = TRUE
    /\ IF job.step = "init"
       THEN jobs' = <<[job EXCEPT !.step = "call"]>> \o Tail(jobs) /\ UNCHANGED answered
       ELSE jobs' = Tail(jobs) /\ answered' = answered \cup {job.call}
    /\ UNCHANGED <<memory, db, loaded, uncalled>>

\* The save ends: init is done and the call follows, or the call returns.
EndSave ==
    LET job == Head(jobs) IN
    /\ saving /\ saving' = FALSE
    /\ file' = IF memory THEN file ELSE db
    /\ IF job.step = "init"
       THEN /\ ready' = TRUE
            /\ jobs' = Append(Tail(jobs), [job EXCEPT !.step = "call"])
            /\ UNCHANGED answered
       ELSE /\ jobs' = Tail(jobs)
            /\ answered' = answered \cup {job.call}
            /\ UNCHANGED ready
    /\ UNCHANGED <<memory, db, loaded, uncalled>>

\* The disk is full: what was written stays, and the database in memory does.
SaveThrows ==
    /\ saving /\ saving' = FALSE /\ ~memory
    /\ file' \in Damaged
    /\ jobs' = Tail(jobs)
    /\ UNCHANGED <<memory, db, ready, loaded, uncalled, answered>>

\* The process ends, and another begins.
DbCrash ==
    /\ file' \in IF saving /\ ~memory THEN Damaged \cup {db} ELSE {file}
    /\ db' = Blank("absent") /\ ready' = FALSE /\ loaded' = FALSE
    /\ jobs' = << >> /\ saving' = FALSE
    /\ answered' = IF memory THEN {} ELSE answered
    /\ UNCHANGED <<memory, uncalled>>

DbNext ==
    \/ \E c \in DbCalls :
          \/ CallMethod(c) \/ InitSchema(c)
          \/ SaveVC(c) \/ SaveVP(c) \/ SaveIssuance(c) \/ WriteNonce(c) \/ WriteIndex(c)
          \/ WriteMetadata(c) \/ InsertTrustedIssuerWithMetadata(c)
    \/ InitSqlJs \/ EndSave \/ SaveThrows \/ DbCrash

DbSpec == DbInit /\ [][DbNext]_dbVars

-----------------------------------------------------------------------------
(* Properties *)

\* A database that can be opened holds everything that was answered since a
\* start found no data: a crash or a full disk in the middle of a save loses
\* all of it or locks the file, never a part.
AnsweredIsKept == file.state = "whole" => answered \subseteq file.done

\* The database in memory holds it too: calls that opened the file side by
\* side, each its own copy, lose nothing to one another, since the rest of
\* every init runs before the call that waited for the first.
AnsweredIsServed == ready /\ db.state = "whole" => answered \subseteq db.done

\* Initialized, the tables have the columns the statements name, unless
\* issuances had rows and no time of creation or of update: the migration
\* stops there, silently.
OpensWithItsColumns ==
    ready /\ db.state = "whole" /\ db.cols # Columns
        => db.issuances /\ ~({"created_at", "updated_at"} \subseteq db.cols)

=============================================================================
