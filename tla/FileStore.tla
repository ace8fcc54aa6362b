------------------------------ MODULE FileStore ------------------------------
(***************************************************************************)
(* One path of the file store: FileStore.writeAtomic writes a temporary    *)
(* file, named after the millisecond, and renames it onto the path.        *)
(* Several calls may write the path at once.  Source: libs/file-store.     *)
(***************************************************************************)
EXTENDS Naturals

CONSTANTS Writers,    \* calls of writeAtomic for the path, each with its object
          MaxMs,      \* bound: milliseconds that pass
          NoFile      \* what a name names that names no file

ASSUME NoFileAssumption == NoFile \notin Writers \cup {"empty", "mixed"}
ASSUME WritersAssumption == Writers \cap {"empty", "mixed"} = {}
ASSUME MsAssumption == MaxMs \in Nat

VARIABLES ms,         \* Date.now()
          path,       \* the file the path names
          temps,      \* temps[t]: the file that <path>.<t>.tmp names
          content,    \* content[f]: a writer's object, or what is no JSON
          calls       \* calls[w]: where the call is, the millisecond it took
                      \* for its name, the file it has open

storeVars == <<ms, path, temps, content, calls>>

\* A file is identified with the writer that created it.
Unreadable == {"empty", "mixed"}
Call == [at : {"new", "named", "open", "written", "done", "failed"},
         stamp : 0 .. MaxMs, file : Writers \cup {NoFile}]

StoreTypeOK ==
    /\ ms \in 0 .. MaxMs
    /\ path \in Writers \cup {NoFile}
    /\ temps \in [0 .. MaxMs -> Writers \cup {NoFile}]
    /\ content \in [Writers -> Writers \cup Unreadable]
    /\ calls \in [Writers -> Call]

StoreInit ==
    /\ ms = 0
    /\ path = NoFile
    /\ temps = [t \in 0 .. MaxMs |-> NoFile]
    /\ content = [w \in Writers |-> "empty"]
    /\ calls = [w \in Writers |-> [at |-> "new", stamp |-> 0, file |-> NoFile]]

Goes(w, from, to) ==
    calls[w].at = from /\ calls' = [calls EXCEPT ![w].at = to]

\* After mkdir: the name of the temporary file is computed.
NameTemp(w) ==
    /\ calls[w].at = "new"
    /\ calls' = [calls EXCEPT ![w] = [@ EXCEPT !.at = "named", !.stamp = ms]]
    /\ UNCHANGED <<ms, path, temps, content>>

\* writeFile opens the name: it creates the file or empties the one there.
OpenTemp(w) ==
    LET t == calls[w].stamp
        f == IF temps[t] = NoFile THEN w ELSE temps[t] IN
    /\ calls[w].at = "named"
    /\ calls' = [calls EXCEPT ![w] = [@ EXCEPT !.at = "open", !.file = f]]
    /\ temps' = [temps EXCEPT ![t] = f]
    /\ content' = [content EXCEPT ![f] = "empty"]
    /\ UNCHANGED <<ms, path>>

\* writeFile writes from the start of the file it has open, wherever that has
\* been renamed to: over another text, which may be longer.
WriteTemp(w) ==
    LET f == calls[w].file IN
    /\ Goes(w, "open", "written")
    /\ \E text \in IF content[f] = "empty" THEN {w} ELSE {w, "mixed"} :
          content' = [content EXCEPT ![f] = text]
    /\ UNCHANGED <<ms, path, temps>>

\* Fault: the file is renamed before it is written.
RenamedEarly(w) ==
    \/ /\ Goes(w, "open", "written") /\ calls[w].file = temps[calls[w].stamp]
       /\ path' = temps[calls[w].stamp]
       /\ temps' = [temps EXCEPT ![calls[w].stamp] = NoFile]
       /\ UNCHANGED <<ms, content>>
    \/ /\ Goes(w, "written", "done")
       /\ content' = [content EXCEPT ![calls[w].file] = w]
       /\ UNCHANGED <<ms, path, temps>>

\* rename moves whatever file has the name now, and fails when none has.
RenameTemp(w) ==
    LET t == calls[w].stamp IN
    /\ IF temps[t] = NoFile
       THEN Goes(w, "written", "failed") /\ UNCHANGED <<path, temps>>
       ELSE /\ Goes(w, "written", "done")
            /\ path' = temps[t]
            /\ temps' = [temps EXCEPT ![t] = NoFile]
    /\ UNCHANGED <<ms, content>>

\* loadAll's answer: the object, {} for a path that names nothing (NoFile), or
\* the error of JSON.parse.
LoadAll == IF path = NoFile THEN NoFile ELSE content[path]

\* The process ends; what is on disk stays, temporary files included.
StoreCrash ==
    /\ calls' = [w \in Writers |->
                    IF calls[w].at = "new" THEN calls[w] ELSE [calls[w] EXCEPT !.at = "done"]]
    /\ UNCHANGED <<ms, path, temps, content>>

Millisecond ==
    ms < MaxMs /\ ms' = ms + 1 /\ UNCHANGED <<path, temps, content, calls>>

StoreNext ==
    \/ \E w \in Writers : NameTemp(w) \/ OpenTemp(w) \/ WriteTemp(w) \/ RenameTemp(w)
    \/ StoreCrash
    \/ Millisecond

StoreSpec == StoreInit /\ [][StoreNext]_storeVars

-----------------------------------------------------------------------------
(* Properties *)

Named(w) == calls[w].at # "new"

\* What libs/file-store/README.md says of writeAtomic: a reader finds no file
\* or one whole object, whoever writes, reads or dies in between.
FilesAreWhole == LoadAll \notin Unreadable

\* The name of the temporary file is all that keeps two calls apart: a path is
\* unreadable, or a call fails, only after two took their names within the same
\* millisecond.
TornOnlyIfShared ==
    (LoadAll \in Unreadable \/ \E w \in Writers : calls[w].at = "failed")
        => \E v, w \in Writers : v # w /\ Named(v) /\ Named(w) /\ calls[v].stamp = calls[w].stamp

=============================================================================
