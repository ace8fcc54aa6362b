------------------------------ MODULE SnapStore -----------------------------
(***************************************************************************)
(* The credentials a holder keeps in the MetaMask snap (apps/snap/src/rpc, *)
(* utils/storage.ts).  Each RPC method reads the whole state, changes its  *)
(* copy and writes the copy back; some ask the holder in between.  Nothing *)
(* keeps the methods of several pages apart.                               *)
(***************************************************************************)
EXTENDS Naturals, SequencesExt

CONSTANTS
    Credential,     \* ids of credentials
    Page            \* pages that call the snap, one call at a time

ASSUME SnapAssumption == Credential # {}

\* The metadata that updateVC sets is the favorite mark.
StoredVC == [id : Credential, favorite : BOOLEAN]
Method == {"save_vc", "delete_vc", "update_vc", "clear_all"}

VARIABLES
    vcs,            \* the snap's state, as stored
    running         \* by page: its calls, none or one

snapVars == <<vcs, running>>

\* changed is history: the credentials others wrote since the call read.
Running ==
    [method : Method, vcId : Credential, favorite : BOOLEAN,
     phase : {"dialog", "write"}, read : Seq(StoredVC), changed : SUBSET Credential]

SnapTypeOK ==
    /\ vcs \in Seq(StoredVC)
    /\ \A i, j \in DOMAIN vcs : vcs[i].id = vcs[j].id => i = j
    /\ running \in [Page -> {<<>>} \cup Seq(Running)]
    /\ \A p \in Page : Len(running[p]) =< 1

FindIndex(state, vcId) == {i \in DOMAIN state : state[i].id = vcId}
Entries(state, vcId) == {state[i] : i \in FindIndex(state, vcId)}

Calls(method, vcId, favorite, phase, read) ==
    <<[method |-> method, vcId |-> vcId, favorite |-> favorite,
       phase |-> phase, read |-> read, changed |-> {}]>>

-----------------------------------------------------------------------------

\* saveVC asks the holder first and has not read anything yet.
AskToSave(p, vcId) ==
    /\ running[p] = <<>>
    /\ running' = [running EXCEPT ![p] = Calls("save_vc", vcId, FALSE, "dialog", <<>>)]
    /\ UNCHANGED vcs

\* deleteVC reads, then asks.
AskToDelete(p, vcId) ==
    /\ running[p] = <<>> /\ FindIndex(vcs, vcId) # {}
    /\ running' = [running EXCEPT ![p] = Calls("delete_vc", vcId, FALSE, "dialog", vcs)]
    /\ UNCHANGED vcs

\* updateVC and clearAll ask nobody; clearAll only counts what it reads.
ReadToUpdate(p, vcId, favorite) ==
    /\ running[p] = <<>> /\ FindIndex(vcs, vcId) # {}
    /\ running' = [running EXCEPT ![p] = Calls("update_vc", vcId, favorite, "write", vcs)]
    /\ UNCHANGED vcs

ReadToClear(p) ==
    /\ running[p] = <<>>
    /\ running' = [running EXCEPT ![p] = Calls("clear_all", CHOOSE c \in Credential : TRUE, FALSE, "write", <<>>)]
    /\ UNCHANGED vcs

Refuse(p) ==
    /\ running[p] # <<>> /\ running[p][1].phase = "dialog"
    /\ running' = [running EXCEPT ![p] = <<>>]
    /\ UNCHANGED vcs

\* Only saveVC reads the state after the dialog.
Confirm(p) ==
    /\ running[p] # <<>> /\ running[p][1].phase = "dialog"
    /\ running' = [running EXCEPT ![p] =
           IF @[1].method = "save_vc"
           THEN Calls("save_vc", @[1].vcId, FALSE, "write", vcs)
           ELSE <<[@[1] EXCEPT !.phase = "write"]>>]
    /\ UNCHANGED vcs

-----------------------------------------------------------------------------

\* Fault: saved again, it is there twice.
Pushed(call) == Append(call.read, [id |-> call.vcId, favorite |-> FALSE])

\* A credential saved again keeps its place and its mark.
Saved(call) ==
    IF FindIndex(call.read, call.vcId) # {}
    THEN call.read
    ELSE Append(call.read, [id |-> call.vcId, favorite |-> FALSE])

\* Fault: the state is read again, the index is not.
AtOldIndex(call) ==
    LET i == CHOOSE i \in FindIndex(call.read, call.vcId) : TRUE
    IN  IF i \in DOMAIN vcs THEN RemoveAt(vcs, i) ELSE vcs

Deleted(call) ==
    LET i == CHOOSE i \in FindIndex(call.read, call.vcId) : TRUE
    IN  RemoveAt(call.read, i)

Updated(call) ==
    [i \in DOMAIN call.read |->
        IF call.read[i].id = call.vcId
        THEN [call.read[i] EXCEPT !.favorite = call.favorite]
        ELSE call.read[i]]

NewState(call) ==
    CASE call.method = "save_vc" -> Saved(call)
      [] call.method = "delete_vc" -> Deleted(call)
      [] call.method = "update_vc" -> Updated(call)
      [] call.method = "clear_all" -> <<>>

\* setState replaces the whole state.
Write(p) ==
    /\ running[p] # <<>> /\ running[p][1].phase = "write"
    /\ vcs' = NewState(running[p][1])
    /\ running' = [q \in Page |->
           IF q = p \/ running[q] = <<>> THEN <<>>
           ELSE <<[running[q][1] EXCEPT !.changed =
                     @ \cup {c \in Credential : Entries(vcs, c) # Entries(vcs', c)}]>>]

-----------------------------------------------------------------------------

SnapInit == vcs = <<>> /\ running = [p \in Page |-> <<>>]

SnapNext ==
    \E p \in Page :
       \/ ReadToClear(p)
       \/ \E c \in Credential :
             \/ AskToSave(p, c) \/ AskToDelete(p, c)
             \/ \E favorite \in BOOLEAN : ReadToUpdate(p, c, favorite)
       \/ Refuse(p) \/ Confirm(p) \/ Write(p)

SnapSpec == SnapInit /\ [][SnapNext]_snapVars

-----------------------------------------------------------------------------

\* A write changes the credential its call is about, all of them when it clears
\* the snap, and beyond that only credentials that another call wrote since this
\* one read: those it puts back as it read them.  While a holder thinks about
\* deleting one credential, another saved meanwhile is lost, and no other.
OnlyAskedOrOverwritten ==
    [][\A c \in Credential :
          Entries(vcs, c) # Entries(vcs', c) =>
             \E p \in Page :
                /\ running[p] # <<>> /\ running'[p] = <<>>
                /\ \/ running[p][1].method = "clear_all"
                   \/ running[p][1].vcId = c
                   \/ c \in running[p][1].changed]_snapVars

=============================================================================
