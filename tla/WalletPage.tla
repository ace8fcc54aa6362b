----------------------------- MODULE WalletPage -----------------------------
(***************************************************************************)
(* The holder's wallet page (app/wallet/page.tsx, hooks/use-circuloos-     *)
(* snap.ts): two lists, of what the snap holds for the connected account   *)
(* and of what the issuer has for the session.  Each is loaded again when  *)
(* the account changes, after a save and by a button; a load answers the   *)
(* account it was asked for, whoever is connected by then.                 *)
(*                                                                         *)
(* What SnapStore tells about calls that overlap inside the snap is left   *)
(* out: here a call is carried out as it is answered.                      *)
(***************************************************************************)
EXTENDS Naturals, Bags

CONSTANTS
    HolderAccounts,     \* accounts of the wallet
    NoAccount,          \* not connected
    Held,               \* ids of credentials
    HolderOf,           \* [Held -> HolderAccounts], their subjects as getVCs reads them
    MaxRequests         \* bound: calls without an answer

ASSUME WalletPageAssumption ==
    /\ NoAccount \notin HolderAccounts
    /\ HolderOf \in [Held -> HolderAccounts]
    /\ MaxRequests \in Nat

Connected == HolderAccounts \cup {NoAccount}

\* A request keeps what its closure saw, if it acts on it: the account, and whether
\* the snap was there.
Request ==
    [kind : {"wallet_getSnaps", "install", "get_vcs", "getMyCredentials",
             "getCredential", "save_vc", "clear_all"},
     account : Connected, sawSnap : BOOLEAN, vc : SUBSET Held]

VARIABLES
    account,            \* useAccount
    snapInstalled,      \* in MetaMask
    isInstalled,        \* as the page knows
    snapVCs,            \* what the snap holds
    snapCredentials, backendCredentials,
    loadingSnap, loadingBackend, snapLoading, savingToSnapId,
    requests,           \* a bag: any of them may be answered next
    behind              \* history: the last load to write snapCredentials failed, or
                        \* was not for the account connected, or saw no snap

flags == <<loadingSnap, loadingBackend, snapLoading, savingToSnapId>>
pageVars == <<account, snapInstalled, isInstalled, snapVCs, snapCredentials,
              backendCredentials, flags, requests, behind>>

WalletPageTypeOK ==
    /\ account \in Connected
    /\ {snapInstalled, isInstalled, loadingSnap, loadingBackend, snapLoading, behind}
           \subseteq BOOLEAN
    /\ savingToSnapId \subseteq Held
    /\ {snapVCs, snapCredentials, backendCredentials} \subseteq SUBSET Held
    /\ IsABag(requests) /\ BagToSet(requests) \subseteq Request

Of(who) == {c \in Held : HolderOf[c] = who}

One(kind, who, saw, vc) ==
    SetToBag({[kind |-> kind, account |-> who, sawSnap |-> saw, vc |-> vc]})

\* Its answer does not depend on who asked.
Plain(kind) == One(kind, NoAccount, FALSE, {})

Then(r, kind) == SetToBag({[r EXCEPT !.kind = kind]})

Sent(new) ==
    /\ requests' = requests (+) new
    /\ BagCardinality(requests') =< MaxRequests

Answer(r, kind, new) ==
    /\ r.kind = kind
    /\ requests' = (requests (-) SetToBag({r})) (+) new
    /\ BagCardinality(requests') =< MaxRequests

\* The two loads the effect starts for an account, the second only with the snap.
Loads(who, saw) ==
    Plain("getMyCredentials")
        (+) IF saw THEN One("get_vcs", who, saw, {}) ELSE EmptyBag

-----------------------------------------------------------------------------
(* The account and the snap. *)

\* Fault: the effect does not depend on the account.
ChangedUnseen(who) ==
    /\ who # account /\ account' = who
    /\ UNCHANGED <<snapInstalled, isInstalled, snapVCs, snapCredentials,
                   backendCredentials, flags, requests, behind>>

AccountsChanged(who) ==
    /\ who # account /\ account' = who
    /\ IF who = NoAccount
       THEN /\ snapCredentials' = {} /\ backendCredentials' = {} /\ behind' = FALSE
            /\ UNCHANGED <<requests, loadingSnap, loadingBackend>>
       ELSE /\ Sent(Loads(who, isInstalled))
            /\ loadingBackend' = TRUE /\ loadingSnap' = (isInstalled \/ loadingSnap)
            /\ UNCHANGED <<snapCredentials, backendCredentials, behind>>
    /\ UNCHANGED <<snapInstalled, isInstalled, snapVCs, snapLoading, savingToSnapId>>

\* What becomes of the page when it learns of the snap: the effect runs again.
Learned(r, kind, found, then) ==
    LET new == found /\ ~ isInstalled /\ account # NoAccount
    IN  /\ Answer(r, kind, then (+) IF new THEN Loads(account, TRUE) ELSE EmptyBag)
        /\ isInstalled' = (isInstalled \/ found)
        /\ loadingSnap' = (loadingSnap \/ new)
        /\ loadingBackend' = (loadingBackend \/ new)

SnapChecked(r) ==
    /\ \E found \in {FALSE, snapInstalled} : Learned(r, "wallet_getSnaps", found, EmptyBag)
    /\ UNCHANGED <<account, snapInstalled, snapVCs, snapCredentials,
                   backendCredentials, snapLoading, savingToSnapId, behind>>

HandleInstallSnap ==
    /\ account # NoAccount /\ ~ isInstalled /\ ~ snapLoading
    /\ Sent(One("install", account, FALSE, {})) /\ snapLoading' = TRUE
    /\ UNCHANGED <<account, snapInstalled, isInstalled, snapVCs, snapCredentials,
                   backendCredentials, loadingSnap, loadingBackend, savingToSnapId, behind>>

\* The end of handleSaveToSnap: the mark of the last one started is taken off.
Ends(r) == savingToSnapId' = IF r.vc = {} THEN savingToSnapId ELSE {}

\* The install button's load, or the save's way on, with the closure of the click.
Installed(r) ==
    /\ \/ /\ Learned(r, "install", FALSE, EmptyBag) /\ Ends(r)
          /\ UNCHANGED <<snapInstalled, snapCredentials, behind>>
       \/ /\ r.vc = {} /\ Learned(r, "install", TRUE, EmptyBag)
          /\ snapInstalled' = TRUE /\ snapCredentials' = {} /\ behind' = TRUE
          /\ UNCHANGED savingToSnapId
       \/ /\ r.vc # {}
          /\ Learned(r, "install", TRUE, Then(r, "getCredential"))
          /\ snapInstalled' = TRUE
          /\ UNCHANGED <<snapCredentials, savingToSnapId, behind>>
    /\ snapLoading' = FALSE
    /\ UNCHANGED <<account, snapVCs, backendCredentials>>

-----------------------------------------------------------------------------
(* Loading. *)

RefreshSnap ==
    /\ account # NoAccount /\ isInstalled /\ ~ loadingSnap
    /\ Sent(One("get_vcs", account, TRUE, {})) /\ loadingSnap' = TRUE
    /\ UNCHANGED <<account, snapInstalled, isInstalled, snapVCs, snapCredentials,
                   backendCredentials, loadingBackend, snapLoading, savingToSnapId, behind>>

RefreshBackend ==
    /\ account # NoAccount /\ ~ loadingBackend
    /\ Sent(Plain("getMyCredentials")) /\ loadingBackend' = TRUE
    /\ UNCHANGED <<account, snapInstalled, isInstalled, snapVCs, snapCredentials,
                   backendCredentials, loadingSnap, snapLoading, savingToSnapId, behind>>

\* A call of the snap that fails is null, and null is an empty list.
SnapLoaded(r) ==
    /\ Answer(r, "get_vcs", EmptyBag) /\ Ends(r)
    /\ \E ok \in BOOLEAN :
          /\ snapCredentials' = IF ok THEN snapVCs \cap Of(r.account) ELSE {}
          /\ behind' = ~ (ok /\ r.account = account)
    /\ loadingSnap' = FALSE
    /\ UNCHANGED <<account, snapInstalled, isInstalled, snapVCs,
                   backendCredentials, loadingBackend, snapLoading>>

\* The issuer answers for the session, whoever signed in elsewhere in the site.  A
\* failure leaves the list as it was.
BackendLoaded(r) ==
    /\ Answer(r, "getMyCredentials", EmptyBag)
    /\ backendCredentials' \in {backendCredentials} \cup {Of(who) : who \in HolderAccounts}
    /\ loadingBackend' = FALSE
    /\ UNCHANGED <<account, snapInstalled, isInstalled, snapVCs, snapCredentials,
                   loadingSnap, snapLoading, savingToSnapId, behind>>

-----------------------------------------------------------------------------
(* Saving and clearing. *)

\* The snap is installed first when the page knows of none.  Another save, started
\* meanwhile, gives this one's button back.
HandleSaveToSnap(c) ==
    /\ account # NoAccount /\ c \in backendCredentials /\ savingToSnapId # {c}
    /\ Sent(One(IF isInstalled THEN "getCredential" ELSE "install",
                   account, isInstalled, {c}))
    /\ savingToSnapId' = {c} /\ snapLoading' = (snapLoading \/ ~ isInstalled)
    /\ UNCHANGED <<account, snapInstalled, isInstalled, snapVCs, snapCredentials,
                   backendCredentials, loadingSnap, loadingBackend, behind>>

\* Without a proof, or refused by the issuer, nothing is saved.
FullVCFetched(r) ==
    /\ \/ Answer(r, "getCredential", EmptyBag) /\ Ends(r)
       \/ /\ Answer(r, "getCredential", Then(r, "save_vc"))
          /\ UNCHANGED savingToSnapId
    /\ UNCHANGED <<account, snapInstalled, isInstalled, snapVCs, snapCredentials,
                   backendCredentials, loadingSnap, loadingBackend, snapLoading, behind>>

\* Refused by the snap or by the holder, or saved and the list loaded by the
\* closure of the click, which empties it when that had seen no snap.
SavedToSnap(r) ==
    /\ \/ /\ Answer(r, "save_vc", EmptyBag) /\ Ends(r)
          /\ UNCHANGED <<snapVCs, snapCredentials, loadingSnap, behind>>
       \/ /\ r.sawSnap
          /\ Answer(r, "save_vc", Then(r, "get_vcs"))
          /\ snapVCs' = snapVCs \cup r.vc /\ loadingSnap' = TRUE
          /\ UNCHANGED <<snapCredentials, savingToSnapId, behind>>
       \/ /\ ~ r.sawSnap
          /\ Answer(r, "save_vc", EmptyBag) /\ Ends(r)
          /\ snapVCs' = snapVCs \cup r.vc
          /\ snapCredentials' = {} /\ behind' = TRUE
          /\ UNCHANGED loadingSnap
    /\ UNCHANGED <<account, snapInstalled, isInstalled, backendCredentials,
                   loadingBackend, snapLoading>>

HandleClearSnap ==
    /\ account # NoAccount /\ isInstalled /\ snapCredentials # {}
    /\ \A r \in BagToSet(requests) : r.kind # "clear_all"
    /\ Sent(Plain("clear_all"))
    /\ UNCHANGED <<account, snapInstalled, isInstalled, snapVCs, snapCredentials,
                   backendCredentials, flags, behind>>

\* The whole snap is emptied, of every account's credentials.
SnapCleared(r) ==
    /\ Answer(r, "clear_all", EmptyBag)
    /\ \/ snapVCs' = {} /\ snapCredentials' = {} /\ behind' = FALSE
       \/ UNCHANGED <<snapVCs, snapCredentials, behind>>
    /\ UNCHANGED <<account, snapInstalled, isInstalled, backendCredentials, flags>>

-----------------------------------------------------------------------------

WalletPageInit ==
    /\ account \in Connected
    /\ snapInstalled \in BOOLEAN /\ isInstalled = FALSE
    /\ snapVCs \in IF snapInstalled THEN {{}, Held} ELSE {{}}
    /\ snapCredentials = {} /\ backendCredentials = {}
    /\ loadingSnap = FALSE /\ loadingBackend = (account # NoAccount)
    /\ snapLoading = FALSE /\ savingToSnapId = {}
    /\ requests = Plain("wallet_getSnaps")
                     (+) IF account = NoAccount THEN EmptyBag ELSE Loads(account, FALSE)
    /\ behind = FALSE

WalletPageNext ==
    \/ \E who \in Connected : AccountsChanged(who)
    \/ HandleInstallSnap \/ RefreshSnap \/ RefreshBackend \/ HandleClearSnap
    \/ \E c \in Held : HandleSaveToSnap(c)
    \/ \E r \in BagToSet(requests) :
          \/ SnapChecked(r) \/ Installed(r) \/ SnapLoaded(r) \/ BackendLoaded(r)
          \/ FullVCFetched(r) \/ SavedToSnap(r) \/ SnapCleared(r)

WalletPageSpec == WalletPageInit /\ [][WalletPageNext]_pageVars

-----------------------------------------------------------------------------

\* A page that waits for nothing shows what the snap holds for the account that
\* is connected, however switches, saves, installs and clears followed each
\* other, unless its last load failed or came too late for its account.
SnapListIsCurrent ==
    (requests = EmptyBag /\ ~ behind /\ isInstalled /\ account # NoAccount)
        => snapCredentials = snapVCs \cap Of(account)

=============================================================================
